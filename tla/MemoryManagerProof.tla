-------------------------- MODULE MemoryManagerProof --------------------------
(***************************************************************************)
(* Proofs about MemoryManager, for every memory map: the region given to   *)
(* the allocator is usable, and what is marked in it is exactly what the   *)
(* map says is not available.                                              *)
(***************************************************************************)
EXTENDS MemoryManager, FiniteSetTheorems, TLAPS

-----------------------------------------------------------------------------
(* Arithmetic of pages.                                                    *)

(* Division by the size of a page leaves a remainder within the page.      *)
LEMMA DivMod ==
  ASSUME NEW P \in Nat \ {0}, NEW x \in Nat
  PROVE  /\ x = P * (x \div P) + (x % P)
         /\ x % P \in 0 .. P - 1
         /\ x \div P \in Nat
  BY SMT

(* A multiple of the size of a page has remainder 0.                       *)
LEMMA Multiple ==
  ASSUME NEW P \in Nat \ {0}, NEW q \in Nat
  PROVE  (P * q) % P = 0
  BY SMT

(* A number below the modulus is its own remainder.                        *)
LEMMA Remainder ==
  ASSUME NEW W \in Nat \ {0}, NEW x \in Nat, x < W
  PROVE  x % W = x
  BY SMT

(* Between two multiples of the size of a page lies a page.                *)
LEMMA Gap ==
  ASSUME NEW P \in Nat \ {0}, NEW q \in Nat, NEW s \in Nat, P * q < P * s
  PROVE  P * q + P <= P * s
  BY SMT

(* floor_page gives the start of the page an address is in.                *)
LEMMA FloorPage ==
  ASSUME NEW x \in Nat
  PROVE  /\ floor_page(x) \in Nat /\ floor_page(x) % PageSize = 0
         /\ floor_page(x) <= x /\ x < floor_page(x) + PageSize
  <1>1. PageSize \in Nat \ {0}
    BY MapAssumption
  <1>2. /\ x = PageSize * (x \div PageSize) + (x % PageSize)
        /\ x % PageSize \in 0 .. PageSize - 1
        /\ x \div PageSize \in Nat
    BY <1>1, DivMod
  <1>3. PageSize * (x \div PageSize) \in Nat
    BY <1>1, <1>2
  <1>4. floor_page(x) = PageSize * (x \div PageSize)
    BY <1>1, <1>2, <1>3 DEF floor_page
  <1>5. floor_page(x) % PageSize = 0
    BY <1>1, <1>2, <1>4, Multiple
  <1> QED
    BY <1>1, <1>2, <1>3, <1>4, <1>5

(* Starts of pages that differ are a page apart.                           *)
LEMMA PagesApart ==
  ASSUME NEW a \in Nat, NEW b \in Nat, a % PageSize = 0, b % PageSize = 0, a < b
  PROVE  a + PageSize <= b
  <1>1. PageSize \in Nat \ {0}
    BY MapAssumption
  <1>2. a = PageSize * (a \div PageSize) /\ a \div PageSize \in Nat
    BY <1>1, DivMod
  <1>3. b = PageSize * (b \div PageSize) /\ b \div PageSize \in Nat
    BY <1>1, DivMod
  <1> QED
    BY <1>1, <1>2, <1>3, Gap

(* ceil_page rounds up to the start of a page, or wraps around to 0.       *)
LEMMA CeilPage ==
  ASSUME NEW x \in Uint32
  PROVE  /\ ceil_page(x) \in Nat /\ ceil_page(x) % PageSize = 0
         /\ ceil_page(x) # 0 => x <= ceil_page(x)
         /\ x <= Word - PageSize => x <= ceil_page(x) /\ ceil_page(x) < x + PageSize
  <1>1. /\ PageSize \in Nat \ {0} /\ Word \in Nat /\ PageSize < Word
        /\ x \in Nat /\ x < Word
    BY MapAssumption DEF Uint32
  <1> DEFINE y == (x + (PageSize - 1)) % Word
  <1>2. y \in Nat
    BY <1>1, DivMod
  <1>3. ceil_page(x) \in Nat /\ ceil_page(x) % PageSize = 0
    BY <1>2, FloorPage DEF ceil_page
  <1>4. CASE x + (PageSize - 1) < Word
    <2>1. y = x + (PageSize - 1)
      BY <1>1, <1>4
    <2>2. /\ ceil_page(x) = floor_page(y) /\ floor_page(y) \in Nat
          /\ floor_page(y) <= y /\ y < floor_page(y) + PageSize
      BY <1>2, FloorPage DEF ceil_page
    <2> QED
      BY <1>1, <1>3, <2>1, <2>2
  <1>5. CASE x + (PageSize - 1) >= Word
    <2>1. y = x + (PageSize - 1) - Word
      BY <1>1, <1>5
    <2>2. y < PageSize
      BY <1>1, <2>1
    <2>3. floor_page(y) <= y /\ floor_page(y) \in Nat /\ floor_page(y) % PageSize = 0
      BY <1>2, FloorPage
    <2>4. floor_page(y) = 0
      <3>1. SUFFICES ASSUME 0 < floor_page(y) PROVE FALSE
        BY <2>3
      <3>2. 0 + PageSize <= floor_page(y)
        BY <1>1, <2>3, <3>1, PagesApart
      <3> QED
        BY <1>1, <1>2, <2>2, <2>3, <3>2
    <2>5. ~ (x <= Word - PageSize)
      BY <1>1, <1>5
    <2> QED
      BY <1>3, <2>4, <2>5 DEF ceil_page
  <1> QED
    BY <1>1, <1>4, <1>5

-----------------------------------------------------------------------------
(* Entries and what is computed from one.                                  *)

(* A memory map entry has a natural base and length.                       *)
LEMMA EntryType ==
  ASSUME NEW e \in Entries
  PROVE  e.base_addr \in Nat /\ e.length \in Nat
  BY MapAssumption

(* The end of an entry is exact below 2^32 and 0 otherwise.                *)
LEMMA EndExact ==
  ASSUME NEW e \in Entries
  PROVE  /\ End(e) \in Uint32
         /\ Whole(e) => End(e) = e.base_addr + e.length
         /\ ~ Whole(e) => End(e) = 0
  <1>1. e.base_addr \in Nat /\ e.length \in Nat /\ Word \in Nat \ {0}
    BY EntryType, MapAssumption
  <1> DEFINE end64 == e.base_addr + e.length
  <1>2. CASE end64 < Word
    <2>1. End(e) = end64 % Word
      BY <1>1, <1>2 DEF End
    <2>2. end64 % Word = end64
      BY <1>1, <1>2
    <2> QED
      BY <1>1, <1>2, <2>1, <2>2 DEF Whole, Uint32
  <1>3. CASE end64 >= Word
    <2>1. End(e) = Word % Word
      BY <1>1, <1>3 DEF End
    <2>2. Word % Word = 0
      BY <1>1
    <2> QED
      BY <1>1, <1>3, <2>1, <2>2 DEF Whole, Uint32
  <1> QED
    BY <1>1, <1>2, <1>3

(* What an entry offers above the kernel is within the entry.              *)
LEMMA AboveKernelWithin ==
  ASSUME NEW e \in Entries, Low(e)
  PROVE  LET x == AboveKernel(e) IN
         /\ x.start \in Uint32 /\ x.end \in Uint32
         /\ x.start < x.end => /\ kernel_end <= x.start /\ e.base_addr <= x.start
                               /\ x.end <= e.base_addr + e.length
  <1> DEFINE x == AboveKernel(e)
  <1>1. /\ e.base_addr \in Nat /\ e.length \in Nat /\ e.base_addr < Word
        /\ Word \in Nat /\ kernel_end \in Nat /\ kernel_end < Word
    BY EntryType, MapAssumption DEF Low
  <1>2. /\ End(e) \in Uint32
        /\ Whole(e) => End(e) = e.base_addr + e.length
        /\ ~ Whole(e) => End(e) = 0
    BY EndExact
  <1>3. Extent(e).start = e.base_addr /\ Extent(e).end = End(e)
    BY DEF Extent
  <1>4. CASE e.base_addr < kernel_end /\ End(e) > kernel_end
    <2>1. Whole(e) /\ End(e) = e.base_addr + e.length
      BY <1>1, <1>2, <1>4
    <2>2. (e.base_addr + e.length) % Word = e.base_addr + e.length
      <3>1. e.base_addr + e.length \in Nat /\ e.base_addr + e.length < Word
        BY <1>1, <2>1 DEF Whole
      <3>2. Word \in Nat \ {0}
        BY <1>1
      <3> QED
        BY <3>1, <3>2, Remainder
    <2>3. x = [start |-> kernel_end, end |-> e.base_addr + e.length]
      BY <1>1, <1>3, <1>4, <2>1, <2>2 DEF AboveKernel
    <2> QED
      BY <1>1, <1>2, <1>4, <2>1, <2>3 DEF Uint32
  <1>5. CASE ~ (e.base_addr < kernel_end /\ End(e) > kernel_end) /\ End(e) <= kernel_end
    <2>1. x = [start |-> 0, end |-> 0]
      BY <1>3, <1>5 DEF AboveKernel, Empty
    <2> QED
      BY <1>1, <2>1 DEF Uint32
  <1>6. CASE ~ (e.base_addr < kernel_end /\ End(e) > kernel_end) /\ ~ (End(e) <= kernel_end)
    <2>1. x = Extent(e)
      BY <1>3, <1>6 DEF AboveKernel
    <2>2. x.start = e.base_addr /\ x.end = End(e)
      BY <1>3, <2>1
    <2>3. End(e) \in Nat /\ End(e) < Word
      BY <1>1, <1>2 DEF Uint32
    <2> QED
      BY <1>1, <1>2, <1>6, <2>2, <2>3 DEF Uint32
  <1> QED
    BY <1>4, <1>5, <1>6

(* What is above the kernel of an entry that fits below 2^32 is all of it  *)
(* that is above the kernel.                                               *)
LEMMA AboveKernelAll ==
  ASSUME NEW e \in Entries, Whole(e), e.base_addr + e.length > kernel_end
  PROVE  LET x == AboveKernel(e) IN
         /\ x.start = IF e.base_addr < kernel_end THEN kernel_end ELSE e.base_addr
         /\ x.end = e.base_addr + e.length
  <1>1. /\ e.base_addr \in Nat /\ e.length \in Nat /\ kernel_end \in Nat /\ Word \in Nat
        /\ e.base_addr + e.length < Word /\ End(e) = e.base_addr + e.length
    BY EntryType, EndExact, MapAssumption DEF Whole
  <1>2. Extent(e).start = e.base_addr /\ Extent(e).end = End(e)
    BY DEF Extent
  <1>3. CASE e.base_addr < kernel_end
    <2>1. Word \in Nat \ {0} /\ e.base_addr + e.length \in Nat
      BY <1>1
    <2>2. (e.base_addr + e.length) % Word = e.base_addr + e.length
      BY <1>1, <2>1, Remainder
    <2>3. AboveKernel(e) = [start |-> kernel_end, end |-> e.base_addr + e.length]
      BY <1>1, <1>2, <1>3, <2>2 DEF AboveKernel
    <2> QED
      BY <1>3, <2>3
  <1>4. CASE ~ (e.base_addr < kernel_end)
    <2>1. AboveKernel(e) = Extent(e)
      BY <1>1, <1>2, <1>4 DEF AboveKernel
    <2> QED
      BY <1>1, <1>2, <1>4, <2>1
  <1> QED
    BY <1>3, <1>4

(* A region an entry offers: whole pages, and, unless it starts at 0,      *)
(* above the kernel and within the entry.                                  *)
Usable(e, start, size) ==
  /\ start % PageSize = 0 /\ kernel_end <= start /\ PageSize <= size
  /\ e.type = AVAILABLE /\ e.base_addr <= start /\ start + size <= e.base_addr + e.length

(* Only whole pages of available memory above the kernel are offered.      *)
LEMMA OfferUsable ==
  ASSUME NEW e \in Entries
  PROVE  LET x == Offer(e) IN
         /\ x.start \in Nat /\ x.end \in Nat /\ x.start <= x.end /\ x.end < Word
         /\ x.start # 0 => Usable(e, x.start, Size(x))
  <1> DEFINE x == AboveKernel(e)
             r == [start |-> ceil_page(x.start), end |-> floor_page(x.end)]
             offered == /\ e.type = AVAILABLE /\ e.length > 0 /\ Low(e)
                        /\ x.start < x.end /\ r.end > r.start
  <1>1. /\ e.base_addr \in Nat /\ e.length \in Nat /\ kernel_end \in Nat
        /\ Word \in Nat /\ Word > 0 /\ PageSize \in Nat \ {0}
    BY EntryType, MapAssumption
  <1>2. CASE ~ offered
    <2>1. Offer(e) = [start |-> 0, end |-> 0]
      BY <1>2 DEF Offer, Empty
    <2> QED
      BY <1>1, <2>1
  <1>3. CASE offered
    <2>1. Offer(e) = r
      BY <1>3 DEF Offer
    <2>2. /\ x.start \in Uint32 /\ x.end \in Uint32
          /\ kernel_end <= x.start /\ e.base_addr <= x.start
          /\ x.end <= e.base_addr + e.length
      BY <1>3, AboveKernelWithin
    <2>3. /\ ceil_page(x.start) \in Nat /\ ceil_page(x.start) % PageSize = 0
          /\ ceil_page(x.start) # 0 => x.start <= ceil_page(x.start)
      BY <2>2, CeilPage
    <2>4. /\ floor_page(x.end) \in Nat /\ floor_page(x.end) % PageSize = 0
          /\ floor_page(x.end) <= x.end
      BY <2>2, FloorPage DEF Uint32
    <2>5. ceil_page(x.start) + PageSize <= floor_page(x.end)
      BY <1>3, <2>3, <2>4, PagesApart
    <2>6. r.start = ceil_page(x.start) /\ r.end = floor_page(x.end)
      OBVIOUS
    <2>7. Size(r) = floor_page(x.end) - ceil_page(x.start)
      BY <2>6 DEF Size
    <2>8. floor_page(x.end) < Word
      BY <1>1, <2>2, <2>4 DEF Uint32
    <2>9. ASSUME ceil_page(x.start) # 0 PROVE Usable(e, ceil_page(x.start), Size(r))
      <3>1. kernel_end <= ceil_page(x.start) /\ e.base_addr <= ceil_page(x.start)
        BY <1>1, <2>2, <2>3, <2>9 DEF Uint32
      <3>2. PageSize <= Size(r) /\ ceil_page(x.start) + Size(r) = floor_page(x.end)
        BY <1>1, <2>3, <2>4, <2>5, <2>7
      <3>3. floor_page(x.end) <= e.base_addr + e.length
        BY <1>1, <2>2, <2>4 DEF Uint32
      <3> QED
        BY <1>3, <2>3, <3>1, <3>2, <3>3 DEF Usable
    <2> QED
      BY <1>3, <2>1, <2>3, <2>4, <2>6, <2>8, <2>9
  <1> QED
    BY <1>2, <1>3

(* An entry offers at least as much as any whole pages of it above the     *)
(* kernel.                                                                 *)
LEMMA OfferAll ==
  ASSUME NEW e \in Entries, e.type = AVAILABLE, Whole(e),
         NEW s \in Nat, NEW t \in Nat, s % PageSize = 0, t % PageSize = 0,
         kernel_end <= s, e.base_addr <= s, s < t, t <= e.base_addr + e.length
  PROVE  t - s <= Size(Offer(e))
  <1> DEFINE x == AboveKernel(e)
             r == [start |-> ceil_page(x.start), end |-> floor_page(x.end)]
  <1>1. /\ e.base_addr \in Nat /\ e.length \in Nat /\ kernel_end \in Nat
        /\ Word \in Nat /\ PageSize \in Nat \ {0} /\ e.base_addr + e.length < Word
    BY EntryType, MapAssumption DEF Whole
  <1>2. x.start = (IF e.base_addr < kernel_end THEN kernel_end ELSE e.base_addr)
        /\ x.end = e.base_addr + e.length
    BY <1>1, AboveKernelAll
  <1>3. /\ x.start \in Nat /\ x.end \in Nat /\ x.start <= s /\ t <= x.end
        /\ x.end < Word
    BY <1>1, <1>2
  <1>4. s + PageSize <= t
    BY PagesApart
  <1>5. x.start \in Uint32 /\ x.start <= Word - PageSize
    BY <1>1, <1>3, <1>4 DEF Uint32
  <1>6. ceil_page(x.start) \in Nat /\ ceil_page(x.start) <= s
    <2>1. /\ ceil_page(x.start) \in Nat /\ ceil_page(x.start) % PageSize = 0
          /\ ceil_page(x.start) < x.start + PageSize
      BY <1>5, CeilPage
    <2>2. SUFFICES ASSUME s < ceil_page(x.start) PROVE FALSE
      BY <2>1
    <2>3. s + PageSize <= ceil_page(x.start)
      BY <2>1, <2>2, PagesApart
    <2> QED
      BY <1>1, <1>3, <2>1, <2>3
  <1>7. floor_page(x.end) \in Nat /\ t <= floor_page(x.end)
    <2>1. /\ floor_page(x.end) \in Nat /\ floor_page(x.end) % PageSize = 0
          /\ x.end < floor_page(x.end) + PageSize
      BY <1>3, FloorPage
    <2>2. SUFFICES ASSUME floor_page(x.end) < t PROVE FALSE
      BY <2>1
    <2>3. floor_page(x.end) + PageSize <= t
      BY <2>1, <2>2, PagesApart
    <2> QED
      BY <1>1, <1>3, <2>1, <2>3
  <1>8. e.length > 0 /\ Low(e) /\ x.start < x.end /\ r.end > r.start
    BY <1>1, <1>3, <1>6, <1>7 DEF Low
  <1>9. Offer(e) = r
    BY <1>8 DEF Offer
  <1> QED
    BY <1>6, <1>7, <1>9 DEF Size

(* No entry starts in the last page below 2^32, where ceil_page wraps.     *)
NoLastPage ==
  /\ kernel_end <= Word - PageSize
  /\ \A e \in Entries : Low(e) => e.base_addr <= Word - PageSize

(* Then what is offered does not start at 0.                               *)
LEMMA OfferNotNull ==
  ASSUME NoLastPage, NEW e \in Entries, Size(Offer(e)) > 0
  PROVE  Offer(e).start # 0
  <1> DEFINE x == AboveKernel(e)
             r == [start |-> ceil_page(x.start), end |-> floor_page(x.end)]
  <1>1. Size([start |-> 0, end |-> 0]) = 0
    BY DEF Size
  <1>2. Low(e) /\ x.start < x.end /\ Offer(e) = r
    BY <1>1 DEF Offer, Empty
  <1>3. x.start \in Uint32 /\ kernel_end <= x.start
    BY <1>2, AboveKernelWithin
  <1>4. x.start <= Word - PageSize
    <2>1. x.start \in {e.base_addr, kernel_end, 0}
      BY DEF AboveKernel, Extent, Empty
    <2>2. Word \in Nat /\ PageSize \in Nat /\ PageSize < Word
      BY MapAssumption
    <2> QED
      BY <1>2, <2>1, <2>2 DEF NoLastPage
  <1>5. x.start <= ceil_page(x.start) /\ ceil_page(x.start) \in Nat
    BY <1>3, <1>4, CeilPage
  <1>6. kernel_end \in Nat /\ kernel_end > 0
    BY MapAssumption
  <1> QED
    BY <1>2, <1>3, <1>5, <1>6 DEF Uint32

-----------------------------------------------------------------------------
(* The invariant.                                                          *)

(* The map is a sequence of entries below 2^32; p is in it or at its end.  *)
MapShape ==
  /\ mmap_base \in Nat
  /\ \E n \in Nat : /\ mmap \in [0 .. n - 1 -> Entries] /\ mmap_base + n < Word
                    /\ DOMAIN mmap = 0 .. n - 1 /\ map_end = mmap_base + n
  /\ p \in mmap_base .. map_end

(* The best region so far, if there is one that is not at 0, is usable.    *)
BestUsable ==
  /\ best_start \in Nat /\ best_size \in Nat /\ best_start + best_size < Word
  /\ best_start # 0 => \E e \in Map : Usable(e, best_start, best_size)

(* The second pass has something to mark in, and marks only there.         *)
Phases ==
  /\ pc \in {"choose", "panic", "mark", "done"}
  /\ Chosen => best_start # 0 /\ best_size # 0
  /\ pc \in {"choose", "panic"} => marks = {}
  /\ pc = "done" => p = map_end
  /\ \A m \in marks : /\ m \in [ptr : Nat, len : Nat]
                      /\ alloc_start <= m.ptr /\ m.ptr + m.len <= alloc_end

(* What the entries before p say is marked, and nothing else.              *)
Said(a) == \E k \in 0 .. p - mmap_base - 1 :
  mmap[k].type # AVAILABLE /\ Whole(mmap[k]) /\ Covers(mmap[k], a)

MarkedSoFar ==
  Chosen /\ MapKept => \A a \in alloc_start .. alloc_end - 1 : Marked(a) <=> Said(a)

MemInv == MapShape /\ BestUsable /\ Phases /\ MarkedSoFar

(* The map has as many entries as its domain says.                         *)
LEMMA MapEnd ==
  ASSUME NEW n \in Nat, DOMAIN mmap = 0 .. n - 1
  PROVE  map_end = mmap_base + n
  <1>1. Cardinality(0 .. n - 1) = n
    BY FS_Interval
  <1> QED
    BY <1>1 DEF map_end

(* The first state satisfies the invariant.                                *)
LEMMA InitInv == Init => MemInv
  <1> SUFFICES ASSUME Init PROVE MemInv
    OBVIOUS
  <1>1. PICK n \in 0 .. MaxEntries : mmap \in [0 .. n - 1 -> Entries]
    BY DEF Init
  <1>2. /\ mmap_base \in Nat /\ mmap_base + MaxEntries < Word /\ n \in Nat /\ n <= MaxEntries
        /\ MaxEntries \in Nat /\ Word \in Nat
    BY MapAssumption DEF Init
  <1>3. DOMAIN mmap = 0 .. n - 1 /\ map_end = mmap_base + n
    BY <1>1, <1>2, MapEnd
  <1>4. MapShape
    BY <1>1, <1>2, <1>3 DEF MapShape, Init
  <1>5. BestUsable
    BY <1>2 DEF BestUsable, Init
  <1>6. Phases /\ MarkedSoFar
    BY DEF Phases, MarkedSoFar, Chosen, Init
  <1> QED
    BY <1>4, <1>5, <1>6 DEF MemInv

(* The next entry is one further, without wrapping around.                 *)
LEMMA AdvanceOne ==
  ASSUME MapShape, p < map_end, Advance, UNCHANGED map
  PROVE  /\ p' = p + 1 /\ MapShape'
         /\ p - mmap_base \in DOMAIN mmap /\ mmap[p - mmap_base] \in Entries
  <1>1. PICK n \in Nat : /\ mmap \in [0 .. n - 1 -> Entries] /\ mmap_base + n < Word
                         /\ DOMAIN mmap = 0 .. n - 1 /\ map_end = mmap_base + n
    BY DEF MapShape
  <1>2. mmap_base \in Nat /\ p \in Nat /\ mmap_base <= p /\ p + 1 <= mmap_base + n /\ Word \in Nat \ {0}
    BY <1>1, MapAssumption DEF MapShape
  <1>3. (p + 1) % Word = p + 1
    BY <1>1, <1>2, Remainder
  <1>4. p' = p + 1
    BY <1>2, <1>3 DEF Advance
  <1>5. mmap' = mmap /\ mmap_base' = mmap_base /\ map_end' = map_end
    BY DEF map, map_end
  <1>6. p' \in mmap_base .. map_end
    BY <1>1, <1>2, <1>4
  <1>7. MapShape'
    BY <1>1, <1>2, <1>5, <1>6 DEF MapShape
  <1>8. p - mmap_base \in 0 .. n - 1
    BY <1>1, <1>2
  <1> QED
    BY <1>1, <1>4, <1>7, <1>8

(* The invariant is kept by the choice of a better region.                 *)
LEMMA PreferInv == MemInv /\ Prefer => MemInv'
  <1> SUFFICES ASSUME MemInv, Prefer PROVE MemInv'
    OBVIOUS
  <1> DEFINE e == mmap[p - mmap_base]
  <1>1. MapShape' /\ p - mmap_base \in DOMAIN mmap /\ e \in Entries
    BY AdvanceOne DEF MemInv, Prefer
  <1>2. best_start' = Offer(e).start /\ best_size' = Size(Offer(e)) /\ mmap' = mmap
    BY DEF Prefer, map
  <1>3. /\ Offer(e).start \in Nat /\ Offer(e).end \in Nat /\ Offer(e).start <= Offer(e).end
        /\ Offer(e).end < Word /\ Word \in Nat
        /\ Offer(e).start # 0 => Usable(e, Offer(e).start, Size(Offer(e)))
    BY <1>1, OfferUsable, MapAssumption
  <1>4. e \in Map /\ Map' = Map
    BY <1>1, <1>2 DEF Map
  <1>5. BestUsable'
    <2>1. best_start' \in Nat /\ best_size' \in Nat /\ best_start' + best_size' < Word
      BY <1>2, <1>3 DEF Size
    <2>2. best_start' # 0 => Usable(e, best_start', best_size')
      BY <1>2, <1>3
    <2> QED
      BY <1>4, <2>1, <2>2 DEF BestUsable, Usable, Whole
  <1>6. Phases' /\ MarkedSoFar'
    BY DEF MemInv, Prefer, Phases, MarkedSoFar, Chosen
  <1> QED
    BY <1>1, <1>5, <1>6 DEF MemInv

(* The invariant is kept by an entry that offers nothing better.           *)
LEMMA PassOverInv == MemInv /\ PassOver => MemInv'
  <1> SUFFICES ASSUME MemInv, PassOver PROVE MemInv'
    OBVIOUS
  <1>1. MapShape'
    BY AdvanceOne DEF MemInv, PassOver
  <1>2. BestUsable'
    BY DEF MemInv, PassOver, BestUsable, best, map, Map, Usable
  <1>3. Phases' /\ MarkedSoFar'
    BY DEF MemInv, PassOver, Phases, MarkedSoFar, Chosen, best
  <1> QED
    BY <1>1, <1>2, <1>3 DEF MemInv

(* The invariant is kept when the kernel panics.                           *)
LEMMA PanicInv == MemInv /\ Panic => MemInv'
  <1> SUFFICES ASSUME MemInv, Panic PROVE MemInv'
    OBVIOUS
  <1>1. MapShape'
    BY DEF MemInv, Panic, MapShape, map, map_end
  <1>2. BestUsable'
    BY DEF MemInv, Panic, BestUsable, best, map, Map, Usable
  <1>3. Phases' /\ MarkedSoFar'
    BY DEF MemInv, Panic, Phases, MarkedSoFar, Chosen, best
  <1> QED
    BY <1>1, <1>2, <1>3 DEF MemInv

(* The invariant is kept when the allocator gets the best region.          *)
LEMMA StartInv == MemInv /\ StartAllocator => MemInv'
  <1> SUFFICES ASSUME MemInv, StartAllocator PROVE MemInv'
    OBVIOUS
  <1>1. MapShape'
    <2>1. PICK n \in Nat : /\ mmap \in [0 .. n - 1 -> Entries] /\ mmap_base + n < Word
                           /\ DOMAIN mmap = 0 .. n - 1 /\ map_end = mmap_base + n
      BY DEF MemInv, MapShape
    <2>2. p' = mmap_base /\ mmap' = mmap /\ mmap_base' = mmap_base /\ map_end' = map_end
      BY DEF StartAllocator, map, map_end
    <2>3. mmap_base \in Nat /\ mmap_base \in mmap_base .. map_end
      BY <2>1 DEF MemInv, MapShape
    <2> QED
      BY <2>1, <2>2, <2>3 DEF MapShape
  <1>2. BestUsable'
    BY DEF MemInv, StartAllocator, BestUsable, best, map, Map, Usable
  <1>3. Phases'
    BY DEF MemInv, StartAllocator, Phases, Chosen, best, alloc_start, alloc_end
  <1>4. MarkedSoFar'
    <2>1. marks' = {} /\ p' = mmap_base' /\ mmap_base' \in Nat
      BY DEF MemInv, Phases, MapShape, StartAllocator, map
    <2>2. \A b \in Nat : 0 .. b - b - 1 = {}
      OBVIOUS
    <2>3. 0 .. p' - mmap_base' - 1 = {}
      BY <2>1, <2>2
    <2> QED
      BY <2>1, <2>3 DEF MarkedSoFar, Marked, Said
  <1> QED
    BY <1>1, <1>2, <1>3, <1>4 DEF MemInv

-----------------------------------------------------------------------------
(* The second pass.                                                        *)

(* What an entry adds to the marks.                                        *)
MarkOf(e) == [ptr |-> Clip(e).start, len |-> Size(Clip(e))]

(* Marking an entry marks the part of the region it makes unavailable; an  *)
(* entry that is not marked makes nothing in the region unavailable.       *)
LEMMA ClipExact ==
  ASSUME NEW e \in Entries, best_start \in Nat, best_size \in Nat
  PROVE  /\ ToMark(e) => /\ MarkOf(e) \in [ptr : Nat, len : Nat]
                         /\ alloc_start <= MarkOf(e).ptr
                         /\ MarkOf(e).ptr + MarkOf(e).len <= alloc_end
         /\ \A a \in alloc_start .. alloc_end - 1 :
              e.type # AVAILABLE /\ Whole(e) /\ Covers(e, a)
              <=> ToMark(e) /\ MarkOf(e).ptr <= a /\ a < MarkOf(e).ptr + MarkOf(e).len
  <1> DEFINE from == IF e.base_addr < alloc_start THEN alloc_start ELSE e.base_addr
             to   == IF End(e) > alloc_end THEN alloc_end ELSE End(e)
  <1>1. /\ e.base_addr \in Nat /\ e.length \in Nat /\ Word \in Nat
        /\ alloc_start \in Nat /\ alloc_end \in Nat
    BY EntryType, MapAssumption DEF alloc_start, alloc_end
  <1>2. /\ End(e) \in Nat
        /\ Whole(e) => End(e) = e.base_addr + e.length
        /\ ~ Whole(e) => End(e) = 0
    BY EndExact DEF Uint32
  <1>3. Clip(e).start = from /\ Clip(e).end = to
    BY DEF Clip, Extent
  <1>4. MarkOf(e).ptr = from /\ MarkOf(e).len = to - from
    BY <1>3 DEF MarkOf, Size
  <1>5. ToMark(e) <=> /\ e.length > 0 /\ e.base_addr < Word /\ End(e) > e.base_addr
                      /\ to > from /\ e.type # AVAILABLE
    BY <1>3 DEF ToMark, Low
  <1>6. from \in Nat /\ to \in Nat /\ alloc_start <= from /\ to <= alloc_end
    BY <1>1, <1>2
  <1>7. ToMark(e) => to - from \in Nat
    BY <1>5, <1>6
  <1>8. ToMark(e) => MarkOf(e) \in [ptr : Nat, len : Nat]
    BY <1>3, <1>6, <1>7 DEF MarkOf, Size
  <1>9. MarkOf(e).ptr + MarkOf(e).len = to
    BY <1>4, <1>6
  <1>10. ASSUME NEW a \in alloc_start .. alloc_end - 1
         PROVE  e.type # AVAILABLE /\ Whole(e) /\ Covers(e, a)
                <=> ToMark(e) /\ from <= a /\ a < to
    <2>1. CASE Whole(e)
      <3>1. End(e) = e.base_addr + e.length /\ End(e) < Word
        BY <1>2, <2>1 DEF Whole
      <3>2. Covers(e, a) <=> e.base_addr <= a /\ a < End(e)
        BY <3>1 DEF Covers
      <3>3. Covers(e, a) <=> from <= a /\ a < to
        BY <1>1, <1>2, <1>10, <3>2
      <3>4. from <= a /\ a < to =>
              e.length > 0 /\ e.base_addr < Word /\ End(e) > e.base_addr /\ to > from
        BY <1>1, <1>2, <1>6, <1>10, <3>1
      <3> QED
        BY <1>5, <2>1, <3>3, <3>4
    <2>2. CASE ~ Whole(e)
      <3>1. ~ (End(e) > e.base_addr)
        BY <1>1, <1>2, <2>2
      <3> QED
        BY <1>5, <2>2, <3>1
    <2> QED
      BY <2>1, <2>2
  <1> QED
    BY <1>4, <1>6, <1>8, <1>9, <1>10

(* One more entry of the map has been read.                                *)
LEMMA SaidOneMore ==
  ASSUME MapShape, p < map_end, p' = p + 1, UNCHANGED map, NEW a
  PROVE  Said(a)' <=> \/ Said(a)
                      \/ LET e == mmap[p - mmap_base] IN
                         e.type # AVAILABLE /\ Whole(e) /\ Covers(e, a)
  <1> DEFINE says(k) == mmap[k].type # AVAILABLE /\ Whole(mmap[k]) /\ Covers(mmap[k], a)
  <1>1. mmap' = mmap /\ mmap_base' = mmap_base
    BY DEF map
  <1>2. PICK n \in Nat : map_end = mmap_base + n
    BY DEF MapShape
  <1>3. mmap_base \in Nat /\ p \in Nat /\ mmap_base <= p
    BY <1>2 DEF MapShape
  <1>4. 0 .. p + 1 - mmap_base - 1 = (0 .. p - mmap_base - 1) \cup {p - mmap_base}
    BY <1>3
  <1>5. Said(a)' <=> \E k \in 0 .. p + 1 - mmap_base - 1 : says(k)
    <2>1. Said(a)' <=> \E k \in 0 .. p' - mmap_base' - 1 :
            mmap'[k].type # AVAILABLE /\ Whole(mmap'[k]) /\ Covers(mmap'[k], a)
      BY DEF Said, Whole, Covers
    <2>2. p' - mmap_base' - 1 = p + 1 - mmap_base - 1
      BY <1>1, <1>3
    <2> QED
      BY <1>1, <2>1, <2>2
  <1>6. Said(a) <=> \E k \in 0 .. p - mmap_base - 1 : says(k)
    BY DEF Said
  <1> QED
    BY <1>4, <1>5, <1>6

(* If the map is kept, an entry is read as the loader made it.             *)
LEMMA ReadKept ==
  ASSUME MapShape, MapKept, p < map_end
  PROVE  Read(p) = {mmap[p - mmap_base]}
  <1>1. p \in mmap_base .. map_end - 1
    BY DEF MapShape
  <1> QED
    BY <1>1 DEF MapKept, Read

(* What is read is an entry, whatever has become of the map.               *)
LEMMA ReadType ==
  ASSUME mmap[p - mmap_base] \in Entries
  PROVE  Read(p) \subseteq Entries
  BY DEF Read

(* The invariant is kept by the marking of an entry.                       *)
LEMMA MarkInv == MemInv /\ Mark => MemInv'
  <1> SUFFICES ASSUME MemInv, Mark PROVE MemInv'
    OBVIOUS
  <1>1. PICK e \in Read(p) : ToMark(e) /\ marks' = marks \cup {MarkOf(e)}
    BY DEF Mark, MarkOf
  <1>2. /\ MapShape' /\ p' = p + 1
        /\ p - mmap_base \in DOMAIN mmap /\ mmap[p - mmap_base] \in Entries
    BY AdvanceOne DEF MemInv, Mark
  <1>3. e \in Entries
    BY <1>1, <1>2, ReadType
  <1>4. best_start \in Nat /\ best_size \in Nat
    BY DEF MemInv, BestUsable
  <1>5. UNCHANGED <<map, pc, best>> /\ pc = "mark"
    BY DEF Mark
  <1>6. alloc_start' = alloc_start /\ alloc_end' = alloc_end
    BY <1>5 DEF best, alloc_start, alloc_end
  <1>7. BestUsable'
    BY <1>5 DEF MemInv, BestUsable, best, map, Map, Usable
  <1>8. Phases'
    <2>1. /\ MarkOf(e) \in [ptr : Nat, len : Nat] /\ alloc_start <= MarkOf(e).ptr
          /\ MarkOf(e).ptr + MarkOf(e).len <= alloc_end
      BY <1>1, <1>3, <1>4, ClipExact
    <2> QED
      BY <1>1, <1>5, <1>6, <2>1 DEF MemInv, Phases, Chosen, best
  <1>9. MarkedSoFar'
    <2> SUFFICES ASSUME MapKept', NEW a \in alloc_start .. alloc_end - 1
                 PROVE  Marked(a)' <=> Said(a)'
      BY <1>6 DEF MarkedSoFar
    <2>1. MapKept
      BY <1>5, <1>6 DEF MapKept, TablePage, map, map_end
    <2>2. e = mmap[p - mmap_base]
      BY <1>1, <2>1, ReadKept DEF MemInv, Mark
    <2>3. Marked(a) <=> Said(a)
      BY <1>5, <2>1 DEF MemInv, MarkedSoFar, Chosen
    <2>4. Marked(a)' <=> Marked(a) \/ (MarkOf(e).ptr <= a /\ a < MarkOf(e).ptr + MarkOf(e).len)
      BY <1>1 DEF Marked
    <2>5. Said(a)' <=> Said(a) \/ (e.type # AVAILABLE /\ Whole(e) /\ Covers(e, a))
      BY <1>2, <1>5, <2>2, SaidOneMore DEF MemInv, Mark
    <2>6. e.type # AVAILABLE /\ Whole(e) /\ Covers(e, a)
          <=> MarkOf(e).ptr <= a /\ a < MarkOf(e).ptr + MarkOf(e).len
      BY <1>1, <1>3, <1>4, ClipExact
    <2> QED
      BY <2>3, <2>4, <2>5, <2>6
  <1> QED
    BY <1>2, <1>7, <1>8, <1>9 DEF MemInv

(* The invariant is kept when nothing of an entry is to be marked.         *)
LEMMA SkipInv == MemInv /\ Skip => MemInv'
  <1> SUFFICES ASSUME MemInv, Skip PROVE MemInv'
    OBVIOUS
  <1>1. PICK e \in Read(p) : ~ ToMark(e)
    BY DEF Skip
  <1>2. /\ MapShape' /\ p' = p + 1
        /\ p - mmap_base \in DOMAIN mmap /\ mmap[p - mmap_base] \in Entries
    BY AdvanceOne DEF MemInv, Skip
  <1>3. e \in Entries
    BY <1>1, <1>2, ReadType
  <1>4. best_start \in Nat /\ best_size \in Nat
    BY DEF MemInv, BestUsable
  <1>5. UNCHANGED <<map, pc, best, marks>> /\ pc = "mark"
    BY DEF Skip
  <1>6. alloc_start' = alloc_start /\ alloc_end' = alloc_end
    BY <1>5 DEF best, alloc_start, alloc_end
  <1>7. BestUsable'
    BY <1>5 DEF MemInv, BestUsable, best, map, Map, Usable
  <1>8. Phases'
    BY <1>5, <1>6 DEF MemInv, Phases, Chosen, best
  <1>9. MarkedSoFar'
    <2> SUFFICES ASSUME MapKept', NEW a \in alloc_start .. alloc_end - 1
                 PROVE  Marked(a)' <=> Said(a)'
      BY <1>6 DEF MarkedSoFar
    <2>1. MapKept
      BY <1>5, <1>6 DEF MapKept, TablePage, map, map_end
    <2>2. e = mmap[p - mmap_base]
      BY <1>1, <2>1, ReadKept DEF MemInv, Skip
    <2>3. Marked(a) <=> Said(a)
      BY <1>5, <2>1 DEF MemInv, MarkedSoFar, Chosen
    <2>4. Marked(a)' <=> Marked(a)
      BY <1>5 DEF Marked
    <2>5. Said(a)' <=> Said(a) \/ (e.type # AVAILABLE /\ Whole(e) /\ Covers(e, a))
      BY <1>2, <1>5, <2>2, SaidOneMore DEF MemInv, Skip
    <2>6. ~ (e.type # AVAILABLE /\ Whole(e) /\ Covers(e, a))
      BY <1>1, <1>3, <1>4, ClipExact
    <2> QED
      BY <2>3, <2>4, <2>5, <2>6
  <1> QED
    BY <1>2, <1>7, <1>8, <1>9 DEF MemInv

(* The invariant is kept at the end of the map.                            *)
LEMMA DoneInv == MemInv /\ Done => MemInv'
  <1> SUFFICES ASSUME MemInv, Done PROVE MemInv'
    OBVIOUS
  <1>1. MapShape'
    BY DEF MemInv, Done, MapShape, map, map_end
  <1>2. BestUsable'
    BY DEF MemInv, Done, BestUsable, best, map, Map, Usable
  <1>3. p' = map_end'
    <2>1. p \in mmap_base .. map_end /\ p >= map_end /\ mmap_base \in Nat
      BY DEF MemInv, Done, MapShape
    <2>2. \E n \in Nat : map_end = mmap_base + n
      BY DEF MemInv, MapShape
    <2> QED
      BY <2>1, <2>2 DEF Done, map, map_end
  <1>4. Phases'
    BY <1>3 DEF MemInv, Done, Phases, Chosen, best, alloc_start, alloc_end
  <1>5. MarkedSoFar'
    BY DEF MemInv, Done, MarkedSoFar, Chosen, best, map, MapKept, TablePage, map_end,
           alloc_start, alloc_end, Marked, Said, Whole, Covers
  <1> QED
    BY <1>1, <1>2, <1>4, <1>5 DEF MemInv

(* Every step keeps the invariant.                                         *)
LEMMA NextInv == MemInv /\ [Next]_vars => MemInv'
  <1> SUFFICES ASSUME MemInv, [Next]_vars PROVE MemInv'
    OBVIOUS
  <1>1. CASE Prefer
    BY <1>1, PreferInv
  <1>2. CASE PassOver
    BY <1>2, PassOverInv
  <1>3. CASE Panic
    BY <1>3, PanicInv
  <1>4. CASE StartAllocator
    BY <1>4, StartInv
  <1>5. CASE Mark
    BY <1>5, MarkInv
  <1>6. CASE Skip
    BY <1>6, SkipInv
  <1>7. CASE Done
    BY <1>7, DoneInv
  <1>8. CASE UNCHANGED vars
    BY <1>8 DEF vars, map, best, MemInv, MapShape, BestUsable, Phases, MarkedSoFar, map_end,
                Map, Usable, Chosen, MapKept, TablePage, alloc_start, alloc_end, Marked,
                Said, Whole, Covers
  <1> QED
    BY <1>1, <1>2, <1>3, <1>4, <1>5, <1>6, <1>7, <1>8 DEF Next

-----------------------------------------------------------------------------
(* The invariant gives the properties.                                     *)
LEMMA InvUsable == MemInv => RegionUsable
  <1> SUFFICES ASSUME MemInv, Chosen PROVE RegionUsable
    BY DEF RegionUsable
  <1>1. PICK e \in Map : Usable(e, best_start, best_size)
    BY DEF MemInv, Phases, BestUsable
  <1> QED
    BY <1>1 DEF MemInv, BestUsable, RegionUsable, Usable, alloc_start, alloc_end

(* At the end of the map, everything it says has been marked.              *)
LEMMA InvMarks == MemInv => MarksExact
  <1> SUFFICES ASSUME MemInv, pc = "done", MapKept PROVE MarksExact
    BY DEF MarksExact
  <1>1. PICK n \in Nat : DOMAIN mmap = 0 .. n - 1 /\ map_end = mmap_base + n
    BY DEF MemInv, MapShape
  <1>2. mmap_base \in Nat /\ p = mmap_base + n
    BY <1>1 DEF MemInv, MapShape, Phases
  <1>3. p - mmap_base - 1 = n - 1
    BY <1>2
  <1>4. \A a : Said(a) <=> Unavailable(a)
    BY <1>1, <1>3 DEF Said, Unavailable, Map
  <1> QED
    BY <1>4 DEF MemInv, MarkedSoFar, Phases, MarksExact, Chosen

(* The variables keep their types.                                         *)
LEMMA InvType == MemInv => TypeOK
  <1> SUFFICES ASSUME MemInv PROVE TypeOK
    OBVIOUS
  <1>1. /\ best_start \in Nat /\ best_size \in Nat /\ alloc_end \in Nat /\ alloc_end < Word
        /\ Word \in Nat
    BY MapAssumption DEF MemInv, BestUsable, alloc_end
  <1>2. best_start \in Uint32 /\ best_size \in Uint32 /\ alloc_end \in Uint32
    BY <1>1 DEF Uint32, MemInv, BestUsable
  <1>3. ASSUME NEW m \in marks PROVE m \in [ptr : Uint32, len : Uint32]
    <2>1. m \in [ptr : Nat, len : Nat] /\ m.ptr + m.len <= alloc_end
      BY DEF MemInv, Phases
    <2>2. m.ptr \in Uint32 /\ m.len \in Uint32
      BY <1>1, <2>1 DEF Uint32
    <2> QED
      BY <2>1, <2>2
  <1> QED
    BY <1>2, <1>3 DEF MemInv, MapShape, Phases, TypeOK

(* Every variable keeps its C type: no end of an entry is left outside 32  *)
(* bits, and no address wraps in the passes, for every memory map.         *)
THEOREM Typing == Spec => []TypeOK
  <1> QED
    BY InitInv, NextInv, InvType, PTL DEF Spec

(* The region the allocator gets is made of whole pages of one available   *)
(* entry, above the kernel and below 4 GiB, for every memory map.          *)
THEOREM Region == Spec => []RegionUsable
  <1> QED
    BY InitInv, NextInv, InvUsable, PTL DEF Spec

(* What kmarkunusable is told is exactly what the entries that end below   *)
(* 2^32 say is not available in the region, for every memory map that is   *)
(* not overwritten.  Entries that reach 2^32 are not marked at all.        *)
THEOREM Marking == Spec => []MarksExact
  <1> QED
    BY InitInv, NextInv, InvMarks, PTL DEF Spec

-----------------------------------------------------------------------------
(* The largest region.                                                     *)

(* No whole pages of an entry above the kernel are more than size.         *)
Within(e, size) ==
  e.type = AVAILABLE /\ Whole(e) =>
    \A s, t \in {a \in kernel_end .. Word : a % PageSize = 0} :
      e.base_addr <= s /\ s < t /\ t <= e.base_addr + e.length => t - s <= size

(* The entries read in the first pass have no more than the best.          *)
BestLargest ==
  /\ best_start = 0 => best_size = 0
  /\ pc = "panic" => best_start = 0 \/ best_size = 0
  /\ \A k \in DOMAIN mmap :
       (pc = "choose" => k < p - mmap_base) => Within(mmap[k], best_size)

(* An entry is within any size that is no less than what it offers.        *)
LEMMA OfferWithin ==
  ASSUME NEW e \in Entries, NEW size \in Nat, Size(Offer(e)) <= size
  PROVE  Within(e, size)
  <1> SUFFICES ASSUME e.type = AVAILABLE, Whole(e),
                      NEW s \in kernel_end .. Word, NEW t \in kernel_end .. Word,
                      s % PageSize = 0, t % PageSize = 0,
                      e.base_addr <= s, s < t, t <= e.base_addr + e.length
               PROVE  t - s <= size
    BY DEF Within
  <1>1. s \in Nat /\ t \in Nat /\ kernel_end <= s
    BY MapAssumption
  <1>2. t - s <= Size(Offer(e))
    BY <1>1, OfferAll
  <1>3. Size(Offer(e)) \in Int
    BY OfferUsable DEF Size
  <1> QED
    BY <1>1, <1>2, <1>3

(* What is within a size is within a larger one.                           *)
LEMMA WithinMore ==
  ASSUME NEW e \in Entries, NEW size \in Nat, NEW more \in Nat, size <= more, Within(e, size)
  PROVE  Within(e, more)
  <1> SUFFICES ASSUME e.type = AVAILABLE, Whole(e),
                      NEW s \in kernel_end .. Word, NEW t \in kernel_end .. Word,
                      s % PageSize = 0, t % PageSize = 0,
                      e.base_addr <= s, s < t, t <= e.base_addr + e.length
               PROVE  t - s <= more
    BY DEF Within
  <1>1. t - s <= size
    BY DEF Within
  <1> QED
    BY <1>1, MapAssumption

(* A step of the first pass reads one more entry.                          *)
LEMMA OneMoreWithin ==
  ASSUME MemInv, BestLargest, pc = "choose", p < map_end, Advance, UNCHANGED map,
         best_size' \in Nat, best_size <= best_size',
         Size(Offer(mmap[p - mmap_base])) <= best_size'
  PROVE  \A k \in DOMAIN mmap' : k < p' - mmap_base' => Within(mmap'[k], best_size')
  <1>1. /\ p' = p + 1 /\ p - mmap_base \in DOMAIN mmap
        /\ mmap[p - mmap_base] \in Entries
    BY AdvanceOne DEF MemInv
  <1>2. PICK n \in Nat : mmap \in [0 .. n - 1 -> Entries] /\ DOMAIN mmap = 0 .. n - 1
    BY DEF MemInv, MapShape
  <1>3. mmap' = mmap /\ mmap_base' = mmap_base
    BY DEF map
  <1>4. /\ p \in Int /\ mmap_base \in Int /\ best_size \in Nat
        /\ p' - mmap_base' = p + 1 - mmap_base
    BY <1>1, <1>3 DEF MemInv, MapShape, BestUsable
  <1>5. SUFFICES ASSUME NEW k \in 0 .. n - 1, k < p + 1 - mmap_base
                 PROVE  Within(mmap[k], best_size')
    BY <1>2, <1>3, <1>4
  <1>6. mmap[k] \in Entries
    BY <1>2
  <1>7. CASE k = p - mmap_base
    BY <1>6, <1>7, OfferWithin
  <1>8. CASE k < p - mmap_base
    <2>1. Within(mmap[k], best_size)
      BY <1>2, <1>8 DEF BestLargest
    <2> QED
      BY <1>4, <1>6, <2>1, WithinMore
  <1> QED
    BY <1>4, <1>5, <1>7, <1>8

(* The first state satisfies it.                                           *)
LEMMA InitLargest == Init => BestLargest
  <1> SUFFICES ASSUME Init PROVE BestLargest
    OBVIOUS
  <1>1. PICK n \in 0 .. MaxEntries : mmap \in [0 .. n - 1 -> Entries]
    BY DEF Init
  <1>2. p - mmap_base = 0
    BY MapAssumption DEF Init
  <1>3. \A k \in DOMAIN mmap : ~ (k < p - mmap_base)
    BY <1>1, <1>2
  <1> QED
    BY <1>3 DEF BestLargest, Init

(* Every step keeps it, if no entry starts in the last page.               *)
LEMMA NextLargest ==
  ASSUME NoLastPage, MemInv, MemInv', BestLargest, [Next]_vars
  PROVE  BestLargest'
  <1> DEFINE e == mmap[p - mmap_base]
  <1>1. best_size \in Nat /\ best_size' \in Nat
    BY DEF MemInv, BestUsable
  <1>2. CASE Prefer
    <2>1. e \in Entries
      BY <1>2, AdvanceOne DEF MemInv, Prefer
    <2>2. /\ best_start' = Offer(e).start /\ best_size' = Size(Offer(e))
          /\ Size(Offer(e)) > best_size /\ pc = "choose" /\ pc' = "choose"
      BY <1>2 DEF Prefer, Larger
    <2>3. best_start' # 0
      BY <1>1, <2>1, <2>2, OfferNotNull
    <2>4. \A k \in DOMAIN mmap' : k < p' - mmap_base' => Within(mmap'[k], best_size')
      BY <1>1, <1>2, <2>2, OneMoreWithin DEF Prefer
    <2> QED
      BY <2>2, <2>3, <2>4 DEF BestLargest
  <1>3. CASE PassOver
    <2>1. e \in Entries
      BY <1>3, AdvanceOne DEF MemInv, PassOver
    <2>2. Size(Offer(e)) \in Int
      BY <2>1, OfferUsable DEF Size
    <2>3. /\ best_start' = best_start /\ best_size' = best_size
          /\ Size(Offer(e)) <= best_size /\ pc = "choose" /\ pc' = "choose"
      BY <1>1, <1>3, <2>2 DEF PassOver, Larger, best
    <2>4. \A k \in DOMAIN mmap' : k < p' - mmap_base' => Within(mmap'[k], best_size')
      BY <1>1, <1>3, <2>3, OneMoreWithin DEF PassOver
    <2> QED
      BY <2>3, <2>4 DEF BestLargest
  <1>4. CASE Panic \/ StartAllocator
    <2>1. PICK n \in Nat : DOMAIN mmap = 0 .. n - 1 /\ map_end = mmap_base + n
      BY DEF MemInv, MapShape
    <2>2. p >= map_end /\ p \in Int /\ mmap_base \in Int
      BY <1>4, <2>1 DEF Panic, StartAllocator, MemInv, MapShape
    <2>3. \A k \in DOMAIN mmap : k < p - mmap_base
      BY <2>1, <2>2
    <2>4. mmap' = mmap /\ best_start' = best_start /\ best_size' = best_size
      BY <1>4 DEF Panic, StartAllocator, map, best
    <2>5. pc' = "panic" => best_start = 0 \/ best_size = 0
      BY <1>4 DEF Panic, StartAllocator
    <2> QED
      BY <2>3, <2>4, <2>5 DEF BestLargest
  <1>5. CASE Mark \/ Skip \/ Done \/ UNCHANGED vars
    <2>1. /\ mmap' = mmap /\ mmap_base' = mmap_base
          /\ best_start' = best_start /\ best_size' = best_size
      BY <1>5 DEF Mark, Skip, Done, vars, map, best
    <2>2. \/ pc' \notin {"choose", "panic"} /\ pc = "mark"
          \/ pc' = pc /\ p' = p
      BY <1>5 DEF Mark, Skip, Done, vars
    <2> QED
      BY <2>1, <2>2 DEF BestLargest
  <1> QED
    BY <1>2, <1>3, <1>4, <1>5 DEF Next

(* After the first pass it is what the property says.                      *)
LEMMA InvLargest == MemInv /\ BestLargest => RegionLargest
  <1> SUFFICES ASSUME MemInv, BestLargest, pc # "choose",
                      NEW e \in Map, e.type = AVAILABLE, Whole(e),
                      NEW s \in {a \in kernel_end .. Word : a % PageSize = 0},
                      NEW t \in {a \in kernel_end .. Word : a % PageSize = 0},
                      e.base_addr <= s, s < t, t <= e.base_addr + e.length
               PROVE  Chosen /\ t - s <= best_size
    BY DEF RegionLargest
  <1>1. Within(e, best_size)
    BY DEF BestLargest, Map
  <1>2. t - s <= best_size
    BY <1>1 DEF Within
  <1>3. s \in Nat /\ t \in Nat /\ best_size \in Nat
    BY MapAssumption DEF MemInv, BestUsable
  <1>4. best_size # 0
    BY <1>2, <1>3
  <1>5. pc # "panic"
    BY <1>4 DEF BestLargest
  <1> QED
    BY <1>2, <1>5 DEF MemInv, Phases, Chosen

(* The region is the largest one any entry that ends below 2^32 offers, and*)
(* the kernel panics only if none of these offers a page, for every memory *)
(* map none of whose entries starts in the last page.  An available entry  *)
(* that reaches 2^32 is passed over, whatever it offers.                   *)
THEOREM Largest ==
  ASSUME NoLastPage
  PROVE  Spec => []RegionLargest
  <1>1. Init => MemInv /\ BestLargest
    BY InitInv, InitLargest
  <1>2. MemInv /\ BestLargest /\ [Next]_vars => (MemInv /\ BestLargest)'
    BY NextInv, NextLargest
  <1> QED
    BY <1>1, <1>2, InvLargest, PTL DEF Spec

=============================================================================
