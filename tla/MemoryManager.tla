---------------------------- MODULE MemoryManager ----------------------------
(***************************************************************************)
(* init_memory_manager, mm/mem.c: one pass over the boot loader's memory   *)
(* map chooses the region the allocator gets, a second one, after          *)
(* init_kallocator, reports to kmarkunusable what is not available in it.  *)
(* The map is read from memory both times, where the boot loader left it.  *)
(*                                                                         *)
(* Entries have 64-bit bases and lengths, addresses have 32 bits.  One     *)
(* memory_map_t occupies one unit of memory.                               *)
(***************************************************************************)
EXTENDS Integers, FiniteSets

CONSTANTS
  Word,                (* 2^32                                             *)
  PageSize,            (* 0x1000 in floor_page and ceil_page               *)
  kernel_end,          (* first address after the kernel image             *)
  Entries,             (* memory_map_t: [base_addr, length, type]          *)
  MaxEntries,          (* bound on the length of the map                   *)
  Places               (* addresses the loader may leave the map at        *)

AVAILABLE == 1
Uint32    == 0 .. Word - 1

ASSUME MapAssumption ==
  /\ PageSize \in Nat \ {0} /\ Word \in Nat /\ kernel_end \in Nat /\ MaxEntries \in Nat
  /\ PageSize <= kernel_end /\ kernel_end < Word /\ Word % PageSize = 0
  /\ Entries \subseteq [base_addr : Nat, length : Nat, type : Nat]
  /\ Places \subseteq Nat /\ \A a \in Places : a + MaxEntries < Word

VARIABLES
  mmap, mmap_base,     (* the map the loader made, and where it is         *)
  pc, p,               (* the pass and the address of the current entry    *)
  best_start, best_size,
  marks                (* the extents given to kmarkunusable               *)

map  == <<mmap, mmap_base>>
best == <<best_start, best_size>>
vars == <<map, pc, p, best, marks>>

map_end     == mmap_base + Cardinality(DOMAIN mmap)
alloc_start == best_start
alloc_end   == best_start + best_size

(* An address in the last page has no page boundary above it below 2^32:   *)
(* ceil_page wraps around to 0.                                            *)
floor_page(addr)   == addr - (addr % PageSize)
ceil_unrounded(addr) == addr                                   \* mutant
ceil_page(addr)    == floor_page((addr + (PageSize - 1)) % Word)

-----------------------------------------------------------------------------
(* [start, end) of an entry in 32 bits: the end is clipped to 2^32 and then*)
(* truncated, which makes it 0.                                            *)
Low(e)   == e.base_addr < Word
EndUncut(e) == IF e.base_addr + e.length > Word THEN Word      \* mutant
               ELSE e.base_addr + e.length
End(e)   == LET end64 == e.base_addr + e.length IN
            (IF end64 > Word THEN Word ELSE end64) % Word
Empty    == [start |-> 0, end |-> 0]
Extent(e) == [start |-> e.base_addr, end |-> End(e)]

(* What an entry offers above the kernel.                                  *)
WithKernel(e) == Extent(e)                                     \* mutant
AboveKernel(e) ==
  LET x == Extent(e) IN
  IF x.start < kernel_end /\ x.end > kernel_end
  THEN IF e.length > kernel_end - x.start
       THEN [start |-> kernel_end, end |-> (e.base_addr + e.length) % Word]
       ELSE Empty
  ELSE IF x.end <= kernel_end THEN Empty ELSE x

(* The whole pages of it.                                                  *)
Offer(e) ==
  LET x == AboveKernel(e)
      r == [start |-> ceil_page(x.start), end |-> floor_page(x.end)]
  IN IF e.type = AVAILABLE /\ e.length > 0 /\ Low(e) /\ x.start < x.end /\ r.end > r.start
     THEN r ELSE Empty
Size(x) == x.end - x.start

(* The next entry, or the end of the pass if the address wraps around.     *)
Advance == LET next_p == (p + 1) % Word IN
           p' = IF next_p <= p THEN map_end ELSE next_p

LargerOrLast(x) == Size(x) > 0                                 \* mutant
Larger(x)       == Size(x) > best_size

Prefer ==
  /\ pc = "choose" /\ p < map_end
  /\ LET x == Offer(mmap[p - mmap_base]) IN
       /\ Larger(x)
       /\ best_start' = x.start /\ best_size' = Size(x)
  /\ Advance
  /\ UNCHANGED <<map, pc, marks>>

PassOver ==
  /\ pc = "choose" /\ p < map_end
  /\ ~ Larger(Offer(mmap[p - mmap_base]))
  /\ Advance
  /\ UNCHANGED <<map, pc, best, marks>>

Panic ==
  /\ pc = "choose" /\ p >= map_end
  /\ best_start = 0 \/ best_size = 0
  /\ pc' = "panic"
  /\ UNCHANGED <<map, p, best, marks>>

(* init_kallocator writes its first struct at alloc_start.                 *)
StartAllocator ==
  /\ pc = "choose" /\ p >= map_end
  /\ best_start # 0 /\ best_size # 0
  /\ pc' = "mark" /\ p' = mmap_base
  /\ UNCHANGED <<map, best, marks>>

-----------------------------------------------------------------------------
(* The page of structs is the allocator's own now: an entry of the map that*)
(* lies in it may have been written over and reads as anything.            *)
TablePage == alloc_start .. alloc_start + PageSize - 1
Read(a)   == IF a \in TablePage THEN Entries ELSE {mmap[a - mmap_base]}

ClipNone(e) == Extent(e)                                       \* mutant
Clip(e) ==
  LET x == Extent(e) IN
  [start |-> IF x.start < alloc_start THEN alloc_start ELSE x.start,
   end   |-> IF x.end > alloc_end THEN alloc_end ELSE x.end]

ToMark(e) ==
  /\ e.length > 0 /\ Low(e) /\ End(e) > e.base_addr
  /\ Clip(e).end > Clip(e).start
  /\ e.type # AVAILABLE

Mark ==
  /\ pc = "mark" /\ p < map_end
  /\ \E e \in Read(p) :
       /\ ToMark(e)
       /\ marks' = marks \cup {[ptr |-> Clip(e).start, len |-> Size(Clip(e))]}
  /\ Advance
  /\ UNCHANGED <<map, pc, best>>

Skip ==
  /\ pc = "mark" /\ p < map_end
  /\ \E e \in Read(p) : ~ ToMark(e)
  /\ Advance
  /\ UNCHANGED <<map, pc, best, marks>>

Done ==
  /\ pc = "mark" /\ p >= map_end
  /\ pc' = "done"
  /\ UNCHANGED <<map, p, best, marks>>

-----------------------------------------------------------------------------
Init ==
  /\ mmap_base \in Places
  /\ \E n \in 0 .. MaxEntries : mmap \in [0 .. n - 1 -> Entries]
  /\ pc = "choose" /\ p = mmap_base
  /\ best_start = 0 /\ best_size = 0 /\ marks = {}

Next == Prefer \/ PassOver \/ Panic \/ StartAllocator \/ Mark \/ Skip \/ Done

Spec == Init /\ [][Next]_vars

-----------------------------------------------------------------------------
(* Locals keep their C types.                                              *)
TypeOK ==
  /\ pc \in {"choose", "panic", "mark", "done"} /\ p \in mmap_base .. map_end
  /\ best_start \in Uint32 /\ best_size \in Uint32
  /\ alloc_end \in Uint32
  /\ marks \subseteq [ptr : Uint32, len : Uint32]

Chosen  == pc \in {"mark", "done"}
Covers(e, a) == e.base_addr <= a /\ a < e.base_addr + e.length
Map     == {mmap[k] : k \in DOMAIN mmap}

(* The allocator gets whole pages of one available entry, above the kernel *)
(* and below 4 GiB: what Kalloc assumes of its region, and memory that is  *)
(* there, however entries overlap the kernel or reach past 2^32.           *)
RegionUsable ==
  Chosen =>
    /\ alloc_start % PageSize = 0 /\ kernel_end <= alloc_start
    /\ PageSize <= best_size /\ alloc_end < Word
    /\ \E e \in Map : /\ e.type = AVAILABLE /\ e.base_addr <= alloc_start
                       /\ alloc_end <= e.base_addr + e.length

(* Entries whose end is below 2^32, so that it is not truncated.           *)
Whole(e) == e.base_addr + e.length < Word

(* The region is the largest one any entry that ends below 2^32 offers, and*)
(* the kernel panics only if none of these offers a page.                  *)
RegionLargest ==
  pc # "choose" => \A e \in Map : e.type = AVAILABLE /\ Whole(e) =>
    \A s, t \in {a \in kernel_end .. Word : a % PageSize = 0} :
      e.base_addr <= s /\ s < t /\ t <= e.base_addr + e.length =>
        Chosen /\ t - s <= best_size

(* Whether the map lies outside the page the allocator writes to between   *)
(* the two passes.                                                         *)
MapKept == \A a \in mmap_base .. map_end - 1 : a \notin TablePage

Marked(a)     == \E m \in marks : m.ptr <= a /\ a < m.ptr + m.len
Unavailable(a) == \E e \in Map : e.type # AVAILABLE /\ Whole(e) /\ Covers(e, a)

(* What kmarkunusable is told is exactly what the entries that end below   *)
(* 2^32 say, inside the region, if the map is read twice the same.         *)
MarksExact ==
  pc = "done" /\ MapKept =>
    /\ \A a \in alloc_start .. alloc_end - 1 : Marked(a) <=> Unavailable(a)
    /\ \A m \in marks : alloc_start <= m.ptr /\ m.ptr + m.len <= alloc_end

(* The memory map is respected where the entries end: what any of them says*)
(* is not available is marked, if the map is read twice the same.          *)
TopRespected ==
  pc = "done" /\ MapKept =>
    \A e \in Map, a \in alloc_start .. alloc_end - 1 :
      e.type # AVAILABLE /\ Covers(e, a) => Marked(a)

(* The memory map is respected wherever the loader put it.                 *)
MapRespected ==
  pc = "done" => \A a \in alloc_start .. alloc_end - 1 :
    Unavailable(a) => Marked(a)

=============================================================================
