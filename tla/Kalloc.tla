------------------------------- MODULE Kalloc -------------------------------
(***************************************************************************)
(* The physical memory allocator of the kernel, mm/kalloc.c: one linked    *)
(* list of struct memory_block, in address order, that tiles the region    *)
(* given to init_kallocator.  The structs live in that same memory, in a   *)
(* page the allocator claims for itself, so the model keeps them in a map  *)
(* from addresses to structs and lets the zeroing loop of ksmalloc erase   *)
(* the ones it runs over.                                                  *)
(*                                                                         *)
(* An action is one iteration of a loop of the code, or one call or return.*)
(* The calls in progress are frames on the kernel's single stack: only the *)
(* top frame runs.  A second frame is pushed when mkblock calls kmalloc    *)
(* for a page of structs, and when an interrupt handler allocates (the     *)
(* keyboard handler prints, and printing may need a console entry).        *)
(*                                                                         *)
(* Addresses and sizes are counted in units of sizeof(struct memory_block).*)
(***************************************************************************)
EXTENDS Integers, FiniteSets, FiniteSetsExt

CONSTANTS
  MemStart,            (* first address of the region, page aligned        *)
  Total,               (* its size                                         *)
  PageSize,            (* the 4096 of init_kallocator and mkblock          *)
  MEMBLOCKS_PER_PAGE,  (* structs taken from a page before the next one    *)
  Word,                (* 2^32: uint32_t arithmetic is modulo Word         *)
  Sizes,               (* sizes clients ask for                            *)
  Aligns,              (* alignments they ask for; 0 is kmalloc            *)
  IsrSizes,            (* sizes an interrupt handler asks for              *)
  FreeDiscipline,      (* which of its allocations a client frees          *)
  Reserved,            (* non-available extents inside the region          *)
  MaxHeld              (* bound on the allocations held at a time          *)

Disciplines == {"never", "above_used", "any"}
Uint32      == 0 .. Word - 1
Ids         == 1 .. MaxHeld

(* The kernel image lies below the region; no request wraps around.        *)
ASSUME KallocAssumption ==
  /\ {MemStart, Total, PageSize, MEMBLOCKS_PER_PAGE, Word, MaxHeld} \subseteq Nat
  /\ 2 <= MEMBLOCKS_PER_PAGE /\ MEMBLOCKS_PER_PAGE < PageSize
  /\ PageSize <= Total /\ PageSize <= MemStart
  /\ MemStart + Total < Word
  /\ Sizes \cup IsrSizes \subseteq Nat \ {0} /\ Aligns \subseteq Nat
  /\ \A n \in Sizes \cup IsrSizes, a \in Aligns \cup {0} : n + a < Word
  /\ FreeDiscipline \in Disciplines
  /\ Reserved \subseteq [ptr : MemStart .. MemStart + Total, len : 1 .. Total]

VARIABLES
  node,                (* the structs, by address: [size, used, next]      *)
  allocator_map, free_blocks, next_memblock_addr, page_depletion,
  free_memory, claimed_memory, allocations,
  frame, depth,        (* the calls in progress, frame[depth] on top       *)
  held,                (* the extents clients hold, by request             *)
  unmarked,            (* reserved extents still to be marked at boot      *)
  pos,                 (* auxiliary: where each listed block starts        *)
  page                 (* auxiliary: the page structs are being taken from *)

ledger == <<free_memory, claimed_memory, allocations>>
bump   == <<next_memblock_addr, page_depletion, page>>
memory == <<node, allocator_map, free_blocks, bump, ledger, held, unmarked, pos>>
vars   == <<memory, frame, depth>>

NULL == 0
Off  == -1                                   (* pos of a struct not listed *)

ZeroBlock == [size |-> 0, used |-> 0, next |-> NULL]
NoExtent  == [ptr |-> NULL, len |-> 0, align |-> 0]

(* uint32_t + and - of operands in Uint32.                                 *)
MinusSigned(x, y) == x - y                                     \* mutant
Plus(x, y)  == IF x + y < Word THEN x + y ELSE x + y - Word
Minus(x, y) == IF y <= x THEN x - y ELSE x - y + Word

-----------------------------------------------------------------------------
(* Frames: the locals of ksmalloc, kmarkunusable or kfree and of the       *)
(* cut_block, mkblock or free_block they run.  `ret' says who gets the     *)
(* result, `id' which request of a client it is; `target' is lookfor in    *)
(* kfree and cut_from in kmarkunusable, where `nbytes' is nbytesremaining. *)

Levels == 1 .. 4

NoFrame == [pc |-> "idle", ret |-> "none", id |-> 0,
            nbytes |-> 0, align |-> 0, markas |-> 0, target |-> 0, cut_to |-> 0,
            crt_block |-> NULL, prev_block |-> NULL, last_free_block |-> NULL,
            block_start |-> 0, left |-> 0, keep |-> 0, right |-> 0,
            newblock |-> NULL, nextblk |-> NULL, result |-> NULL]

Request(ret, id, nbytes, align, markas) ==
  [NoFrame EXCEPT !.pc = "scan", !.ret = ret, !.id = id, !.nbytes = nbytes,
                  !.align = align, !.markas = markas,
                  !.crt_block = allocator_map]

Top   == frame[depth]
At(pc) == depth > 0 /\ Top.pc = pc
Crt   == node[Top.crt_block]

Push(f)     == depth' = depth + 1 /\ frame' = [frame EXCEPT ![depth + 1] = f]
Continue(f) == depth' = depth /\ frame' = [frame EXCEPT ![depth] = f]
Pop         == depth' = depth - 1 /\ frame' = [frame EXCEPT ![depth] = NoFrame]

(* block_start += size; prev = crt; crt = next: the end of each list walk. *)
Advance(pc) ==
  Continue([Top EXCEPT !.pc = pc, !.block_start = Plus(@, Crt.size),
                       !.prev_block = Top.crt_block, !.crt_block = Crt.next])

-----------------------------------------------------------------------------
(* init_kallocator: the first struct describes the whole region and is     *)
(* stored at its start, then the page it is in is claimed.                 *)

InitKallocator ==
  /\ allocator_map = NULL
  /\ allocator_map' = MemStart
  /\ next_memblock_addr' = MemStart + 1
  /\ page_depletion' = 1 /\ page' = MemStart
  /\ node' = [node EXCEPT ![MemStart] = [size |-> Total, used |-> 0, next |-> NULL]]
  /\ pos'  = [pos EXCEPT ![MemStart] = 0]
  /\ free_memory' = Total
  /\ Push([Request("init", 0, PageSize, 0, 3) EXCEPT !.crt_block = MemStart])
  /\ UNCHANGED <<free_blocks, claimed_memory, allocations, held, unmarked>>

-----------------------------------------------------------------------------
(* kmalloc, kamalloc and the loop of ksmalloc.                             *)

Vacant(i) == held[i].ptr = NULL /\ \A k \in Levels : frame[k].id # i

Call(ret, nbytes, align) ==
  /\ \E i \in Ids :
       /\ Vacant(i) /\ \A j \in 1 .. i - 1 : ~ Vacant(j)
       /\ Push(Request(ret, i, nbytes, align, 1))
  /\ UNCHANGED memory

Booted == allocator_map # NULL /\ unmarked = {}

Kamalloc(nbytes, align) ==
  Booted /\ depth = 0 /\ Call("client", nbytes, align)

(* The handler runs with interrupts off: one at a time, to completion.     *)
Interrupt(nbytes) ==
  /\ Booted /\ depth > 0 /\ frame[1].ret = "client"
  /\ \A k \in Levels : frame[k].ret # "isr"
  /\ Call("isr", nbytes, 0)

Occupied ==
  /\ At("scan") /\ Top.crt_block # NULL /\ Crt.used # 0
  /\ Continue([Top EXCEPT !.pc = "test", !.last_free_block = NULL])
  /\ UNCHANGED memory

FirstFree ==
  /\ At("scan") /\ Top.crt_block # NULL /\ Crt.used = 0
  /\ Top.last_free_block = NULL
  /\ Continue([Top EXCEPT !.pc = "test",
       !.last_free_block = IF Top.prev_block = NULL \/ node[Top.prev_block].used = 1
                           THEN Top.crt_block ELSE NULL])
  /\ UNCHANGED memory

(* The free block before absorbs this one; its struct goes to free_blocks. *)
(* prev_block stays, so it is the current block from here on.              *)
Housekeep ==
  LET last == Top.last_free_block IN
  /\ At("scan") /\ Top.crt_block # NULL /\ Crt.used = 0 /\ last # NULL
  /\ node' = [node EXCEPT ![last].next = Crt.next,
                          ![last].size = Plus(@, Crt.size),
                          ![Top.crt_block].next = free_blocks]
  /\ free_blocks' = Top.crt_block
  /\ pos' = [pos EXCEPT ![Top.crt_block] = Off]
  /\ Continue([Top EXCEPT !.pc = "test", !.crt_block = last,
                          !.block_start = Minus(@, Crt.size)])
  /\ UNCHANGED <<allocator_map, bump, ledger, held, unmarked>>

OffsetDown(align, start) ==                                    \* mutant
  IF align = 0 THEN 0 ELSE start % align
OffsetRequired(align, start) ==
  IF align = 0 \/ start % align = 0 THEN 0 ELSE align - (start % align)

FitsUnaligned(block, start, nbytes, align) ==                  \* mutant
  block.used = 0 /\ block.size >= nbytes
FitsLarger(block, start, nbytes, align) ==                     \* mutant
  block.used = 0 /\ block.size > Plus(nbytes, OffsetRequired(align, start))
Fits(block, start, nbytes, align) ==
  /\ block.used = 0
  /\ block.size >= Plus(nbytes, OffsetRequired(align, start))

PassOver ==
  /\ At("test") /\ ~ Fits(Crt, Top.block_start, Top.nbytes, Top.align)
  /\ Advance("scan")
  /\ UNCHANGED memory

(* The arguments of cut_block, and the pointer ksmalloc is going to return.*)
Choose ==
  LET offset == OffsetRequired(Top.align, Top.block_start) IN
  /\ At("test") /\ Fits(Crt, Top.block_start, Top.nbytes, Top.align)
  /\ Continue([Top EXCEPT !.pc = "cut", !.left = offset, !.keep = Top.nbytes,
                !.right = Minus(Minus(Crt.size, Top.nbytes), offset),
                !.result = Plus(Plus(MemStart, offset), Top.block_start)])
  /\ UNCHANGED memory

(* ksmalloc returns r: to mkblock, as the next page of structs; to a       *)
(* client, which then holds the extent unless r is 0.                      *)
Return(r) ==
  IF Top.ret = "mkblock"
  THEN /\ next_memblock_addr' = r /\ page' = r
       /\ depth' = depth - 1
       /\ frame' = [frame EXCEPT ![depth] = NoFrame, ![depth - 1].pc = "carve"]
       /\ UNCHANGED <<page_depletion, held>>
  ELSE /\ Pop
       /\ held' = IF Top.id = 0 \/ r = NULL THEN held
                  ELSE [held EXCEPT ![Top.id] =
                          [ptr |-> r, len |-> Top.nbytes, align |-> Top.align]]
       /\ UNCHANGED bump

OutOfMemory ==
  /\ At("scan") /\ Top.crt_block = NULL
  /\ Return(NULL)
  /\ UNCHANGED <<node, allocator_map, free_blocks, ledger, unmarked, pos>>

-----------------------------------------------------------------------------
(* cut_block and mkblock.  `left' and `right' are the free parts still to  *)
(* be given a struct, the right one first.                                 *)

PendingRight == Top.right # 0                                  \* mutant
Pending      == Top.left # 0 \/ Top.right # 0
TableByBytes == page_depletion = PageSize                      \* mutant
TableFull    == page_depletion = MEMBLOCKS_PER_PAGE
SameSpare    == free_blocks                                    \* mutant
NextSpare    == node[free_blocks].next

TakeFree ==
  /\ At("cut") /\ Pending /\ free_blocks # NULL
  /\ free_blocks' = NextSpare
  /\ Continue([Top EXCEPT !.pc = "insert", !.newblock = free_blocks])
  /\ UNCHANGED <<node, allocator_map, bump, ledger, held, unmarked, pos>>

Carve ==
  /\ \/ At("cut") /\ Pending /\ free_blocks = NULL /\ ~ TableFull
     \/ At("carve")
  /\ next_memblock_addr' = Plus(next_memblock_addr, 1)
  /\ page_depletion' = page_depletion + 1
  /\ Continue([Top EXCEPT !.pc = "insert", !.newblock = next_memblock_addr])
  /\ UNCHANGED <<node, allocator_map, free_blocks, page, ledger, held,
                 unmarked, pos>>

(* The table is full: mkblock asks kmalloc for another page of structs,    *)
(* while the block being cut is still free and of its old size.            *)
GrowLateReset ==                                               \* mutant
  /\ At("cut") /\ Pending /\ free_blocks = NULL /\ TableFull
  /\ Push(Request("mkblock", 0, PageSize, 0, 1))
  /\ UNCHANGED memory
Grow ==
  /\ At("cut") /\ Pending /\ free_blocks = NULL /\ TableFull
  /\ page_depletion' = 0
  /\ Push(Request("mkblock", 0, PageSize, 0, 1))
  /\ UNCHANGED <<node, allocator_map, free_blocks, next_memblock_addr, page,
                 ledger, held, unmarked, pos>>

InsertRight ==
  /\ At("insert") /\ Top.right # 0
  /\ node' = [node EXCEPT
       ![Top.newblock] = [size |-> Top.right, used |-> 0, next |-> Crt.next],
       ![Top.crt_block].next = Top.newblock]
  /\ pos' = [pos EXCEPT ![Top.newblock] =
               Plus(Plus(pos[Top.crt_block], Top.left), Top.keep)]
  /\ Continue([Top EXCEPT !.pc = "cut", !.right = 0])
  /\ UNCHANGED <<allocator_map, free_blocks, bump, ledger, held, unmarked>>

InsertLeft ==
  /\ At("insert") /\ Top.right = 0
  /\ node' = [node EXCEPT
       ![Top.newblock] = [size |-> Top.left, used |-> 0, next |-> Top.crt_block],
       ![Top.prev_block].next = Top.newblock]
  /\ pos' = [pos EXCEPT ![Top.newblock] = pos[Top.crt_block],
                        ![Top.crt_block] = Plus(pos[Top.crt_block], Top.left)]
  /\ Continue([Top EXCEPT !.pc = "cut", !.left = 0])
  /\ UNCHANGED <<allocator_map, free_blocks, bump, ledger, held, unmarked>>

(* The block gets its size and mark; a struct in the n zeroed bytes at a   *)
(* is erased with them.                                                    *)
ClosedSameSize ==                                              \* mutant
  [node EXCEPT ![Top.crt_block].used = Top.markas]
Closed == [node EXCEPT ![Top.crt_block].size = Top.keep,
                       ![Top.crt_block].used = Top.markas]

Erase(structs, a, n) ==
  [c \in Uint32 |-> IF Minus(c, a) < n THEN ZeroBlock ELSE structs[c]]

Claim ==
  /\ At("cut") /\ ~ Pending /\ Top.ret # "boot"
  /\ allocations' = Plus(allocations, 1)
  /\ free_memory' = Minus(free_memory, Top.nbytes)
  /\ claimed_memory' = Plus(claimed_memory, Top.nbytes)
  /\ node' = IF Top.markas = 1 THEN Erase(Closed, Top.result, Top.nbytes)
                               ELSE Closed
  /\ Return(Top.result)
  /\ UNCHANGED <<allocator_map, free_blocks, unmarked, pos>>

-----------------------------------------------------------------------------
(* kfree and free_block.  A client gives its extent up with the call.      *)

Kfree(ptr) ==
  /\ Booted /\ depth = 0
  /\ Push([Request("client", 0, 0, 0, 0) EXCEPT
             !.pc = "find", !.target = Minus(ptr, MemStart)])
  /\ UNCHANGED <<node, allocator_map, free_blocks, bump, ledger, unmarked, pos>>

(* Whether the block that ends where this extent starts is in use.         *)
AboveUsed(e) ==
  \A b \in Uint32 :
     pos[b] # Off /\ MemStart + pos[b] + node[b].size = e.ptr => node[b].used # 0

Free(i) ==
  /\ held[i].ptr # NULL
  /\ FreeDiscipline = "any" \/ (FreeDiscipline = "above_used" /\ AboveUsed(held[i]))
  /\ held' = [held EXCEPT ![i] = NoExtent]
  /\ Kfree(held[i].ptr)

FreeNull == FreeDiscipline # "never" /\ Kfree(NULL) /\ UNCHANGED held

Sought == Crt.used = 1 /\ Top.target = Top.block_start

FindNext ==
  /\ At("find") /\ Top.crt_block # NULL /\ ~ Sought
  /\ Advance("find")
  /\ UNCHANGED memory

FindMiss ==
  /\ At("find") /\ Top.crt_block = NULL
  /\ Pop
  /\ UNCHANGED memory

FreeFound ==
  /\ At("find") /\ Top.crt_block # NULL /\ Sought
  /\ free_memory' = Minus(free_memory, Crt.size)
  /\ claimed_memory' = Plus(claimed_memory, Crt.size)
  /\ node' = [node EXCEPT ![Top.crt_block].used = 0]
  /\ Continue([Top EXCEPT !.pc = "merge", !.nextblk = Crt.next])
  /\ UNCHANGED <<allocator_map, free_blocks, bump, allocations, held, unmarked,
                 pos>>

MergeEndsAtNull == Top.nextblk = NULL                          \* mutant
MergeEnds == Top.nextblk = NULL \/ node[Top.nextblk].used = 1

Merge ==
  /\ At("merge") /\ ~ MergeEnds
  /\ node' = [node EXCEPT ![Top.crt_block].size = Plus(@, node[Top.nextblk].size),
                          ![Top.nextblk].next = free_blocks]
  /\ free_blocks' = Top.nextblk
  /\ pos' = [pos EXCEPT ![Top.nextblk] = Off]
  /\ Continue([Top EXCEPT !.nextblk = node[Top.nextblk].next])
  /\ UNCHANGED <<allocator_map, bump, ledger, held, unmarked>>

FreeDone ==
  /\ At("merge") /\ MergeEnds
  /\ node' = [node EXCEPT ![Top.crt_block].next = Top.nextblk]
  /\ allocations' = Minus(allocations, 1)
  /\ Pop
  /\ UNCHANGED <<allocator_map, free_blocks, bump, free_memory, claimed_memory,
                 held, unmarked, pos>>

-----------------------------------------------------------------------------
(* kmarkunusable, called at boot for each non-available extent of the      *)
(* memory map.  cut_from is an address, block_start an offset: the code    *)
(* compares them as they are.                                              *)

Kmarkunusable(r) ==
  /\ allocator_map # NULL /\ depth = 0 /\ r \in unmarked
  /\ unmarked' = unmarked \ {r}
  /\ Push([Request("boot", 0, r.len, 0, 2) EXCEPT
             !.pc = "mark", !.target = r.ptr, !.cut_to = Plus(r.ptr, r.len)])
  /\ UNCHANGED <<node, allocator_map, free_blocks, bump, ledger, held, pos>>

BlockEnd == Plus(Top.block_start, Crt.size)

MarkSkip ==
  /\ At("mark") /\ Top.crt_block # NULL /\ BlockEnd < Top.target
  /\ Advance("mark")
  /\ UNCHANGED memory

MarkTaken ==
  /\ At("mark") /\ Top.crt_block # NULL /\ BlockEnd >= Top.target
  /\ Crt.used # 0
  /\ Continue([Top EXCEPT !.pc = "marked"])
  /\ UNCHANGED memory

OffsetL == IF Top.target <= Top.block_start
           THEN Minus(Top.target, Top.block_start) ELSE 0
OffsetR == IF Top.cut_to >= BlockEnd THEN BlockEnd
                                     ELSE Minus(BlockEnd, Top.cut_to)

MarkCut ==
  /\ At("mark") /\ Top.crt_block # NULL /\ BlockEnd >= Top.target
  /\ Crt.used = 0
  /\ Continue([Top EXCEPT !.pc = "cut", !.left = OffsetL, !.right = OffsetR,
                          !.keep = Minus(Minus(Crt.size, OffsetL), OffsetR)])
  /\ UNCHANGED memory

MarkClose ==
  /\ At("cut") /\ ~ Pending /\ Top.ret = "boot"
  /\ node' = Closed
  /\ Continue([Top EXCEPT !.pc = "marked"])
  /\ UNCHANGED <<allocator_map, free_blocks, bump, ledger, held, unmarked, pos>>

(* nbytesremaining is reduced by the size the block has after the cut.     *)
FirstOnly  == FALSE                                            \* mutant
MoreToMark == Top.nbytes > Crt.size

MarkNext ==
  /\ At("marked") /\ MoreToMark
  /\ Continue([Top EXCEPT !.pc = "mark", !.nbytes = @ - Crt.size,
                 !.block_start = Plus(@, Crt.size),
                 !.prev_block = Top.crt_block, !.crt_block = Crt.next])
  /\ UNCHANGED memory

MarkDone ==
  /\ \/ At("marked") /\ ~ MoreToMark
     \/ At("mark") /\ Top.crt_block = NULL
  /\ Pop
  /\ UNCHANGED memory

-----------------------------------------------------------------------------
Init ==
  /\ node = [a \in Uint32 |-> ZeroBlock] /\ pos = [a \in Uint32 |-> Off]
  /\ allocator_map = NULL /\ free_blocks = NULL
  /\ next_memblock_addr = NULL /\ page_depletion = 0 /\ page = NULL
  /\ free_memory = 0 /\ claimed_memory = 0 /\ allocations = 0
  /\ depth = 0 /\ frame = [k \in Levels |-> NoFrame]
  /\ held = [i \in Ids |-> NoExtent]
  /\ unmarked = Reserved

Search == Occupied \/ FirstFree \/ Housekeep \/ PassOver \/ Choose \/ OutOfMemory
Cut    == TakeFree \/ Carve \/ Grow \/ InsertRight \/ InsertLeft \/ Claim
FreeIt == FindNext \/ FindMiss \/ FreeFound \/ Merge \/ FreeDone
MarkIt == MarkSkip \/ MarkTaken \/ MarkCut \/ MarkClose \/ MarkNext \/ MarkDone
Run    == Search \/ Cut \/ FreeIt \/ MarkIt

Next ==
  \/ InitKallocator
  \/ \E r \in Reserved : Kmarkunusable(r)
  \/ \E n \in Sizes, a \in Aligns : Kamalloc(n, a)
  \/ \E n \in IsrSizes : Interrupt(n)
  \/ \E i \in Ids : Free(i)
  \/ FreeNull
  \/ Run

Spec     == Init /\ [][Next]_vars
FairSpec == Spec /\ WF_vars(Run)         (* the processor keeps executing  *)

-----------------------------------------------------------------------------
Frames == [pc : {"idle", "scan", "test", "cut", "carve", "insert", "find",
                 "merge", "mark", "marked"},
           ret : {"none", "init", "boot", "client", "isr", "mkblock"},
           id : 0 .. MaxHeld,
           nbytes : Uint32, align : Uint32, markas : 0 .. 3,
           target : Uint32, cut_to : Uint32, crt_block : Uint32,
           prev_block : Uint32, last_free_block : Uint32, block_start : Uint32,
           left : Uint32, keep : Uint32, right : Uint32,
           newblock : Uint32, nextblk : Uint32, result : Uint32]

(* Every variable keeps its C type, and calls nest within the model's      *)
(* stack.                                                                  *)
TypeOK ==
  /\ node \in [Uint32 -> [size : Uint32, used : 0 .. 3, next : Uint32]]
  /\ {allocator_map, free_blocks, next_memblock_addr, page, free_memory,
      claimed_memory, allocations} \subseteq Uint32
  /\ page_depletion \in 0 .. MEMBLOCKS_PER_PAGE
  /\ depth \in 0 .. 4 /\ frame \in [Levels -> Frames]
  /\ held \in [Ids -> [ptr : Uint32, len : Uint32, align : Uint32]]
  /\ unmarked \subseteq Reserved
  /\ pos \in [Uint32 -> Uint32 \cup {Off}]

-----------------------------------------------------------------------------
(* The list as the code means it while one call is running: the block      *)
(* being cut has its new mark and lacks the parts that have structs, and   *)
(* the block being freed ends at nextblk.                                  *)

Listed == {b \in Uint32 : pos[b] # Off}

Current(b, pcs) == depth > 0 /\ Top.pc \in pcs /\ Top.crt_block = b
Cut1(b)   == Current(b, {"cut", "carve", "insert"})
Extent(b) == IF Cut1(b) THEN Top.left + Top.keep + Top.right ELSE node[b].size
Mark(b)   == IF Cut1(b) THEN Top.markas ELSE node[b].used
After(b)  == IF Current(b, {"merge"}) THEN Top.nextblk ELSE node[b].next

Clear(a, m, b, n) == a + m <= b \/ b + n <= a

(* At every step the listed blocks tile the region exactly, each followed  *)
(* by the block its next points to: no byte is lost or described twice by  *)
(* the cuts of cut_block and the merges of ksmalloc and free_block.        *)
BlockTiling ==
  /\ allocator_map # NULL => pos[allocator_map] = 0
  /\ \A b \in Listed :
       /\ Extent(b) > 0
       /\ pos[b] + Extent(b) <= Total
       /\ After(b) = NULL => pos[b] + Extent(b) = Total
       /\ After(b) # NULL => pos[After(b)] = pos[b] + Extent(b)
       /\ \A c \in Listed \ {b} : Clear(pos[b], Extent(b), pos[c], Extent(c))

(* Every struct taken from the first page is either in the list, or about  *)
(* to be inserted by cut_block, or reachable from free_blocks: mkblock,    *)
(* free_block and ksmalloc neither leak a struct nor hand one out twice.   *)
FreeChain ==
  LET taken == MemStart .. next_memblock_addr - 1
      inhand == IF At("insert") THEN {Top.newblock} ELSE {}
      Spare == {b \in taken : pos[b] = Off} \ inhand
      link[n \in Nat] == IF n = 0 \/ link[n - 1] = NULL THEN free_blocks
                         ELSE node[link[n - 1]].next
      k == Cardinality(Spare)
  IN allocator_map # NULL =>
       /\ Listed \cup inhand \subseteq taken
       /\ inhand \cap Listed = {}
       /\ {link[n] : n \in 0 .. k - 1} = Spare
       /\ (IF k = 0 THEN free_blocks ELSE node[link[k - 1]].next) = NULL

(* Two clients never hold overlapping memory, and nothing they hold lies   *)
(* outside the region, over the first page of the allocator's structs or   *)
(* over the page it is taking structs from.                                *)
Exclusive ==
  \A i \in Ids : held[i].ptr # NULL =>
    /\ MemStart + PageSize <= held[i].ptr
    /\ held[i].ptr + held[i].len <= MemStart + Total
    /\ page # NULL => Clear(page, PageSize, held[i].ptr, held[i].len)
    /\ \A j \in Ids \ {i} : held[j].ptr # NULL =>
         Clear(held[i].ptr, held[i].len, held[j].ptr, held[j].len)

(* kamalloc's pointers are aligned.  The code aligns offsets in the region,*)
(* which is page aligned: for alignments that divide a page it is the same.*)
Aligned ==
  \A i \in Ids : held[i].align # 0 =>
    (held[i].ptr - MemStart) % held[i].align = 0

(* ksmalloc is about to return 0.                                          *)
Failing == At("scan") /\ Top.crt_block = NULL

(* ksmalloc returns 0 only if no free block has nbytes at an aligned       *)
(* offset: the walk passes over no block that fits.                        *)
HonestFailure ==
  Failing => \A b \in Listed : node[b].used = 0 =>
    \A p \in pos[b] .. pos[b] + node[b].size - Top.nbytes :
      Top.align # 0 /\ p % Top.align # 0

(* Between calls the counters agree with the list and with the clients:    *)
(* the allocator's own page and one allocation for each extent held.       *)
AccountedAllocations ==
  depth = 0 /\ allocator_map # NULL =>
    allocations = 1 + Cardinality({i \in Ids : held[i].ptr # NULL})

(* get_free_mem_bytes() is the number of bytes in free blocks.             *)
FreeMemoryExact ==
  depth = 0 /\ allocator_map # NULL =>
    free_memory = MapThenSumSet(LAMBDA b : node[b].size,
                                {b \in Listed : node[b].used = 0})

(* The allocation that grows the table never has to grow it again: an      *)
(* infinite recursion of mkblock and kmalloc.                              *)
GrowthNestsOnce ==
  \A k \in 2 .. depth :
    frame[k].ret = "mkblock" => frame[k - 1].ret # "mkblock"

(* Structs are taken from inside the page kmalloc gave for them, if it     *)
(* gave one: mkblock does not look.                                        *)
BumpInPage ==
  allocator_map # NULL /\ page # NULL => Minus(next_memblock_addr, page) <= PageSize

(* The structs of the list lie in the memory the allocator manages.        *)
StructsInRegion ==
  \A b \in Listed : MemStart <= b /\ b < MemStart + Total

(* What was marked unusable at boot is never handed out.                   *)
ReservedKept ==
  \A r \in Reserved \ unmarked, i \in Ids :
    held[i].ptr # NULL => Clear(r.ptr, r.len, held[i].ptr, held[i].len)

(* Every call of the allocator returns.                                    *)
Terminates == depth > 0 ~> depth = 0

(* The allocator implements the promise of PhysMem.                        *)
Memory == INSTANCE PhysMem WITH Base <- MemStart,
            First <- MemStart + PageSize, Last <- MemStart + Total,
            Sizes <- Sizes \cup IsrSizes, Aligns <- Aligns \cup {0}
MemorySpec == Memory!Spec

=============================================================================
