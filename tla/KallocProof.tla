----------------------------- MODULE KallocProof -----------------------------
(***************************************************************************)
(* Proofs about Kalloc for every value of its constants, in two parts.     *)
(* First type correctness, and with it that the allocation which grows the *)
(* table of structs never grows it again, for a kernel whose interrupt     *)
(* handlers do not allocate.  Then safety: as long as calls do             *)
(* not nest (no growth of the table, no allocation from a handler), the    *)
(* memory map reserves nothing inside the region and a client never frees  *)
(* the block behind a free one, the list tiles the region, clients hold    *)
(* disjoint and aligned memory, the counter of allocations is right, a     *)
(* failure is honest, no struct is lost and Kalloc implements PhysMem.     *)
(***************************************************************************)
EXTENDS Kalloc, TLAPS, FiniteSetTheorems, Recursion

-----------------------------------------------------------------------------
(* Types and growth.                                                       *)

(* The kmalloc mkblock calls for a page takes at most one struct, from     *)
(* behind the MEMBLOCKS_PER_PAGE of the old page: nothing to its left.     *)
GrowthFrame(f, depletion) ==
  /\ f.ret = "mkblock" /\ f.left = 0 /\ f.align = 0
  /\ f.pc \in {"scan", "test", "cut", "insert"}
  /\ depletion <= 1
  /\ f.pc \in {"scan", "test"} \/ (f.pc = "cut" /\ f.right # 0) => depletion = 0
  /\ f.pc = "insert" => f.right # 0

(* What holds of the stack when handlers do not allocate.                  *)
Nesting ==
  /\ depth \in 0 .. 2
  /\ \A k \in Levels : k > depth => frame[k] = NoFrame
  /\ depth >= 1 => frame[1].ret # "mkblock"
  /\ depth = 1 /\ frame[1].pc = "carve" => page_depletion <= 1
  /\ depth = 2 => frame[1].pc = "cut" /\ GrowthFrame(frame[2], page_depletion)

TypeInv == TypeOK /\ Nesting

-----------------------------------------------------------------------------
(* Type correctness.                                                       *)

Blocks == [size : Uint32, used : 0 .. 3, next : Uint32]

LEMMA ArithType ==
  ASSUME NEW x \in Uint32, NEW y \in Uint32
  PROVE  Plus(x, y) \in Uint32 /\ Minus(x, y) \in Uint32
  BY KallocAssumption DEF Uint32, Plus, Minus

LEMMA StartType ==
  ASSUME NEW x \in Uint32 \cup {Off}, NEW y \in Uint32
  PROVE  Plus(x, y) \in Uint32 \cup {Off}
  BY KallocAssumption DEF Uint32, Off, Plus

LEMMA OffsetType ==
  ASSUME NEW align \in Uint32, NEW start \in Uint32
  PROVE  OffsetRequired(align, start) \in Uint32
  BY KallocAssumption DEF Uint32, OffsetRequired

LEMMA ConstType ==
  /\ {0, 1, MemStart, Total, PageSize, MemStart + 1} \subseteq Uint32
  /\ NULL = 0 /\ Off = -1
  /\ MEMBLOCKS_PER_PAGE \in Nat /\ MEMBLOCKS_PER_PAGE >= 2
  /\ \A n \in Sizes \cup IsrSizes, a \in Aligns \cup {0} :
       n \in Uint32 /\ a \in Uint32
  /\ \A r \in Reserved : r.ptr \in Uint32 /\ r.len \in Uint32
  BY KallocAssumption DEF Uint32, NULL, Off

(* UNCHANGED memory, spelt out.                                            *)
LEMMA MemSame ==
  ASSUME UNCHANGED memory
  PROVE  /\ node' = node /\ allocator_map' = allocator_map
         /\ free_blocks' = free_blocks /\ held' = held
         /\ next_memblock_addr' = next_memblock_addr
         /\ page_depletion' = page_depletion /\ page' = page
         /\ free_memory' = free_memory /\ claimed_memory' = claimed_memory
         /\ allocations' = allocations /\ unmarked' = unmarked /\ pos' = pos
  BY DEF memory, bump, ledger

LEMMA VarTypes ==
  ASSUME TypeInv
  PROVE  /\ node \in [Uint32 -> Blocks] /\ pos \in [Uint32 -> Uint32 \cup {Off}]
         /\ allocator_map \in Uint32 /\ free_blocks \in Uint32
         /\ next_memblock_addr \in Uint32 /\ page \in Uint32
         /\ page_depletion \in 0 .. MEMBLOCKS_PER_PAGE
         /\ free_memory \in Uint32 /\ claimed_memory \in Uint32
         /\ allocations \in Uint32 /\ unmarked \subseteq Reserved
         /\ held \in [Ids -> [ptr : Uint32, len : Uint32, align : Uint32]]
  BY DEF TypeInv, TypeOK, Blocks

(* For the steps that change the list or the pool of structs only.         *)
LEMMA ListStep ==
  ASSUME TypeInv, UNCHANGED <<allocator_map, page, ledger, held, unmarked>>,
         node' \in [Uint32 -> Blocks], pos' \in [Uint32 -> Uint32 \cup {Off}],
         free_blocks' \in Uint32, next_memblock_addr' \in Uint32,
         page_depletion' \in 0 .. MEMBLOCKS_PER_PAGE,
         frame' \in [Levels -> Frames], depth' \in 0 .. 4, Nesting'
  PROVE  TypeInv'
  BY VarTypes DEF TypeInv, TypeOK, Blocks, ledger

LEMMA TopType ==
  ASSUME TypeInv, depth > 0
  PROVE  /\ depth \in {1, 2} /\ depth \in Levels /\ Top \in Frames
         /\ Top = frame[depth]
         /\ \A b \in Uint32 : node[b] \in Blocks
         /\ Crt \in Blocks
<1>1. depth \in {1, 2} /\ depth \in Levels
  BY DEF TypeInv, Nesting, Levels
<1>2. Top \in Frames
  BY <1>1 DEF TypeInv, TypeOK, Top
<1>3. \A b \in Uint32 : node[b] \in Blocks
  BY DEF TypeInv, TypeOK, Blocks
<1>4. Crt \in Blocks
  BY <1>2, <1>3 DEF Crt, Frames
<1> QED BY <1>1, <1>2, <1>3, <1>4 DEF Top

LEMMA NoFrameType == NoFrame \in Frames
<1>1. 0 \in Uint32 /\ MaxHeld \in Nat
  BY ConstType, KallocAssumption
<1> QED BY <1>1 DEF NoFrame, Frames, NULL

LEMMA RequestType ==
  ASSUME allocator_map \in Uint32,
         NEW ret \in {"init", "boot", "client", "isr", "mkblock"},
         NEW id \in 0 .. MaxHeld, NEW nbytes \in Uint32,
         NEW align \in Uint32, NEW markas \in 0 .. 3
  PROVE  Request(ret, id, nbytes, align, markas) \in Frames
  BY NoFrameType DEF Request, Frames

(* The three ways a step changes the stack.                                *)
LEMMA ContinueStep ==
  ASSUME TypeInv, depth > 0, NEW f \in Frames, Continue(f), f.ret = Top.ret,
         depth = 1 /\ f.pc = "carve" => page_depletion' <= 1,
         depth = 2 => GrowthFrame(f, page_depletion')
  PROVE  frame' \in [Levels -> Frames] /\ depth' \in 0 .. 4 /\ Nesting'
<1>1. /\ depth' = depth /\ depth \in {1, 2} /\ depth \in Levels
      /\ frame \in [Levels -> Frames] /\ frame' = [frame EXCEPT ![depth] = f]
      /\ Top = frame[depth]
  BY TopType DEF Continue, TypeInv, TypeOK
<1>2. /\ frame' \in [Levels -> Frames] /\ frame'[depth] = f
      /\ \A k \in Levels : k # depth => frame'[k] = frame[k]
  BY <1>1
<1>3. CASE depth = 1
  <2>1. \A k \in Levels : k > depth' => frame'[k] = NoFrame
    BY <1>1, <1>2, <1>3 DEF TypeInv, Nesting, Levels
  <2> QED BY <1>1, <1>2, <1>3, <2>1 DEF TypeInv, Nesting
<1>4. CASE depth = 2
  <2>1. \A k \in Levels : k > depth' => frame'[k] = NoFrame
    BY <1>1, <1>2, <1>4 DEF TypeInv, Nesting, Levels
  <2>2. 1 \in Levels /\ frame'[1] = frame[1]
    BY <1>2, <1>4 DEF Levels
  <2> QED BY <1>1, <1>2, <1>4, <2>1, <2>2 DEF TypeInv, Nesting
<1> QED BY <1>1, <1>2, <1>3, <1>4

LEMMA PushStep ==
  ASSUME TypeInv, depth \in {0, 1}, NEW f \in Frames, Push(f),
         depth = 0 => f.ret # "mkblock" /\ f.pc # "carve",
         depth = 1 => frame[1].pc = "cut" /\ GrowthFrame(f, page_depletion')
  PROVE  frame' \in [Levels -> Frames] /\ depth' \in 0 .. 4 /\ Nesting'
<1>1. /\ depth' = depth + 1 /\ depth + 1 \in Levels
      /\ frame \in [Levels -> Frames] /\ frame' = [frame EXCEPT ![depth + 1] = f]
  BY DEF Push, TypeInv, TypeOK, Levels
<1>2. /\ frame' \in [Levels -> Frames] /\ frame'[depth + 1] = f
      /\ \A k \in Levels : k # depth + 1 => frame'[k] = frame[k]
  BY <1>1
<1>3. \A k \in Levels : k > depth' => frame'[k] = NoFrame
  BY <1>1, <1>2 DEF TypeInv, Nesting, Levels
<1>4. CASE depth = 0
  BY <1>1, <1>2, <1>3, <1>4 DEF TypeInv, Nesting
<1>5. CASE depth = 1
  <2>1. 1 \in Levels /\ frame'[1] = frame[1]
    BY <1>2, <1>5 DEF Levels
  <2> QED BY <1>1, <1>2, <1>3, <1>5, <2>1 DEF TypeInv, Nesting
<1> QED BY <1>1, <1>2, <1>4, <1>5

LEMMA PopStep ==
  ASSUME TypeInv, depth = 1, Pop
  PROVE  frame' \in [Levels -> Frames] /\ depth' \in 0 .. 4 /\ Nesting'
<1>1. /\ depth' = 0 /\ 1 \in Levels
      /\ frame \in [Levels -> Frames] /\ frame' = [frame EXCEPT ![1] = NoFrame]
  BY DEF Pop, TypeInv, TypeOK, Levels
<1>2. /\ frame' \in [Levels -> Frames] /\ frame'[1] = NoFrame
      /\ \A k \in Levels : k # 1 => frame'[k] = frame[k]
  BY <1>1, NoFrameType
<1>3. \A k \in Levels : k > depth' => frame'[k] = NoFrame
  BY <1>1, <1>2 DEF TypeInv, Nesting, Levels
<1> QED BY <1>1, <1>2, <1>3 DEF Nesting

(* Only the frame of mkblock's kmalloc lies above another one.             *)
LEMMA OnlyGrowthNests ==
  ASSUME TypeInv, depth > 0,
         Top.ret # "mkblock" \/ Top.pc \notin {"scan", "test", "cut", "insert"}
  PROVE  depth = 1
  BY TopType DEF TypeInv, Nesting, GrowthFrame

LEMMA SameMemory ==
  ASSUME TypeInv, UNCHANGED memory,
         frame' \in [Levels -> Frames], depth' \in 0 .. 4, Nesting'
  PROVE  TypeInv'
  BY MemSame DEF TypeInv, TypeOK

(* A step of a call that only changes its locals.                          *)
LEMMA LocalStep ==
  ASSUME TypeInv, depth > 0, UNCHANGED memory,
         NEW f \in Frames, Continue(f), f.ret = Top.ret,
         depth = 1 => f.pc # "carve",
         depth = 2 => GrowthFrame(f, page_depletion)
  PROVE  TypeInv'
<1>1. page_depletion' = page_depletion
  BY MemSame
<1> QED BY <1>1, ContinueStep, SameMemory

(* The fields of the growth frame in use, when there is one.               *)
LEMMA GrowthTop ==
  ASSUME TypeInv, depth = 2
  PROVE  GrowthFrame(Top, page_depletion)
  BY TopType DEF TypeInv, Nesting

LEMMA AdvanceType ==
  ASSUME TypeInv, depth > 0, NEW pc \in {"scan", "find", "mark"}, Advance(pc),
         UNCHANGED memory, depth = 2 => pc = "scan" /\ Top.pc = "test"
  PROVE  TypeInv'
<1> DEFINE f == [Top EXCEPT !.pc = pc, !.block_start = Plus(@, Crt.size),
                       !.prev_block = Top.crt_block, !.crt_block = Crt.next]
<1>1. f \in Frames
  <2>1. Plus(Top.block_start, Crt.size) \in Uint32
    BY TopType, ArithType DEF Frames, Blocks
  <2> QED BY <2>1, TopType DEF Frames, Blocks
<1>2. Continue(f)
  BY DEF Advance
<1>3. f.ret = Top.ret /\ f.pc = pc
  BY TopType DEF Frames
<1>4. depth = 2 => GrowthFrame(f, page_depletion)
  BY GrowthTop, TopType DEF GrowthFrame, Frames
<1> HIDE DEF f
<1> QED BY <1>1, <1>2, <1>3, <1>4, LocalStep

LEMMA OccupiedType ==
  ASSUME TypeInv, Occupied PROVE TypeInv'
<1> DEFINE f == [Top EXCEPT !.pc = "test", !.last_free_block = NULL]
<1>1. depth > 0 /\ UNCHANGED memory /\ Top.pc = "scan" /\ Continue(f)
  BY DEF Occupied, At
<1>2. f \in Frames /\ f.ret = Top.ret /\ f.pc = "test"
  BY <1>1, TopType, ConstType DEF Frames
<1>3. depth = 2 => GrowthFrame(f, page_depletion)
  BY <1>1, GrowthTop, TopType DEF GrowthFrame, Frames
<1> HIDE DEF f
<1> QED BY <1>1, <1>2, <1>3, LocalStep

LEMMA FirstFreeType ==
  ASSUME TypeInv, FirstFree PROVE TypeInv'
<1> DEFINE last == IF Top.prev_block = NULL \/ node[Top.prev_block].used = 1
                   THEN Top.crt_block ELSE NULL
           f == [Top EXCEPT !.pc = "test", !.last_free_block = last]
<1>1. depth > 0 /\ UNCHANGED memory /\ Top.pc = "scan" /\ Continue(f)
  BY DEF FirstFree, At
<1>2. last \in Uint32
  BY <1>1, TopType, ConstType DEF Frames
<1> HIDE DEF last
<1>3. f \in Frames /\ f.ret = Top.ret /\ f.pc = "test"
  BY <1>1, <1>2, TopType DEF Frames
<1>4. depth = 2 => GrowthFrame(f, page_depletion)
  BY <1>1, GrowthTop, TopType DEF GrowthFrame, Frames
<1> HIDE DEF f
<1> QED BY <1>1, <1>3, <1>4, LocalStep

LEMMA HousekeepType ==
  ASSUME TypeInv, Housekeep PROVE TypeInv'
<1> DEFINE last == Top.last_free_block
           f == [Top EXCEPT !.pc = "test", !.crt_block = last,
                            !.block_start = Minus(@, Crt.size)]
<1>1. /\ depth > 0 /\ Top.pc = "scan" /\ Continue(f)
      /\ free_blocks' = Top.crt_block
      /\ node' = [node EXCEPT ![last].next = Crt.next,
                              ![last].size = Plus(@, Crt.size),
                              ![Top.crt_block].next = free_blocks]
      /\ pos' = [pos EXCEPT ![Top.crt_block] = Off]
      /\ UNCHANGED <<allocator_map, bump, ledger, held, unmarked>>
  BY DEF Housekeep, At
<1>2. /\ Plus(node[last].size, Crt.size) \in Uint32
      /\ Minus(Top.block_start, Crt.size) \in Uint32
      /\ Top.crt_block \in Uint32 /\ last \in Uint32
  BY <1>1, TopType, ArithType DEF Frames, Blocks
<1>3. f \in Frames /\ f.ret = Top.ret /\ f.pc = "test"
  BY <1>1, <1>2, TopType DEF Frames
<1>4. depth = 2 => GrowthFrame(f, page_depletion')
  BY <1>1, GrowthTop, TopType DEF GrowthFrame, Frames, bump
<1>5. frame' \in [Levels -> Frames] /\ depth' \in 0 .. 4 /\ Nesting'
  <2> HIDE DEF f
  <2> QED BY <1>1, <1>3, <1>4, ContinueStep
<1> HIDE DEF f, last
<1>6. node' \in [Uint32 -> Blocks]
  <2>1. Crt \in Blocks
    BY <1>1, TopType
  <2> QED BY <1>1, <1>2, <2>1, VarTypes DEF Blocks
<1>7. pos' \in [Uint32 -> Uint32 \cup {Off}]
  BY <1>1, VarTypes
<1>8. free_blocks' \in Uint32 /\ UNCHANGED <<next_memblock_addr, page_depletion, page>>
  BY <1>1, <1>2 DEF bump
<1> QED BY <1>1, <1>5, <1>6, <1>7, <1>8, VarTypes, ListStep

LEMMA PassOverType ==
  ASSUME TypeInv, PassOver PROVE TypeInv'
  BY AdvanceType DEF PassOver, At

LEMMA ChooseType ==
  ASSUME TypeInv, Choose PROVE TypeInv'
<1> DEFINE offset == OffsetRequired(Top.align, Top.block_start)
           right  == Minus(Minus(Crt.size, Top.nbytes), offset)
           result == Plus(Plus(MemStart, offset), Top.block_start)
           f == [Top EXCEPT !.pc = "cut", !.left = offset, !.keep = Top.nbytes,
                            !.right = right, !.result = result]
<1>1. depth > 0 /\ UNCHANGED memory /\ Top.pc = "test" /\ Continue(f)
  BY DEF Choose, At
<1>2. offset \in Uint32 /\ right \in Uint32 /\ result \in Uint32
  <2>1. offset \in Uint32
    BY <1>1, TopType, OffsetType DEF Frames
  <2>2. Minus(Crt.size, Top.nbytes) \in Uint32 /\ Plus(MemStart, offset) \in Uint32
    BY <1>1, <2>1, TopType, ArithType, ConstType DEF Frames, Blocks
  <2> HIDE DEF offset
  <2> QED BY <1>1, <2>1, <2>2, TopType, ArithType DEF Frames
<1>3. depth = 2 => offset = 0
  BY <1>1, GrowthTop DEF GrowthFrame, OffsetRequired
<1> HIDE DEF offset, right, result
<1>4. f \in Frames /\ f.ret = Top.ret /\ f.pc = "cut"
  BY <1>1, <1>2, TopType DEF Frames
<1>5. depth = 2 => GrowthFrame(f, page_depletion)
  BY <1>1, <1>3, GrowthTop, TopType DEF GrowthFrame, Frames
<1> HIDE DEF f
<1> QED BY <1>1, <1>4, <1>5, LocalStep

LEMMA ReturnType ==
  ASSUME TypeInv, depth > 0, NEW r \in Uint32, Return(r),
         Top.pc \in {"scan", "cut"}
  PROVE  /\ frame' \in [Levels -> Frames] /\ depth' \in 0 .. 4 /\ Nesting'
         /\ next_memblock_addr' \in Uint32 /\ page' \in Uint32
         /\ page_depletion' = page_depletion
         /\ held' \in [Ids -> [ptr : Uint32, len : Uint32, align : Uint32]]
<1>1. CASE Top.ret = "mkblock"
  <2>1. /\ next_memblock_addr' = r /\ page' = r /\ depth' = depth - 1
        /\ frame' = [frame EXCEPT ![depth] = NoFrame, ![depth - 1].pc = "carve"]
        /\ page_depletion' = page_depletion /\ held' = held
    BY <1>1 DEF Return
  <2>2. depth = 2 /\ 1 \in Levels /\ 2 \in Levels
    BY <1>1, TopType DEF TypeInv, Nesting, Levels
  <2>3. /\ frame \in [Levels -> Frames] /\ frame[1] \in Frames
        /\ page_depletion <= 1 /\ frame[1].ret # "mkblock"
    BY <2>2 DEF TypeInv, TypeOK, Nesting, GrowthFrame
  <2>4. [frame[1] EXCEPT !.pc = "carve"] \in Frames
    BY <2>3 DEF Frames
  <2>5. /\ frame' \in [Levels -> Frames]
        /\ frame'[1] = [frame[1] EXCEPT !.pc = "carve"] /\ frame'[2] = NoFrame
        /\ \A k \in Levels \ {1, 2} : frame'[k] = frame[k]
    BY <2>1, <2>2, <2>3, <2>4, NoFrameType
  <2>6. \A k \in Levels : k > depth' => frame'[k] = NoFrame
    BY <2>1, <2>2, <2>5 DEF TypeInv, Nesting, Levels
  <2>7. frame'[1].ret # "mkblock"
    BY <2>3, <2>5 DEF Frames
  <2> QED BY <2>1, <2>2, <2>3, <2>5, <2>6, <2>7, VarTypes DEF Nesting
<1>2. CASE Top.ret # "mkblock"
  <2>1. /\ Pop /\ UNCHANGED bump
        /\ held' = IF Top.id = 0 \/ r = NULL THEN held
                   ELSE [held EXCEPT ![Top.id] =
                           [ptr |-> r, len |-> Top.nbytes, align |-> Top.align]]
    BY <1>2 DEF Return
  <2>2. depth = 1
    BY <1>2, OnlyGrowthNests
  <2>3. held' \in [Ids -> [ptr : Uint32, len : Uint32, align : Uint32]]
    BY <2>1, TopType, VarTypes DEF Frames
  <2> QED BY <2>1, <2>2, <2>3, PopStep, VarTypes DEF bump
<1> QED BY <1>1, <1>2

LEMMA OutOfMemoryType ==
  ASSUME TypeInv, OutOfMemory PROVE TypeInv'
<1>1. /\ depth > 0 /\ Top.pc = "scan" /\ Return(NULL)
      /\ UNCHANGED <<node, allocator_map, free_blocks, ledger, unmarked, pos>>
  BY DEF OutOfMemory, At
<1>2. NULL \in Uint32
  BY ConstType
<1> QED BY <1>1, <1>2, ReturnType, VarTypes DEF TypeInv, TypeOK, ledger, Blocks

LEMMA TakeFreeType ==
  ASSUME TypeInv, TakeFree PROVE TypeInv'
<1> DEFINE f == [Top EXCEPT !.pc = "insert", !.newblock = free_blocks]
<1>1. /\ depth > 0 /\ Top.pc = "cut" /\ Pending /\ Continue(f)
      /\ free_blocks' = node[free_blocks].next
      /\ UNCHANGED <<node, allocator_map, bump, ledger, held, unmarked, pos>>
  BY DEF TakeFree, At, NextSpare
<1>2. f \in Frames /\ f.ret = Top.ret /\ f.pc = "insert"
  BY <1>1, TopType, VarTypes DEF Frames
<1>3. depth = 2 => GrowthFrame(f, page_depletion')
  BY <1>1, GrowthTop, TopType DEF GrowthFrame, Frames, bump, Pending
<1> HIDE DEF f
<1>4. free_blocks' \in Uint32
  BY <1>1, VarTypes DEF Blocks
<1>5. frame' \in [Levels -> Frames] /\ depth' \in 0 .. 4 /\ Nesting'
  BY <1>1, <1>2, <1>3, ContinueStep
<1> QED BY <1>1, <1>4, <1>5, VarTypes, ListStep DEF bump

LEMMA CarveType ==
  ASSUME TypeInv, Carve PROVE TypeInv'
<1> DEFINE f == [Top EXCEPT !.pc = "insert", !.newblock = next_memblock_addr]
<1>1. /\ depth > 0 /\ Continue(f)
      /\ \/ Top.pc = "cut" /\ Pending /\ page_depletion # MEMBLOCKS_PER_PAGE
         \/ Top.pc = "carve"
      /\ next_memblock_addr' = Plus(next_memblock_addr, 1)
      /\ page_depletion' = page_depletion + 1
      /\ UNCHANGED <<node, allocator_map, free_blocks, page, ledger, held,
                     unmarked, pos>>
  BY DEF Carve, At, TableFull
<1>2. f \in Frames /\ f.ret = Top.ret /\ f.pc = "insert"
  BY <1>1, TopType, VarTypes DEF Frames
<1>3. depth = 2 => GrowthFrame(f, page_depletion')
  BY <1>1, GrowthTop, TopType, VarTypes DEF GrowthFrame, Frames, Pending
<1>4. page_depletion' \in 0 .. MEMBLOCKS_PER_PAGE
  <2>1. CASE Top.pc = "cut"
    BY <1>1, <2>1, VarTypes, ConstType
  <2>2. CASE Top.pc = "carve"
    <3>1. depth = 1 /\ frame[1].pc = "carve"
      BY <1>1, <2>2, OnlyGrowthNests, TopType
    <3> QED BY <1>1, <3>1, VarTypes, ConstType DEF TypeInv, Nesting
  <2> QED BY <1>1, <2>1, <2>2
<1>5. next_memblock_addr' \in Uint32
  BY <1>1, VarTypes, ArithType, ConstType
<1> HIDE DEF f
<1>6. frame' \in [Levels -> Frames] /\ depth' \in 0 .. 4 /\ Nesting'
  BY <1>1, <1>2, <1>3, ContinueStep
<1> QED BY <1>1, <1>4, <1>5, <1>6, VarTypes, ListStep

LEMMA GrowType ==
  ASSUME TypeInv, Grow PROVE TypeInv'
<1> DEFINE f == Request("mkblock", 0, PageSize, 0, 1)
<1>1. /\ depth > 0 /\ Top.pc = "cut" /\ Pending /\ Push(f)
      /\ page_depletion = MEMBLOCKS_PER_PAGE /\ page_depletion' = 0
      /\ UNCHANGED <<node, allocator_map, free_blocks, next_memblock_addr, page,
                     ledger, held, unmarked, pos>>
  BY DEF Grow, At, TableFull
<1>2. depth = 1
  BY <1>1, GrowthTop, TopType, ConstType DEF GrowthFrame
<1>3. f \in Frames
  BY RequestType, VarTypes, ConstType, KallocAssumption
<1>4. GrowthFrame(f, page_depletion')
  BY <1>1 DEF GrowthFrame, Request, NoFrame
<1>5. frame[1].pc = "cut"
  BY <1>1, <1>2, TopType
<1> HIDE DEF f
<1>6. frame' \in [Levels -> Frames] /\ depth' \in 0 .. 4 /\ Nesting'
  BY <1>1, <1>2, <1>3, <1>4, <1>5, PushStep
<1>7. page_depletion' \in 0 .. MEMBLOCKS_PER_PAGE
  BY <1>1, ConstType
<1> QED BY <1>1, <1>6, <1>7, VarTypes, ListStep

LEMMA InsertRightType ==
  ASSUME TypeInv, InsertRight PROVE TypeInv'
<1> DEFINE f == [Top EXCEPT !.pc = "cut", !.right = 0]
           start == Plus(Plus(pos[Top.crt_block], Top.left), Top.keep)
<1>1. /\ depth > 0 /\ Top.pc = "insert" /\ Continue(f)
      /\ node' = [node EXCEPT
           ![Top.newblock] = [size |-> Top.right, used |-> 0, next |-> Crt.next],
           ![Top.crt_block].next = Top.newblock]
      /\ pos' = [pos EXCEPT ![Top.newblock] = start]
      /\ UNCHANGED <<allocator_map, free_blocks, bump, ledger, held, unmarked>>
  BY DEF InsertRight, At
<1>2. f \in Frames /\ f.ret = Top.ret /\ f.pc = "cut"
  BY <1>1, TopType, ConstType DEF Frames
<1>3. depth = 2 => GrowthFrame(f, page_depletion')
  BY <1>1, GrowthTop, TopType DEF GrowthFrame, Frames, bump
<1>4. start \in Uint32 \cup {Off}
  BY <1>1, TopType, VarTypes, StartType DEF Frames
<1> HIDE DEF f, start
<1>5. pos' \in [Uint32 -> Uint32 \cup {Off}]
  BY <1>1, <1>4, VarTypes
<1>6. node' \in [Uint32 -> Blocks]
  <2>1. Crt \in Blocks /\ Top \in Frames
    BY <1>1, TopType
  <2> QED BY <1>1, <2>1, VarTypes DEF Blocks, Frames
<1>7. frame' \in [Levels -> Frames] /\ depth' \in 0 .. 4 /\ Nesting'
  BY <1>1, <1>2, <1>3, ContinueStep
<1> QED BY <1>1, <1>5, <1>6, <1>7, VarTypes, ListStep DEF bump

LEMMA InsertLeftType ==
  ASSUME TypeInv, InsertLeft PROVE TypeInv'
<1> DEFINE f == [Top EXCEPT !.pc = "cut", !.left = 0]
           start == Plus(pos[Top.crt_block], Top.left)
<1>1. /\ depth > 0 /\ Top.pc = "insert" /\ Top.right = 0 /\ Continue(f)
      /\ node' = [node EXCEPT
           ![Top.newblock] = [size |-> Top.left, used |-> 0, next |-> Top.crt_block],
           ![Top.prev_block].next = Top.newblock]
      /\ pos' = [pos EXCEPT ![Top.newblock] = pos[Top.crt_block],
                            ![Top.crt_block] = start]
      /\ UNCHANGED <<allocator_map, free_blocks, bump, ledger, held, unmarked>>
  BY DEF InsertLeft, At
<1>2. f \in Frames /\ f.ret = Top.ret /\ f.pc = "cut"
  BY <1>1, TopType, ConstType, ZenonT(60) DEF Frames
<1>3. depth # 2
  BY <1>1, GrowthTop DEF GrowthFrame
<1>4. start \in Uint32 \cup {Off}
  BY <1>1, TopType, VarTypes, StartType DEF Frames
<1> HIDE DEF f, start
<1>5. pos' \in [Uint32 -> Uint32 \cup {Off}]
  BY <1>1, <1>4, TopType, VarTypes DEF Frames
<1>6. node' \in [Uint32 -> Blocks]
  <2>1. Top \in Frames
    BY <1>1, TopType
  <2> QED BY <1>1, <2>1, VarTypes DEF Blocks, Frames
<1>7. frame' \in [Levels -> Frames] /\ depth' \in 0 .. 4 /\ Nesting'
  BY <1>1, <1>2, <1>3, ContinueStep
<1> QED BY <1>1, <1>5, <1>6, <1>7, VarTypes, ListStep DEF bump

LEMMA ClosedType ==
  ASSUME TypeInv, depth > 0
  PROVE  /\ Closed \in [Uint32 -> Blocks]
         /\ \A a, n : Erase(Closed, a, n) \in [Uint32 -> Blocks]
<1>1. Closed \in [Uint32 -> Blocks]
  <2>1. Top.keep \in Uint32 /\ Top.markas \in 0 .. 3 /\ Top.crt_block \in Uint32
    BY TopType DEF Frames
  <2> QED BY <2>1, VarTypes DEF Closed, Blocks
<1>2. ZeroBlock \in Blocks
  BY ConstType DEF ZeroBlock, Blocks
<1> QED BY <1>1, <1>2 DEF Erase

LEMMA ClaimType ==
  ASSUME TypeInv, Claim PROVE TypeInv'
<1>1. /\ depth > 0 /\ Top.pc = "cut" /\ Return(Top.result)
      /\ allocations' = Plus(allocations, 1)
      /\ free_memory' = Minus(free_memory, Top.nbytes)
      /\ claimed_memory' = Plus(claimed_memory, Top.nbytes)
      /\ node' = IF Top.markas = 1 THEN Erase(Closed, Top.result, Top.nbytes)
                                   ELSE Closed
      /\ UNCHANGED <<allocator_map, free_blocks, unmarked, pos>>
  BY DEF Claim, At
<1>2. Top.result \in Uint32 /\ Top.nbytes \in Uint32
  BY <1>1, TopType DEF Frames
<1>3. /\ allocations' \in Uint32 /\ free_memory' \in Uint32
      /\ claimed_memory' \in Uint32
  BY <1>1, <1>2, VarTypes, ArithType, ConstType
<1>4. node' \in [Uint32 -> Blocks]
  BY <1>1, ClosedType
<1>5. /\ frame' \in [Levels -> Frames] /\ depth' \in 0 .. 4 /\ Nesting'
      /\ next_memblock_addr' \in Uint32 /\ page' \in Uint32
      /\ page_depletion' = page_depletion
      /\ held' \in [Ids -> [ptr : Uint32, len : Uint32, align : Uint32]]
  BY <1>1, <1>2, ReturnType
<1> QED BY <1>1, <1>3, <1>4, <1>5, VarTypes DEF TypeInv, TypeOK, Blocks

LEMMA KfreeType ==
  ASSUME TypeInv, NEW ptr \in Uint32, Kfree(ptr),
         held' \in [Ids -> [ptr : Uint32, len : Uint32, align : Uint32]]
  PROVE  TypeInv'
<1> DEFINE f == [Request("client", 0, 0, 0, 0) EXCEPT
                   !.pc = "find", !.target = Minus(ptr, MemStart)]
<1>1. /\ depth = 0 /\ Push(f)
      /\ UNCHANGED <<node, allocator_map, free_blocks, bump, ledger, unmarked, pos>>
  BY DEF Kfree
<1>2. f \in Frames /\ f.ret = "client" /\ f.pc = "find"
  <2>1. Request("client", 0, 0, 0, 0) \in Frames
    BY RequestType, VarTypes, ConstType, KallocAssumption
  <2>2. Request("client", 0, 0, 0, 0).ret = "client"
    BY DEF Request, NoFrame
  <2>3. Minus(ptr, MemStart) \in Uint32
    BY ArithType, ConstType
  <2> QED BY <2>1, <2>2, <2>3 DEF Frames
<1> HIDE DEF f
<1>3. frame' \in [Levels -> Frames] /\ depth' \in 0 .. 4 /\ Nesting'
  BY <1>1, <1>2, PushStep
<1> QED BY <1>1, <1>3, VarTypes DEF TypeInv, TypeOK, Blocks, bump, ledger

LEMMA FreeType ==
  ASSUME TypeInv, NEW i \in Ids, Free(i) PROVE TypeInv'
<1>1. held[i].ptr \in Uint32
  BY VarTypes
<1>2. NoExtent \in [ptr : Uint32, len : Uint32, align : Uint32]
  BY ConstType DEF NoExtent
<1> QED BY <1>1, <1>2, KfreeType, VarTypes DEF Free

LEMMA FreeNullType ==
  ASSUME TypeInv, FreeNull PROVE TypeInv'
  BY KfreeType, VarTypes, ConstType DEF FreeNull

LEMMA FreeItType ==
  ASSUME TypeInv, FreeIt PROVE TypeInv'
<1>1. CASE FindNext
  <2>1. depth > 0 /\ Top.pc = "find" /\ Advance("find") /\ UNCHANGED memory
    BY <1>1 DEF FindNext, At
  <2> QED BY <2>1, GrowthTop, AdvanceType, TopType DEF GrowthFrame
<1>2. CASE FindMiss
  <2>1. depth > 0 /\ Top.pc = "find" /\ Pop /\ UNCHANGED memory
    BY <1>2 DEF FindMiss, At
  <2> QED BY <2>1, OnlyGrowthNests, PopStep, SameMemory
<1>3. CASE FreeFound
  <2> DEFINE f == [Top EXCEPT !.pc = "merge", !.nextblk = Crt.next]
  <2>1. /\ depth > 0 /\ Top.pc = "find" /\ Continue(f)
        /\ free_memory' = Minus(free_memory, Crt.size)
        /\ claimed_memory' = Plus(claimed_memory, Crt.size)
        /\ node' = [node EXCEPT ![Top.crt_block].used = 0]
        /\ UNCHANGED <<allocator_map, free_blocks, bump, allocations, held,
                       unmarked, pos>>
    BY <1>3 DEF FreeFound, At
  <2>2. f \in Frames /\ f.ret = Top.ret /\ f.pc = "merge"
    BY <2>1, TopType DEF Frames, Blocks
  <2>3. depth = 1
    BY <2>1, OnlyGrowthNests
  <2> HIDE DEF f
  <2>4. frame' \in [Levels -> Frames] /\ depth' \in 0 .. 4 /\ Nesting'
    BY <2>1, <2>2, <2>3, ContinueStep
  <2>5. Crt.size \in Uint32 /\ node' \in [Uint32 -> Blocks]
    <3>1. Crt \in Blocks
      BY <2>1, TopType
    <3>2. node \in [Uint32 -> Blocks] /\ node' = [node EXCEPT ![Top.crt_block].used = 0]
      BY <2>1, VarTypes
    <3>3. \A b \in Uint32 : [node[b] EXCEPT !.used = 0] \in Blocks
      BY <3>2 DEF Blocks
    <3>4. node' \in [Uint32 -> Blocks]
      BY <3>2, <3>3
    <3> QED BY <3>1, <3>4 DEF Blocks
  <2>6. free_memory' \in Uint32 /\ claimed_memory' \in Uint32
    BY <2>1, <2>5, VarTypes, ArithType
  <2> QED BY <2>1, <2>4, <2>5, <2>6, VarTypes DEF TypeInv, TypeOK, Blocks, bump
<1>4. CASE Merge
  <2> DEFINE f == [Top EXCEPT !.nextblk = node[Top.nextblk].next]
             total == Plus(Crt.size, node[Top.nextblk].size)
  <2>1. /\ depth > 0 /\ Top.pc = "merge" /\ Continue(f)
        /\ node' = [node EXCEPT
             ![Top.crt_block].size = Plus(@, node[Top.nextblk].size),
             ![Top.nextblk].next = free_blocks]
        /\ free_blocks' = Top.nextblk
        /\ pos' = [pos EXCEPT ![Top.nextblk] = Off]
        /\ UNCHANGED <<allocator_map, bump, ledger, held, unmarked>>
    BY <1>4 DEF Merge, At
  <2>2. f \in Frames /\ f.ret = Top.ret /\ f.pc = "merge"
    BY <2>1, TopType, VarTypes DEF Frames, Blocks
  <2>3. depth = 1
    BY <2>1, OnlyGrowthNests
  <2> HIDE DEF f
  <2>4. frame' \in [Levels -> Frames] /\ depth' \in 0 .. 4 /\ Nesting'
    BY <2>1, <2>2, <2>3, ContinueStep
  <2>5. /\ total \in Uint32 /\ Top.nextblk \in Uint32 /\ Top.crt_block \in Uint32
        /\ total = Plus(node[Top.crt_block].size, node[Top.nextblk].size)
    BY <2>1, TopType, ArithType DEF Frames, Blocks, Crt
  <2> HIDE DEF total
  <2>6. node' \in [Uint32 -> Blocks]
    <3>1. node' = [node EXCEPT ![Top.crt_block].size = total,
                               ![Top.nextblk].next = free_blocks]
      BY <2>1, <2>5
    <3> QED BY <2>5, <3>1, VarTypes DEF Blocks
  <2>7. pos' \in [Uint32 -> Uint32 \cup {Off}] /\ free_blocks' \in Uint32
    BY <2>1, <2>5, VarTypes
  <2> QED BY <2>1, <2>4, <2>6, <2>7, VarTypes, ListStep DEF bump
<1>5. CASE FreeDone
  <2>1. /\ depth > 0 /\ Top.pc = "merge" /\ Pop
        /\ node' = [node EXCEPT ![Top.crt_block].next = Top.nextblk]
        /\ allocations' = Minus(allocations, 1)
        /\ UNCHANGED <<allocator_map, free_blocks, bump, free_memory,
                       claimed_memory, held, unmarked, pos>>
    BY <1>5 DEF FreeDone, At
  <2>2. frame' \in [Levels -> Frames] /\ depth' \in 0 .. 4 /\ Nesting'
    BY <2>1, OnlyGrowthNests, PopStep
  <2>3. Top.nextblk \in Uint32
    BY <2>1, TopType DEF Frames
  <2>4. node' \in [Uint32 -> Blocks]
    BY <2>1, <2>3, VarTypes DEF Blocks
  <2>5. allocations' \in Uint32
    BY <2>1, VarTypes, ArithType, ConstType
  <2> QED BY <2>1, <2>2, <2>4, <2>5, VarTypes DEF TypeInv, TypeOK, Blocks, bump
<1> QED BY <1>1, <1>2, <1>3, <1>4, <1>5 DEF FreeIt

LEMMA MarkItType ==
  ASSUME TypeInv, MarkIt PROVE TypeInv'
<1>1. CASE MarkSkip
  <2>1. depth > 0 /\ Top.pc = "mark" /\ Advance("mark") /\ UNCHANGED memory
    BY <1>1 DEF MarkSkip, At
  <2> QED BY <2>1, GrowthTop, AdvanceType, TopType DEF GrowthFrame
<1>2. CASE MarkTaken
  <2> DEFINE f == [Top EXCEPT !.pc = "marked"]
  <2>1. depth > 0 /\ Top.pc = "mark" /\ Continue(f) /\ UNCHANGED memory
    BY <1>2 DEF MarkTaken, At
  <2>2. f \in Frames /\ f.ret = Top.ret /\ f.pc = "marked"
    BY <2>1, TopType DEF Frames
  <2> HIDE DEF f
  <2> QED BY <2>1, <2>2, OnlyGrowthNests, LocalStep
<1>3. CASE MarkCut
  <2> DEFINE keep == Minus(Minus(Crt.size, OffsetL), OffsetR)
             f == [Top EXCEPT !.pc = "cut", !.left = OffsetL, !.right = OffsetR,
                              !.keep = keep]
  <2>1. depth > 0 /\ Top.pc = "mark" /\ Continue(f) /\ UNCHANGED memory
    BY <1>3 DEF MarkCut, At
  <2>2. /\ Top.target \in Uint32 /\ Top.cut_to \in Uint32
        /\ Top.block_start \in Uint32 /\ Crt.size \in Uint32
    BY <2>1, TopType DEF Frames, Blocks
  <2>3. OffsetL \in Uint32 /\ OffsetR \in Uint32
    BY <2>2, ArithType, ConstType DEF OffsetL, OffsetR, BlockEnd
  <2>4. keep \in Uint32
    BY <2>2, <2>3, ArithType
  <2> HIDE DEF keep
  <2>5. f \in Frames /\ f.ret = Top.ret /\ f.pc = "cut"
    BY <2>1, <2>3, <2>4, TopType DEF Frames
  <2> HIDE DEF f
  <2> QED BY <2>1, <2>5, OnlyGrowthNests, LocalStep
<1>4. CASE MarkClose
  <2> DEFINE f == [Top EXCEPT !.pc = "marked"]
  <2>1. /\ depth > 0 /\ Top.ret = "boot" /\ Continue(f) /\ node' = Closed
        /\ UNCHANGED <<allocator_map, free_blocks, bump, ledger, held, unmarked, pos>>
    BY <1>4 DEF MarkClose, At
  <2>2. f \in Frames /\ f.ret = Top.ret /\ f.pc = "marked"
    BY <2>1, TopType DEF Frames
  <2> HIDE DEF f
  <2>3. frame' \in [Levels -> Frames] /\ depth' \in 0 .. 4 /\ Nesting'
    BY <2>1, <2>2, OnlyGrowthNests, ContinueStep
  <2> QED BY <2>1, <2>3, ClosedType, VarTypes, ListStep DEF bump
<1>5. CASE MarkNext
  <2> DEFINE f == [Top EXCEPT !.pc = "mark", !.nbytes = @ - Crt.size,
                 !.block_start = Plus(@, Crt.size),
                 !.prev_block = Top.crt_block, !.crt_block = Crt.next]
  <2>1. /\ depth > 0 /\ Top.pc = "marked" /\ Continue(f) /\ UNCHANGED memory
        /\ Top.nbytes > Crt.size
    BY <1>5 DEF MarkNext, MoreToMark, At
  <2>2. Top.nbytes - Crt.size \in Uint32 /\ Plus(Top.block_start, Crt.size) \in Uint32
    <3>1. Top.nbytes \in Uint32 /\ Top.block_start \in Uint32 /\ Crt.size \in Uint32
      BY <2>1, TopType DEF Frames, Blocks
    <3>2. Top.nbytes - Crt.size \in Uint32
      BY <2>1, <3>1, KallocAssumption DEF Uint32
    <3> QED BY <3>1, <3>2, ArithType
  <2>3. f \in Frames /\ f.ret = Top.ret /\ f.pc = "mark"
    BY <2>1, <2>2, TopType DEF Frames, Blocks
  <2> HIDE DEF f
  <2> QED BY <2>1, <2>3, OnlyGrowthNests, LocalStep
<1>6. CASE MarkDone
  <2>1. depth > 0 /\ Top.pc \in {"mark", "marked"} /\ Pop /\ UNCHANGED memory
    BY <1>6 DEF MarkDone, At
  <2> QED BY <2>1, OnlyGrowthNests, PopStep, SameMemory
<1> QED BY <1>1, <1>2, <1>3, <1>4, <1>5, <1>6 DEF MarkIt

LEMMA RunType ==
  ASSUME TypeInv, Run PROVE TypeInv'
<1>1. CASE Search
  BY <1>1, OccupiedType, FirstFreeType, HousekeepType, PassOverType, ChooseType,
     OutOfMemoryType DEF Search
<1>2. CASE Cut
  BY <1>2, TakeFreeType, CarveType, GrowType, InsertRightType, InsertLeftType,
     ClaimType DEF Cut
<1> QED BY <1>1, <1>2, FreeItType, MarkItType DEF Run

LEMMA InitKallocatorType ==
  ASSUME TypeInv, InitKallocator, depth = 0 PROVE TypeInv'
<1> DEFINE f == [Request("init", 0, PageSize, 0, 3) EXCEPT !.crt_block = MemStart]
<1>1. /\ allocator_map' = MemStart /\ next_memblock_addr' = MemStart + 1
      /\ page_depletion' = 1 /\ page' = MemStart /\ free_memory' = Total
      /\ node' = [node EXCEPT ![MemStart] =
                    [size |-> Total, used |-> 0, next |-> NULL]]
      /\ pos' = [pos EXCEPT ![MemStart] = 0] /\ Push(f)
      /\ UNCHANGED <<free_blocks, claimed_memory, allocations, held, unmarked>>
  BY DEF InitKallocator
<1>2. Request("init", 0, PageSize, 0, 3) \in Frames
  BY RequestType, VarTypes, ConstType, KallocAssumption
<1>3. f \in Frames /\ f.ret = "init" /\ f.pc = "scan"
  <2>1. /\ Request("init", 0, PageSize, 0, 3).ret = "init"
        /\ Request("init", 0, PageSize, 0, 3).pc = "scan"
    BY DEF Request, NoFrame
  <2>2. MemStart \in Uint32
    BY ConstType
  <2> QED BY <1>2, <2>1, <2>2 DEF Frames
<1> HIDE DEF f
<1>4. frame' \in [Levels -> Frames] /\ depth' \in 0 .. 4 /\ Nesting'
  BY <1>1, <1>3, PushStep
<1>5. [size |-> Total, used |-> 0, next |-> NULL] \in Blocks
  BY ConstType DEF Blocks
<1>6. node' \in [Uint32 -> Blocks] /\ pos' \in [Uint32 -> Uint32 \cup {Off}]
  BY <1>1, <1>5, VarTypes, ConstType
<1> QED BY <1>1, <1>4, <1>6, VarTypes, ConstType DEF TypeInv, TypeOK, Blocks

LEMMA KmarkunusableType ==
  ASSUME TypeInv, NEW r \in Reserved, Kmarkunusable(r) PROVE TypeInv'
<1> DEFINE f == [Request("boot", 0, r.len, 0, 2) EXCEPT
             !.pc = "mark", !.target = r.ptr, !.cut_to = Plus(r.ptr, r.len)]
<1>1. /\ depth = 0 /\ unmarked' = unmarked \ {r} /\ Push(f)
      /\ UNCHANGED <<node, allocator_map, free_blocks, bump, ledger, held, pos>>
  BY DEF Kmarkunusable
<1>2. r.ptr \in Uint32 /\ r.len \in Uint32 /\ Plus(r.ptr, r.len) \in Uint32
  BY ConstType, ArithType
<1>3. Request("boot", 0, r.len, 0, 2) \in Frames
  BY <1>2, RequestType, VarTypes, ConstType, KallocAssumption
<1>4. f \in Frames /\ f.ret = "boot" /\ f.pc = "mark"
  BY <1>2, <1>3, ZenonT(60) DEF Frames, Request, NoFrame
<1> HIDE DEF f
<1>5. frame' \in [Levels -> Frames] /\ depth' \in 0 .. 4 /\ Nesting'
  BY <1>1, <1>4, PushStep
<1> QED BY <1>1, <1>5, VarTypes DEF TypeInv, TypeOK, Blocks, bump, ledger

LEMMA KamallocType ==
  ASSUME TypeInv, NEW n \in Sizes, NEW a \in Aligns, Kamalloc(n, a) PROVE TypeInv'
<1>1. PICK i \in Ids : depth = 0 /\ UNCHANGED memory
                       /\ Push(Request("client", i, n, a, 1))
  BY DEF Kamalloc, Call
<1> DEFINE f == Request("client", i, n, a, 1)
<1>2. f \in Frames
  BY RequestType, VarTypes, ConstType, KallocAssumption DEF Ids
<1>3. f.ret = "client" /\ f.pc = "scan"
  BY DEF Request, NoFrame
<1> HIDE DEF f
<1> QED BY <1>1, <1>2, <1>3, PushStep, SameMemory DEF f

(* Every step but the allocation of an interrupt handler.                  *)
LEMMA TypeStep ==
  ASSUME TypeInv, allocator_map = NULL => depth = 0, [Next]_vars,
         ~ \E n \in IsrSizes : Interrupt(n)
  PROVE  TypeInv' /\ (allocator_map = NULL => depth = 0)'
<1>1. TypeInv'
  <2>1. CASE UNCHANGED vars
    <3>1. UNCHANGED memory /\ frame' = frame /\ depth' = depth
      BY <2>1 DEF vars
    <3>2. page_depletion' = page_depletion
      BY <3>1, MemSame
    <3> QED BY <3>1, <3>2, SameMemory DEF TypeInv, TypeOK, Nesting
  <2> QED BY <2>1, InitKallocatorType, KmarkunusableType, KamallocType, FreeType,
             FreeNullType, RunType DEF Next, InitKallocator
<1>2. (allocator_map = NULL => depth = 0)'
  <2>1. CASE allocator_map # NULL
    <3>1. allocator_map' = allocator_map \/ allocator_map' = MemStart
      BY MemSame, ZenonT(60) DEF Next, vars, memory, InitKallocator, Kmarkunusable, Kamalloc,
         Call, Free, FreeNull, Kfree, Run, Search, Cut, FreeIt, MarkIt, Occupied,
         FirstFree, Housekeep, PassOver, Choose, OutOfMemory, TakeFree, Carve, Grow,
         InsertRight, InsertLeft, Claim, FindNext, FindMiss, FreeFound, Merge,
         FreeDone, MarkSkip, MarkTaken, MarkCut, MarkClose, MarkNext, MarkDone
    <3> QED BY <2>1, <3>1, KallocAssumption DEF NULL
  <2>2. CASE allocator_map = NULL
    <3>1. depth = 0
      BY <2>2
    <3>2. ~ Run
      BY <3>1 DEF Run, Search, Cut, FreeIt, MarkIt, Occupied, FirstFree, Housekeep,
         PassOver, Choose, OutOfMemory, TakeFree, Carve, Grow, InsertRight,
         InsertLeft, Claim, FindNext, FindMiss, FreeFound, Merge, FreeDone, MarkSkip,
         MarkTaken, MarkCut, MarkClose, MarkNext, MarkDone, At
    <3>3. InitKallocator \/ UNCHANGED vars
      BY <2>2, <3>2 DEF Next, Kmarkunusable, Kamalloc, Booted, Free, FreeNull, Kfree
    <3> QED BY <2>2, <3>1, <3>3, ConstType, KallocAssumption, MemSame
            DEF InitKallocator, vars, NULL
  <2> QED BY <2>1, <2>2
<1> QED BY <1>1, <1>2

LEMMA TypeInit ==
  ASSUME Init PROVE TypeInv /\ (allocator_map = NULL => depth = 0)
<1>1. /\ ZeroBlock \in Blocks /\ NoFrame \in Frames
      /\ NoExtent \in [ptr : Uint32, len : Uint32, align : Uint32]
  BY ConstType, NoFrameType DEF ZeroBlock, NoExtent, Blocks
<1> QED BY <1>1, ConstType DEF Init, TypeInv, TypeOK, Nesting, Blocks

LEMMA TypesHold ==
  ASSUME IsrSizes = {}
  PROVE  Spec => [](TypeInv /\ (allocator_map = NULL => depth = 0))
<1>1. Init => TypeInv /\ (allocator_map = NULL => depth = 0)
  BY TypeInit
<1>2. TypeInv /\ (allocator_map = NULL => depth = 0) /\ [Next]_vars
        => (TypeInv /\ (allocator_map = NULL => depth = 0))'
  BY TypeStep
<1> QED BY <1>1, <1>2, PTL DEF Spec

(* Every variable keeps its C type, if handlers do not allocate.           *)
THEOREM Typing ==
  ASSUME IsrSizes = {}
  PROVE  Spec => []TypeOK
<1>1. TypeInv => TypeOK
  BY DEF TypeInv
<1> QED BY <1>1, TypesHold, PTL

(* The allocation that grows the table of structs never has to grow it     *)
(* again: mkblock and kmalloc do not recurse without end.                  *)
THEOREM NestsOnce ==
  ASSUME IsrSizes = {}
  PROVE  Spec => []GrowthNestsOnce
<1>1. TypeInv => GrowthNestsOnce
  <2> SUFFICES ASSUME TypeInv PROVE GrowthNestsOnce
    OBVIOUS
  <2>1. depth = 0 \/ (depth \in {1, 2} /\ frame[1].ret # "mkblock")
    BY DEF TypeInv, Nesting
  <2>2. \A k \in 2 .. depth : depth = 2 /\ k = 2
    BY <2>1
  <2> QED BY <2>1, <2>2 DEF GrowthNestsOnce
<1> QED BY <1>1, TypesHold, PTL

-----------------------------------------------------------------------------
(* Structs taken from a page are counted: while kmalloc is called for the  *)
(* next page, the old one has had all of its structs taken, and one more.  *)
Taken == Minus(next_memblock_addr, page)
BumpInv ==
  allocator_map # NULL =>
    IF depth = 2 THEN Taken <= MEMBLOCKS_PER_PAGE + page_depletion ELSE Taken <= page_depletion

LEMMA OneMoreTaken ==
  ASSUME NEW n \in Uint32, NEW p \in Uint32
  PROVE  /\ Minus(Plus(n, 1), p) <= Minus(n, p) + 1 /\ Minus(n, n) = 0
         /\ Minus(n, p) \in Nat
  BY KallocAssumption DEF Uint32, Plus, Minus

(* The steps that take no struct and neither start nor end a growth.       *)
LEMMA BumpSame ==
  ASSUME BumpInv, UNCHANGED bump, (depth' = 2) <=> (depth = 2),
         allocator_map' # NULL => allocator_map # NULL
  PROVE  BumpInv'
<1>1. Taken' = Taken /\ page_depletion' = page_depletion
  BY DEF bump, Taken
<1> QED BY <1>1 DEF BumpInv

LEMMA OnlyOneReturns ==
  ASSUME TypeInv, depth > 0, Top.ret # "mkblock"
  PROVE  depth = 1
  BY TopType DEF TypeInv, Nesting, GrowthFrame

LEMMA BumpReturn ==
  ASSUME TypeInv, BumpInv, depth > 0, NEW r \in Uint32, Return(r), allocator_map' = allocator_map
  PROVE  BumpInv'
<1>1. CASE Top.ret = "mkblock"
  <2>1. next_memblock_addr' = r /\ page' = r /\ depth' = depth - 1 /\ page_depletion' = page_depletion
    BY <1>1 DEF Return
  <2>2. depth = 2
    BY <1>1, TopType DEF TypeInv, Nesting
  <2>3. Taken' = 0 /\ page_depletion \in Nat
    BY <2>1, OneMoreTaken, VarTypes, ConstType DEF Taken
  <2> QED BY <2>1, <2>2, <2>3 DEF BumpInv
<1>2. CASE Top.ret # "mkblock"
  <2>1. Pop /\ UNCHANGED bump
    BY <1>2 DEF Return
  <2>2. depth = 1 /\ depth' = 0
    BY <1>2, <2>1, TopType, OnlyOneReturns DEF Pop
  <2> QED BY <2>1, <2>2, BumpSame
<1> QED BY <1>1, <1>2

LEMMA BumpCarve ==
  ASSUME TypeInv, BumpInv, Carve PROVE BumpInv'
<1>1. /\ next_memblock_addr' = Plus(next_memblock_addr, 1) /\ page' = page
      /\ page_depletion' = page_depletion + 1 /\ allocator_map' = allocator_map /\ depth' = depth
  BY DEF Carve, Continue
<1>2. Taken' <= Taken + 1 /\ Taken \in Nat /\ Taken' \in Nat
  <2>1. next_memblock_addr' \in Uint32
    BY <1>1, VarTypes, ArithType, ConstType
  <2> QED BY <1>1, <2>1, VarTypes, OneMoreTaken DEF Taken
<1>3. page_depletion \in Nat /\ MEMBLOCKS_PER_PAGE \in Nat
  BY VarTypes, ConstType
<1> QED BY <1>1, <1>2, <1>3 DEF BumpInv

LEMMA BumpGrow ==
  ASSUME TypeInv, BumpInv, Grow PROVE BumpInv'
<1>1. /\ depth > 0 /\ Top.pc = "cut" /\ Pending /\ depth' = depth + 1
      /\ page_depletion = MEMBLOCKS_PER_PAGE /\ page_depletion' = 0
      /\ next_memblock_addr' = next_memblock_addr /\ page' = page /\ allocator_map' = allocator_map
  BY DEF Grow, At, TableFull, Push
<1>2. depth = 1
  BY <1>1, GrowthTop, TopType, ConstType DEF GrowthFrame
<1>3. Taken' = Taken /\ MEMBLOCKS_PER_PAGE \in Nat
  BY <1>1, ConstType DEF Taken
<1> QED BY <1>1, <1>2, <1>3 DEF BumpInv

LEMMA BumpStep ==
  ASSUME TypeInv, allocator_map = NULL => depth = 0, BumpInv, [Next]_vars,
         ~ \E n \in IsrSizes : Interrupt(n)
  PROVE  BumpInv'
<1>1. CASE InitKallocator
  <2>1. /\ next_memblock_addr' = MemStart + 1 /\ page' = MemStart /\ page_depletion' = 1
        /\ depth' = depth + 1 /\ allocator_map = NULL
    BY <1>1 DEF InitKallocator, Push
  <2>2. depth' = 1 /\ Taken' = 1
    BY <2>1, KallocAssumption DEF Taken, Minus
  <2> QED BY <2>1, <2>2 DEF BumpInv
<1>2. CASE \/ \E r \in Reserved : Kmarkunusable(r)
           \/ \E n \in Sizes, a \in Aligns : Kamalloc(n, a)
           \/ \E i \in Ids : Free(i)
           \/ FreeNull
  <2>1. \A f : Push(f) => depth' = depth + 1
    BY DEF Push
  <2>2. ASSUME NEW r \in Reserved, Kmarkunusable(r)
        PROVE  UNCHANGED bump /\ depth = 0 /\ depth' = depth + 1 /\ allocator_map' = allocator_map
    BY <2>1, <2>2, Zenon DEF Kmarkunusable
  <2>3. ASSUME NEW n \in Sizes, NEW a \in Aligns, Kamalloc(n, a)
        PROVE  UNCHANGED bump /\ depth = 0 /\ depth' = depth + 1 /\ allocator_map' = allocator_map
    BY <2>1, <2>3, MemSame DEF Kamalloc, Call, memory
  <2>4. ASSUME NEW ptr, Kfree(ptr)
        PROVE  UNCHANGED bump /\ depth = 0 /\ depth' = depth + 1 /\ allocator_map' = allocator_map
    BY <2>1, <2>4, Zenon DEF Kfree
  <2>5. UNCHANGED bump /\ depth = 0 /\ depth' = depth + 1 /\ allocator_map' = allocator_map
    BY <1>2, <2>2, <2>3, <2>4 DEF Free, FreeNull
  <2> QED BY <2>5, BumpSame
<1>3. CASE UNCHANGED vars
  BY <1>3, BumpSame DEF vars, memory
<1>4. CASE Search
  <2>1. CASE OutOfMemory
    BY <2>1, BumpReturn, ConstType DEF OutOfMemory, At
  <2>2. CASE Occupied \/ FirstFree \/ Housekeep \/ PassOver \/ Choose
    <3>1. UNCHANGED bump /\ depth' = depth /\ allocator_map' = allocator_map
      BY <2>2 DEF Occupied, FirstFree, Housekeep, PassOver, Choose, Continue, Advance, memory
    <3> QED BY <3>1, BumpSame
  <2> QED BY <1>4, <2>1, <2>2 DEF Search
<1>5. CASE Cut
  <2>1. CASE Claim
    <3>1. depth > 0 /\ Return(Top.result) /\ allocator_map' = allocator_map
      BY <2>1 DEF Claim, At
    <3>2. Top.result \in Uint32
      BY <3>1, TopType DEF Frames
    <3> QED BY <3>1, <3>2, BumpReturn
  <2>2. CASE TakeFree \/ InsertRight \/ InsertLeft
    <3>1. UNCHANGED bump /\ depth' = depth /\ allocator_map' = allocator_map
      BY <2>2 DEF TakeFree, InsertRight, InsertLeft, Continue
    <3> QED BY <3>1, BumpSame
  <2> QED BY <1>5, <2>1, <2>2, BumpCarve, BumpGrow DEF Cut
<1>6. CASE FreeIt
  <2>1. CASE FindMiss \/ FreeDone
    <3>1. UNCHANGED bump /\ depth > 0 /\ depth' = depth - 1 /\ allocator_map' = allocator_map
          /\ Top.pc \in {"find", "merge"}
      BY <2>1 DEF FindMiss, FreeDone, Pop, At, memory
    <3>2. depth = 1
      BY <3>1, OnlyGrowthNests
    <3> QED BY <3>1, <3>2, BumpSame
  <2>2. CASE FindNext \/ FreeFound \/ Merge
    <3>1. UNCHANGED bump /\ depth' = depth /\ allocator_map' = allocator_map
      BY <2>2 DEF FindNext, FreeFound, Merge, Continue, Advance, memory
    <3> QED BY <3>1, BumpSame
  <2> QED BY <1>6, <2>1, <2>2 DEF FreeIt
<1>7. CASE MarkIt
  <2>1. CASE MarkDone
    <3>1. UNCHANGED bump /\ depth > 0 /\ depth' = depth - 1 /\ allocator_map' = allocator_map
          /\ Top.pc \in {"mark", "marked"}
      BY <2>1 DEF MarkDone, Pop, At, memory
    <3>2. depth = 1
      BY <3>1, OnlyGrowthNests
    <3> QED BY <3>1, <3>2, BumpSame
  <2>2. CASE MarkSkip \/ MarkTaken \/ MarkCut \/ MarkClose \/ MarkNext
    <3>1. UNCHANGED bump /\ depth' = depth /\ allocator_map' = allocator_map
      BY <2>2 DEF MarkSkip, MarkTaken, MarkCut, MarkClose, MarkNext, Continue, Advance, memory, bump
    <3> QED BY <3>1, BumpSame
  <2> QED BY <1>7, <2>1, <2>2 DEF MarkIt
<1> QED BY <1>1, <1>2, <1>3, <1>4, <1>5, <1>6, <1>7 DEF Next, Run

(* Structs are taken from inside the page kmalloc gave for them, however   *)
(* often the table grows, if handlers do not allocate and as long as       *)
(* kmalloc has a page to give: with none the page is NULL, and so is the   *)
(* first struct.                                                           *)
THEOREM InPage ==
  ASSUME IsrSizes = {}
  PROVE  Spec => []BumpInPage
<1>1. Init => BumpInv
  BY DEF Init, BumpInv
<1>2. TypeInv /\ (allocator_map = NULL => depth = 0) /\ BumpInv /\ [Next]_vars => BumpInv'
  BY BumpStep
<1>3. TypeInv /\ BumpInv => BumpInPage
  <2> SUFFICES ASSUME TypeInv, BumpInv, allocator_map # NULL PROVE Taken <= PageSize
    BY DEF BumpInPage, Taken
  <2>1. depth = 2 => page_depletion <= 1
    BY GrowthTop DEF GrowthFrame
  <2>2. page_depletion \in 0 .. MEMBLOCKS_PER_PAGE /\ Taken \in Nat
    BY VarTypes, OneMoreTaken DEF Taken
  <2> QED BY <2>1, <2>2, KallocAssumption DEF BumpInv
<1> QED BY <1>1, <1>2, <1>3, TypesHold, PTL DEF Spec

-----------------------------------------------------------------------------
(* Tilings.  p gives the start of each listed block, e its extent, n the   *)
(* block after it; structs lie below top.                                  *)

Starts  == [Uint32 -> Nat \cup {Off}]
Extents == [Uint32 -> Nat]
Nexts   == [Uint32 -> Uint32]

Tiled(p, e, n, top) ==
  \A b \in Uint32 : p[b] # Off =>
    /\ MemStart <= b /\ b < top
    /\ e[b] > 0 /\ p[b] + e[b] <= Total
    /\ n[b] = NULL => p[b] + e[b] = Total
    /\ n[b] # NULL => p[n[b]] = p[b] + e[b]
    /\ \A c \in Uint32 \ {b} : p[c] # Off => Clear(p[b], e[b], p[c], e[c])

LEMMA ViewTypes ==
  ASSUME NEW p \in Starts, NEW e \in Extents, NEW n \in Nexts, NEW a \in Uint32
  PROVE  p[a] \in Nat \cup {Off} /\ e[a] \in Nat /\ n[a] \in Uint32 /\ a \in Nat
<1>1. a \in Nat
  BY DEF Uint32
<1> QED BY <1>1 DEF Starts, Extents, Nexts

LEMMA TiledOne ==
  ASSUME NEW p, NEW e, NEW n, NEW top, Tiled(p, e, n, top),
         NEW b \in Uint32, p[b] # Off
  PROVE  /\ MemStart <= b /\ b < top
         /\ e[b] > 0 /\ p[b] + e[b] <= Total
         /\ n[b] = NULL => p[b] + e[b] = Total
         /\ n[b] # NULL => p[n[b]] = p[b] + e[b]
  BY DEF Tiled

LEMMA TiledPair ==
  ASSUME NEW p, NEW e, NEW n, NEW top, Tiled(p, e, n, top),
         NEW b \in Uint32, NEW c \in Uint32, b # c, p[b] # Off, p[c] # Off
  PROVE  Clear(p[b], e[b], p[c], e[c])
  BY DEF Tiled

(* Positions of different blocks differ, and at most one block is before   *)
(* another.                                                                *)
LEMMA OneBlockAt ==
  ASSUME NEW p \in Starts, NEW e \in Extents, NEW n \in Nexts, NEW top,
         Tiled(p, e, n, top), NEW b \in Uint32, NEW c \in Uint32, p[b] # Off
  PROVE  /\ p[c] = p[b] => c = b
         /\ p[c] # Off /\ n[b] # NULL /\ n[c] = n[b] => c = b
         /\ n[b] # NULL => p[n[b]] # Off /\ p[n[b]] > p[b] /\ n[b] # b
<1>1. p[b] \in Nat /\ p[c] \in Nat \cup {Off} /\ e[b] \in Nat /\ e[c] \in Nat
  BY ViewTypes
<1>2. e[b] > 0 /\ (n[b] # NULL => p[n[b]] = p[b] + e[b])
  BY TiledOne
<1>3. ASSUME p[c] # Off, c # b
      PROVE  /\ Clear(p[b], e[b], p[c], e[c]) /\ e[c] > 0
             /\ n[c] # NULL => p[n[c]] = p[c] + e[c]
  BY <1>3, TiledOne, TiledPair
<1>4. p[c] = p[b] => c = b
  BY <1>1, <1>2, <1>3 DEF Clear, Off
<1>5. p[c] # Off /\ n[b] # NULL /\ n[c] = n[b] => c = b
  BY <1>1, <1>2, <1>3 DEF Clear, Off
<1>6. n[b] # NULL => p[n[b]] # Off /\ p[n[b]] > p[b] /\ n[b] # b
  BY <1>1, <1>2 DEF Off
<1> QED BY <1>4, <1>5, <1>6

(* A new struct gets the last y of the x + y of block b.                   *)
LEMMA SplitRight ==
  ASSUME NEW p \in Starts, NEW e \in Extents, NEW n \in Nexts, NEW top \in Nat,
         NEW p2 \in Starts, NEW e2 \in Extents, NEW n2 \in Nexts,
         Tiled(p, e, n, top),
         NEW b \in Uint32, NEW new \in Uint32, NEW x \in Nat, NEW y \in Nat,
         p[b] # Off, p[new] = Off, MemStart <= new, new < top, new # NULL,
         x > 0, y > 0, e[b] = x + y,
         p2[new] = p[b] + x, e2[new] = y, n2[new] = n[b],
         p2[b] = p[b], e2[b] = x, n2[b] = new,
         \A a \in Uint32 : a # b /\ a # new =>
           p2[a] = p[a] /\ e2[a] = e[a] /\ n2[a] = n[a]
  PROVE  Tiled(p2, e2, n2, top)
<1>1. b # new /\ p[b] \in Nat
  BY ViewTypes
<1>2. \A a \in Uint32 \ {b, new} : p2[a] = p[a] /\ e2[a] = e[a] /\ n2[a] = n[a]
  OBVIOUS
<1>3. \A a \in Uint32 : p[a] \in Nat \cup {Off} /\ e[a] \in Nat /\ n[a] \in Uint32
  BY ViewTypes
<1>4. /\ MemStart <= b /\ b < top /\ p[b] + e[b] <= Total
      /\ n[b] = NULL => p[b] + e[b] = Total
      /\ n[b] # NULL => p[n[b]] = p[b] + e[b]
  BY TiledOne
<1>5. Total \in Nat /\ Off = -1
  BY KallocAssumption DEF Off
<1>6. ASSUME NEW a \in Uint32, NEW c \in Uint32 \ {a}, p2[a] # Off, p2[c] # Off
      PROVE  Clear(p2[a], e2[a], p2[c], e2[c])
  <2>1. ASSUME NEW d \in Uint32 \ {b, new}, p[d] # Off
        PROVE  /\ Clear(p2[b], e2[b], p2[d], e2[d])
               /\ Clear(p2[new], e2[new], p2[d], e2[d])
               /\ Clear(p2[d], e2[d], p2[b], e2[b])
               /\ Clear(p2[d], e2[d], p2[new], e2[new])
    <3>1. Clear(p[b], e[b], p[d], e[d])
      BY <2>1, TiledPair
    <3>2. p[d] \in Nat /\ e[d] \in Nat /\ p2[d] = p[d] /\ e2[d] = e[d]
      BY <2>1, <1>2, <1>3
    <3>3. /\ p[b] + e[b] <= p[d] \/ p[d] + e[d] <= p[b]
      BY <3>1 DEF Clear
    <3> QED BY <3>2, <3>3, <1>1 DEF Clear
  <2>2. Clear(p2[b], e2[b], p2[new], e2[new]) /\ Clear(p2[new], e2[new], p2[b], e2[b])
    BY <1>1, <1>2 DEF Clear
  <2>3. CASE a \notin {b, new} /\ c \notin {b, new}
    <3>1. p[a] # Off /\ p[c] # Off /\ c # a
      BY <1>2, <1>6, <2>3
    <3>2. Clear(p[a], e[a], p[c], e[c])
      BY <3>1, TiledPair
    <3> QED BY <1>2, <2>3, <3>2
  <2>4. CASE a \notin {b, new} /\ c \in {b, new}
    <3>1. p[a] # Off
      BY <1>2, <1>6, <2>4
    <3> QED BY <2>1, <2>4, <3>1
  <2>5. CASE a \in {b, new} /\ c \notin {b, new}
    <3>1. p[c] # Off
      BY <1>2, <1>6, <2>5
    <3> QED BY <2>1, <2>5, <3>1
  <2>6. CASE a \in {b, new} /\ c \in {b, new}
    BY <1>6, <2>2, <2>6
  <2> QED BY <2>3, <2>4, <2>5, <2>6
<1>7. ASSUME NEW a \in Uint32, p2[a] # Off
      PROVE  /\ MemStart <= a /\ a < top
             /\ e2[a] > 0 /\ p2[a] + e2[a] <= Total
             /\ n2[a] = NULL => p2[a] + e2[a] = Total
             /\ n2[a] # NULL => p2[n2[a]] = p2[a] + e2[a]
  <2>1. CASE a = b
    BY <1>1, <1>2, <1>3, <1>4, <1>5, <2>1
  <2>2. CASE a = new
    <3>1. n[b] # NULL => n[b] # new /\ p2[n[b]] = p[n[b]]
      <4>1. n[b] # NULL => p[n[b]] # Off /\ n[b] # b
        BY OneBlockAt
      <4> QED BY <4>1, <1>2, <1>3
    <3> QED BY <1>1, <1>2, <1>3, <1>4, <1>5, <2>2, <3>1
  <2>3. CASE a \notin {b, new}
    <3>1. p[a] # Off /\ p2[a] = p[a] /\ e2[a] = e[a] /\ n2[a] = n[a]
      BY <1>2, <1>7, <2>3
    <3>2. n[a] # NULL => p2[n[a]] = p[n[a]]
      <4>1. n[a] # NULL => p[n[a]] # Off
        BY <3>1, OneBlockAt
      <4> QED BY <4>1, <1>2, <1>3
    <3> QED BY <3>1, <3>2, TiledOne
  <2> QED BY <2>1, <2>2, <2>3
<1> QED BY <1>6, <1>7 DEF Tiled

(* A new struct gets the first x of the x + y of block b.                  *)
LEMMA SplitLeft ==
  ASSUME NEW p \in Starts, NEW e \in Extents, NEW n \in Nexts, NEW top \in Nat,
         NEW p2 \in Starts, NEW e2 \in Extents, NEW n2 \in Nexts,
         Tiled(p, e, n, top),
         NEW b \in Uint32, NEW new \in Uint32, NEW prev \in Uint32,
         NEW x \in Nat, NEW y \in Nat, b # NULL,
         p[b] # Off, p[new] = Off, MemStart <= new, new < top, new # NULL,
         p[prev] # Off, n[prev] = b,
         x > 0, y > 0, e[b] = x + y,
         p2[new] = p[b], e2[new] = x, n2[new] = b,
         p2[b] = p[b] + x, e2[b] = y, n2[b] = n[b], n2[prev] = new,
         \A a \in Uint32 : a # b /\ a # new => p2[a] = p[a] /\ e2[a] = e[a],
         \A a \in Uint32 : a # new /\ a # prev => n2[a] = n[a]
  PROVE  Tiled(p2, e2, n2, top)
<1>1. b # new /\ p[b] \in Nat /\ prev # new /\ prev # b
  <2>1. prev # b
    BY OneBlockAt
  <2> QED BY <2>1, ViewTypes
<1>2. /\ \A a \in Uint32 \ {b, new} : p2[a] = p[a] /\ e2[a] = e[a]
      /\ \A a \in Uint32 \ {prev, new} : n2[a] = n[a]
  OBVIOUS
<1>3. \A a \in Uint32 : p[a] \in Nat \cup {Off} /\ e[a] \in Nat /\ n[a] \in Uint32
  BY ViewTypes
<1>4. /\ MemStart <= b /\ b < top /\ p[b] + e[b] <= Total
      /\ n[b] = NULL => p[b] + e[b] = Total
      /\ n[b] # NULL => p[n[b]] = p[b] + e[b]
  BY TiledOne
<1>5. Total \in Nat /\ Off = -1
  BY KallocAssumption DEF Off
<1>6. ASSUME NEW a \in Uint32, NEW c \in Uint32 \ {a}, p2[a] # Off, p2[c] # Off
      PROVE  Clear(p2[a], e2[a], p2[c], e2[c])
  <2>1. ASSUME NEW d \in Uint32 \ {b, new}, p[d] # Off
        PROVE  /\ Clear(p2[b], e2[b], p2[d], e2[d])
               /\ Clear(p2[new], e2[new], p2[d], e2[d])
               /\ Clear(p2[d], e2[d], p2[b], e2[b])
               /\ Clear(p2[d], e2[d], p2[new], e2[new])
    <3>1. Clear(p[b], e[b], p[d], e[d])
      BY <2>1, TiledPair
    <3>2. p[d] \in Nat /\ e[d] \in Nat /\ p2[d] = p[d] /\ e2[d] = e[d]
      BY <2>1, <1>2, <1>3
    <3>3. /\ p[b] + e[b] <= p[d] \/ p[d] + e[d] <= p[b]
      BY <3>1 DEF Clear
    <3> QED BY <3>2, <3>3, <1>1 DEF Clear
  <2>2. Clear(p2[b], e2[b], p2[new], e2[new]) /\ Clear(p2[new], e2[new], p2[b], e2[b])
    BY <1>1, <1>2 DEF Clear
  <2>3. CASE a \notin {b, new} /\ c \notin {b, new}
    <3>1. p[a] # Off /\ p[c] # Off /\ c # a
      BY <1>2, <1>6, <2>3
    <3>2. Clear(p[a], e[a], p[c], e[c])
      BY <3>1, TiledPair
    <3> QED BY <1>2, <2>3, <3>2
  <2>4. CASE a \notin {b, new} /\ c \in {b, new}
    <3>1. p[a] # Off
      BY <1>2, <1>6, <2>4
    <3> QED BY <2>1, <2>4, <3>1
  <2>5. CASE a \in {b, new} /\ c \notin {b, new}
    <3>1. p[c] # Off
      BY <1>2, <1>6, <2>5
    <3> QED BY <2>1, <2>5, <3>1
  <2>6. CASE a \in {b, new} /\ c \in {b, new}
    BY <1>6, <2>2, <2>6
  <2> QED BY <2>3, <2>4, <2>5, <2>6
<1>7. ASSUME NEW a \in Uint32, p2[a] # Off
      PROVE  /\ MemStart <= a /\ a < top
             /\ e2[a] > 0 /\ p2[a] + e2[a] <= Total
             /\ n2[a] = NULL => p2[a] + e2[a] = Total
             /\ n2[a] # NULL => p2[n2[a]] = p2[a] + e2[a]
  <2>1. CASE a = b
    <3>1. n[b] # NULL => p2[n[b]] = p[n[b]]
      <4>1. n[b] # NULL => p[n[b]] # Off /\ n[b] # b
        BY OneBlockAt
      <4> QED BY <4>1, <1>2, <1>3
    <3> QED BY <1>1, <1>2, <1>3, <1>4, <1>5, <2>1, <3>1
  <2>2. CASE a = new
    BY <1>1, <1>2, <1>3, <1>4, <1>5, <2>2
  <2>3. CASE a = prev
    <3>1. /\ MemStart <= prev /\ prev < top /\ e[prev] > 0 /\ p[prev] + e[prev] <= Total
          /\ p[b] = p[prev] + e[prev]
      BY TiledOne
    <3> QED BY <1>1, <1>2, <2>3, <3>1
  <2>4. CASE a \notin {b, new, prev}
    <3>1. p[a] # Off /\ p2[a] = p[a] /\ e2[a] = e[a] /\ n2[a] = n[a]
      BY <1>2, <1>7, <2>4
    <3>2. n[a] # NULL => p2[n[a]] = p[n[a]]
      <4>1. n[a] # NULL => p[n[a]] # Off
        BY <3>1, OneBlockAt
      <4>2. n[a] # b
        BY <2>4, <3>1, OneBlockAt
      <4> QED BY <4>1, <4>2, <1>2, <1>3
    <3> QED BY <3>1, <3>2, TiledOne
  <2> QED BY <2>1, <2>2, <2>3, <2>4
<1> QED BY <1>6, <1>7 DEF Tiled

(* Block b takes in the block c after it.                                  *)
LEMMA Join ==
  ASSUME NEW p \in Starts, NEW e \in Extents, NEW n \in Nexts, NEW top \in Nat,
         NEW p2 \in Starts, NEW e2 \in Extents, NEW n2 \in Nexts,
         Tiled(p, e, n, top),
         NEW b \in Uint32, NEW c \in Uint32, c # NULL, p[b] # Off, n[b] = c,
         p2[c] = Off, \A a \in Uint32 : a # c => p2[a] = p[a],
         e2[b] = e[b] + e[c], n2[b] = n[c],
         \A a \in Uint32 : a # b /\ a # c => e2[a] = e[a] /\ n2[a] = n[a]
  PROVE  Tiled(p2, e2, n2, top)
<1>1. b # c /\ p[c] # Off /\ p[c] = p[b] + e[b] /\ p[c] > p[b]
  BY OneBlockAt, TiledOne
<1>2. \A a \in Uint32 \ {c} : p2[a] = p[a]
  OBVIOUS
<1>3. \A a \in Uint32 : p[a] \in Nat \cup {Off} /\ e[a] \in Nat /\ n[a] \in Uint32
  BY ViewTypes
<1>4. /\ MemStart <= b /\ b < top /\ e[b] > 0 /\ e[c] > 0 /\ p[c] + e[c] <= Total
      /\ n[c] = NULL => p[c] + e[c] = Total
      /\ n[c] # NULL => p[n[c]] = p[c] + e[c]
  BY <1>1, TiledOne
<1>5. Total \in Nat /\ Off = -1
  BY KallocAssumption DEF Off
<1>6. ASSUME NEW d \in Uint32 \ {b, c}, p[d] # Off
      PROVE  Clear(p2[b], e2[b], p2[d], e2[d]) /\ Clear(p2[d], e2[d], p2[b], e2[b])
  <2>1. /\ Clear(p[b], e[b], p[d], e[d]) /\ Clear(p[c], e[c], p[d], e[d])
        /\ e[d] > 0
    BY <1>1, <1>6, TiledOne, TiledPair
  <2>2. p[d] \in Nat /\ p[b] \in Nat
    BY <1>3, <1>6
  <2>3. /\ p2[b] = p[b] /\ p2[d] = p[d] /\ e2[d] = e[d] /\ e2[b] = e[b] + e[c]
    BY <1>1, <1>2, <1>6
  <2> QED BY <1>1, <1>3, <2>1, <2>2, <2>3 DEF Clear
<1>7. ASSUME NEW a \in Uint32, NEW d \in Uint32 \ {a}, p2[a] # Off, p2[d] # Off
      PROVE  Clear(p2[a], e2[a], p2[d], e2[d])
  <2>1. a # c /\ d # c /\ p2[a] = p[a] /\ p2[d] = p[d]
    BY <1>2, <1>7
  <2>2. CASE a = b \/ d = b
    BY <1>6, <1>7, <2>1, <2>2
  <2>3. CASE a # b /\ d # b
    BY <1>7, <2>1, <2>3, TiledPair
  <2> QED BY <2>2, <2>3
<1>8. ASSUME NEW a \in Uint32, p2[a] # Off
      PROVE  /\ MemStart <= a /\ a < top
             /\ e2[a] > 0 /\ p2[a] + e2[a] <= Total
             /\ n2[a] = NULL => p2[a] + e2[a] = Total
             /\ n2[a] # NULL => p2[n2[a]] = p2[a] + e2[a]
  <2>1. a # c /\ p2[a] = p[a] /\ p[a] # Off
    BY <1>2, <1>8
  <2>2. CASE a = b
    <3>1. n[c] # NULL => p2[n[c]] = p[n[c]]
      <4>1. n[c] # NULL => n[c] # c
        BY <1>1, OneBlockAt
      <4> QED BY <4>1, <1>2, <1>3
    <3> QED BY <1>1, <1>2, <1>3, <1>4, <1>5, <2>1, <2>2, <3>1
  <2>3. CASE a # b
    <3>1. n[a] # NULL => p2[n[a]] = p[n[a]]
      <4>1. n[a] # c
        BY <2>1, <2>3, OneBlockAt
      <4> QED BY <4>1, <1>2, <1>3
    <3> QED BY <2>1, <2>3, <3>1, TiledOne
  <2> QED BY <2>2, <2>3
<1> QED BY <1>7, <1>8 DEF Tiled

-----------------------------------------------------------------------------
(* The chain of spare structs S, linked by n from h: each is reached from  *)
(* at most one place.                                                      *)
Chain(S, n, h) ==
  /\ h # NULL => h \in S
  /\ \A b \in S : n[b] # NULL =>
       /\ n[b] \in S /\ n[b] # h
       /\ \A c \in S \ {b} : n[c] # n[b]

LEMMA ChainPop ==
  ASSUME NEW S, NEW n, NEW h, Chain(S, n, h), h # NULL
  PROVE  Chain(S \ {h}, n, n[h])
  BY DEF Chain

LEMMA ChainPush ==
  ASSUME NEW S, NEW n, NEW h, Chain(S, n, h), NEW c, c \notin S, c # NULL,
         NEW n2, n2[c] = h, \A b \in S : n2[b] = n[b]
  PROVE  Chain(S \cup {c}, n2, c)
  BY DEF Chain

LEMMA ChainSame ==
  ASSUME NEW S, NEW n, NEW h, Chain(S, n, h), NEW n2, \A b \in S : n2[b] = n[b]
  PROVE  Chain(S, n2, h)
  BY DEF Chain

-----------------------------------------------------------------------------
(* The inductive invariant of Safety, about the only call there can be.    *)

Call1   == frame[1]
In(pcs) == depth = 1 /\ Call1.pc \in pcs
Cuts    == {"cut", "carve", "insert"}
Initing == depth = 1 /\ Call1.ret = "init"

Ext    == [b \in Uint32 |-> Extent(b)]
Mrk    == [b \in Uint32 |-> Mark(b)]
Aft    == [b \in Uint32 |-> After(b)]
Link   == [b \in Uint32 |-> node[b].next]

(* Structs come from the first page; the first block is that page.         *)
Layout ==
  /\ unmarked = {}
  /\ allocator_map = NULL =>
       /\ depth = 0 /\ free_blocks = NULL
       /\ \A b \in Uint32 : pos[b] = Off
       /\ \A i \in Ids : held[i].ptr = NULL
  /\ allocator_map # NULL =>
       /\ allocator_map = MemStart /\ page = MemStart /\ pos[MemStart] = 0
       /\ next_memblock_addr = MemStart + page_depletion
       /\ ~ Initing => node[MemStart].used = 3 /\ node[MemStart].size = PageSize

Tiling == Tiled(pos, Ext, Aft, next_memblock_addr)

InTable(b) == MemStart <= b /\ b < next_memblock_addr
Spare(b) == InTable(b) /\ pos[b] = Off /\ ~ (In({"insert"}) /\ b = Call1.newblock)
SpareSet == {b \in Uint32 : Spare(b)}
Spares   == Chain(SpareSet, Link, free_blocks)

(* Only the table's page is marked 3, no free block follows a free one.    *)
Marks ==
  \A b \in Uint32 : pos[b] # Off =>
    /\ b # MemStart => node[b].used \in {0, 1}
    /\ Mrk[b] = 0 /\ Aft[b] # NULL /\ ~ (In({"merge"}) /\ b = Call1.crt_block)
         => Mrk[Aft[b]] # 0

(* What the locals of the one call say of the list, by program counter.    *)
Kind ==
  /\ Call1.ret \in {"init", "client"}
  /\ Call1.pc \in {"scan", "test", "cut", "insert", "find", "merge"}
  /\ Call1.pc \in {"find", "merge"} => Call1.id = 0 /\ Call1.ret = "client"

Asking ==
  /\ Call1.markas # 0 /\ Call1.nbytes > 0
  /\ Call1.nbytes + Call1.align < Word
  /\ Call1.ret = "client" => Call1.markas = 1
  /\ Call1.ret = "init" =>
       /\ Call1.markas = 3 /\ Call1.nbytes = PageSize /\ Call1.align = 0
       /\ Call1.crt_block = MemStart /\ Call1.id = 0
       /\ Call1.pc \in {"scan", "test"} =>
            node[MemStart].used = 0 /\ node[MemStart].size = Total
       /\ \A i \in Ids : held[i].ptr = NULL

Walking ==
  /\ Call1.crt_block # NULL => pos[Call1.crt_block] = Call1.block_start
  /\ Call1.pc = "test" => Call1.crt_block # NULL

(* prev_block is the block before; last_free_block, if any, is the last    *)
(* block passed (on the test: the current one) and is free.                *)
Scanning ==
  /\ Call1.prev_block = NULL => Call1.crt_block = MemStart
  /\ Call1.prev_block # NULL =>
       /\ pos[Call1.prev_block] # Off
       /\ node[Call1.prev_block].next = Call1.crt_block
  /\ Call1.last_free_block # NULL =>
       /\ Call1.pc = "scan" => Call1.last_free_block = Call1.prev_block
       /\ Call1.pc = "test" => Call1.last_free_block = Call1.crt_block
       /\ node[Call1.last_free_block].used = 0

(* The neighbours a free part is going to be next to are not free.         *)
Cutting ==
  /\ pos[Call1.crt_block] # Off /\ node[Call1.crt_block].used = 0
  /\ Call1.result = MemStart + pos[Call1.crt_block] + Call1.left
  /\ Call1.keep = Call1.nbytes
  /\ Call1.ret = "init" => Call1.left = 0
  /\ Call1.left # 0 =>
       /\ Call1.prev_block # NULL /\ pos[Call1.prev_block] # Off
       /\ node[Call1.prev_block].next = Call1.crt_block
       /\ node[Call1.prev_block].used # 0
  /\ Call1.right # 0 /\ node[Call1.crt_block].next # NULL =>
       node[node[Call1.crt_block].next].used # 0
  /\ Call1.pc = "insert" =>
       /\ InTable(Call1.newblock) /\ pos[Call1.newblock] = Off
       /\ Call1.left # 0 \/ Call1.right # 0

(* No free block ends where the block to be freed starts.                  *)
Finding ==
  /\ \A b \in Uint32 : pos[b] # Off /\ pos[b] + node[b].size = Call1.target =>
       node[b].used # 0
  /\ \A i \in Ids : held[i].ptr # NULL => held[i].ptr # MemStart + Call1.target

Merging ==
  /\ pos[Call1.crt_block] # Off /\ node[Call1.crt_block].used = 0
  /\ Call1.crt_block # MemStart
  /\ \A b \in Uint32 : pos[b] # Off /\ Aft[b] = Call1.crt_block => node[b].used # 0

Locals ==
  depth = 1 =>
    /\ Kind
    /\ Call1.pc \in {"scan", "test", "find"} => Walking
    /\ Call1.pc \in {"scan", "test", "cut", "insert"} => Asking
    /\ Call1.pc \in {"scan", "test"} => Scanning
    /\ Call1.pc \in {"cut", "insert"} => Cutting
    /\ Call1.pc = "find" => Finding
    /\ Call1.pc = "merge" => Merging

HeldBlock(i, b) ==
  /\ pos[b] # Off /\ held[i].ptr = MemStart + pos[b]
  /\ held[i].len = node[b].size /\ node[b].used = 1

Holdings ==
  /\ \A i \in Ids : held[i].ptr # NULL => \E b \in Uint32 : HeldBlock(i, b)
  /\ \A i, j \in Ids : held[i].ptr # NULL /\ held[i].ptr = held[j].ptr => i = j
  /\ depth = 1 /\ Call1.id # 0 => held[Call1.id].ptr = NULL

IInv ==
  /\ depth \in {0, 1} /\ TypeInv
  /\ Layout /\ Tiling /\ Spares /\ Marks /\ Locals /\ Holdings

-----------------------------------------------------------------------------
(* Ext, Mrk and Aft, spelt out for one call at most.                       *)
Views ==
  /\ Ext \in Extents /\ Aft \in Nexts /\ Link \in Nexts /\ pos \in Starts
  /\ \A b \in Uint32 :
       /\ Link[b] = node[b].next /\ node[b] \in Blocks
       /\ In(Cuts) /\ b = Call1.crt_block =>
            /\ Ext[b] = Call1.left + Call1.keep + Call1.right
            /\ Mrk[b] = Call1.markas
       /\ ~ (In(Cuts) /\ b = Call1.crt_block) =>
            Ext[b] = node[b].size /\ Mrk[b] = node[b].used
       /\ In({"merge"}) /\ b = Call1.crt_block => Aft[b] = Call1.nextblk
       /\ ~ (In({"merge"}) /\ b = Call1.crt_block) => Aft[b] = node[b].next

LEMMA View == TypeInv /\ depth \in {0, 1} => Views
<1> SUFFICES ASSUME TypeInv, depth \in {0, 1} PROVE Views
  OBVIOUS
<1>1. \A b \in Uint32 : node[b] \in Blocks
  BY VarTypes
<1>2. depth = 1 => Call1 \in Frames /\ Top = Call1
  BY TopType DEF Call1
<1>3. \A pcs, b : Current(b, pcs) <=> In(pcs) /\ Call1.crt_block = b
  BY <1>2 DEF Current, In
<1>4. \A b \in Uint32 :
        /\ Ext[b] = Extent(b) /\ Mrk[b] = Mark(b) /\ Aft[b] = After(b)
        /\ Link[b] = node[b].next
  BY DEF Ext, Mrk, Aft, Link
<1>5. ASSUME NEW b \in Uint32
      PROVE  /\ In(Cuts) /\ b = Call1.crt_block =>
                  /\ Ext[b] = Call1.left + Call1.keep + Call1.right
                  /\ Mrk[b] = Call1.markas
             /\ ~ (In(Cuts) /\ b = Call1.crt_block) =>
                  Ext[b] = node[b].size /\ Mrk[b] = node[b].used
             /\ In({"merge"}) /\ b = Call1.crt_block => Aft[b] = Call1.nextblk
             /\ ~ (In({"merge"}) /\ b = Call1.crt_block) => Aft[b] = node[b].next
  <2>1. Cut1(b) <=> In(Cuts) /\ Call1.crt_block = b
    BY <1>3 DEF Cut1, Cuts
  <2>2. Current(b, {"merge"}) <=> In({"merge"}) /\ Call1.crt_block = b
    BY <1>3
  <2>3. In(Cuts) \/ In({"merge"}) => Top = Call1
    BY <1>2 DEF In
  <2>4. /\ Cut1(b) => Extent(b) = Top.left + Top.keep + Top.right /\ Mark(b) = Top.markas
        /\ ~ Cut1(b) => Extent(b) = node[b].size /\ Mark(b) = node[b].used
    BY DEF Extent, Mark
  <2>5. /\ Current(b, {"merge"}) => After(b) = Top.nextblk
        /\ ~ Current(b, {"merge"}) => After(b) = node[b].next
    BY DEF After
  <2> QED BY <1>4, <2>1, <2>2, <2>3, <2>4, <2>5
<1>6. Uint32 \subseteq Nat
  BY DEF Uint32
<1>7. ASSUME NEW b \in Uint32
      PROVE  Ext[b] \in Nat /\ Aft[b] \in Uint32 /\ Link[b] \in Uint32
  <2>1. node[b].size \in Nat /\ node[b].next \in Uint32
    BY <1>1, <1>6 DEF Blocks
  <2>2. depth = 1 => /\ Call1.left + Call1.keep + Call1.right \in Nat
                     /\ Call1.nextblk \in Uint32
    <3>1. depth = 1 => /\ Call1.left \in Uint32 /\ Call1.keep \in Uint32
                       /\ Call1.right \in Uint32 /\ Call1.nextblk \in Uint32
      BY <1>2 DEF Frames
    <3>2. depth = 1 => Call1.left \in Nat /\ Call1.keep \in Nat /\ Call1.right \in Nat
      BY <3>1, <1>6
    <3>3. \A x, y, z \in Nat : x + y + z \in Nat
      OBVIOUS
    <3> HIDE DEF Call1
    <3> QED BY <3>1, <3>2, <3>3
  <2> QED BY <1>4, <1>5, <2>1, <2>2 DEF In
<1>8. Ext \in Extents /\ Aft \in Nexts /\ Link \in Nexts
  <2>1. /\ Ext = [b \in Uint32 |-> Ext[b]] /\ Aft = [b \in Uint32 |-> Aft[b]]
        /\ Link = [b \in Uint32 |-> Link[b]]
    BY DEF Ext, Aft, Link
  <2> QED BY <1>7, <2>1 DEF Extents, Nexts
<1>9. pos \in Starts
  <2>1. pos \in [Uint32 -> Uint32 \cup {Off}]
    BY VarTypes
  <2> QED BY <1>6, <2>1 DEF Starts
<1> QED BY <1>1, <1>4, <1>5, <1>8, <1>9 DEF Views

LEMMA ViewNext == TypeInv' /\ (depth \in {0, 1})' => Views'
BY View, PTL

(* The next value of the one frame.                                        *)
LEMMA OneFrame ==
  ASSUME TypeInv, depth = 1
  PROVE  /\ Call1 \in Frames /\ Top = Call1 /\ Crt = node[Call1.crt_block]
         /\ \A pc : At(pc) <=> Call1.pc = pc
         /\ \A f : Continue(f) => depth' = 1 /\ Call1' = f
         /\ Pop => depth' = 0
<1>1. Call1 \in Frames /\ Top = Call1
  BY TopType DEF Call1
<1>2. Crt = node[Call1.crt_block]
  BY <1>1 DEF Crt
<1>3. ASSUME NEW f, Continue(f) PROVE depth' = 1 /\ Call1' = f
  <2>1. frame' = [frame EXCEPT ![1] = f] /\ depth' = 1
    BY <1>3 DEF Continue
  <2>2. frame \in [Levels -> Frames] /\ 1 \in Levels
    BY DEF TypeInv, TypeOK, Levels
  <2> QED BY <2>1, <2>2 DEF Call1
<1>4. Pop => depth' = 0
  BY DEF Pop
<1>5. \A pc : At(pc) <=> Call1.pc = pc
  BY <1>1 DEF At
<1> QED BY <1>1, <1>2, <1>3, <1>4, <1>5

LEMMA FirstFrame ==
  ASSUME TypeInv, depth = 0, NEW f, Push(f)
  PROVE  depth' = 1 /\ Call1' = f
<1>1. frame' = [frame EXCEPT ![1] = f] /\ depth' = 1
  BY DEF Push
<1>2. frame \in [Levels -> Frames] /\ 1 \in Levels
  BY DEF TypeInv, TypeOK, Levels
<1> QED BY <1>1, <1>2 DEF Call1

-----------------------------------------------------------------------------
(* Steps that only look at the list.                                       *)

Special == {"cut", "carve", "insert", "merge"}
ListVars == <<node, pos, allocator_map, free_blocks, next_memblock_addr,
              page_depletion, page, unmarked>>

LEMMA ListSame ==
  ASSUME IInv, TypeInv', depth' \in {0, 1}, UNCHANGED ListVars,
         ~ In(Special), ~ In(Special)', Initing' <=> Initing,
         allocator_map # NULL
  PROVE  Layout' /\ Tiling' /\ Spares' /\ Marks'
<1>1. /\ node' = node /\ pos' = pos /\ allocator_map' = allocator_map
      /\ free_blocks' = free_blocks /\ page' = page /\ unmarked' = unmarked
      /\ next_memblock_addr' = next_memblock_addr
      /\ page_depletion' = page_depletion
  BY DEF ListVars
<1>2. Views /\ Views'
  BY View, ViewNext DEF IInv
<1>3. /\ ~ In(Cuts) /\ ~ In(Cuts)' /\ ~ In({"merge"}) /\ ~ In({"merge"})'
      /\ ~ In({"insert"}) /\ ~ In({"insert"})'
  BY DEF In, Cuts, Special
<1>4. /\ \A b \in Uint32 : Ext'[b] = Ext[b] /\ Aft'[b] = Aft[b] /\ Mrk'[b] = Mrk[b]
      /\ Ext' = Ext /\ Aft' = Aft /\ Link' = Link
  <2>1. \A b \in Uint32 : Ext'[b] = Ext[b] /\ Aft'[b] = Aft[b] /\ Mrk'[b] = Mrk[b]
                          /\ Link'[b] = Link[b]
    BY <1>1, <1>2, <1>3 DEF Views
  <2> QED BY <1>2, <2>1 DEF Views, Extents, Nexts
<1>5. Layout'
  BY <1>1 DEF IInv, Layout
<1>6. Tiling'
  BY <1>1, <1>4 DEF IInv, Tiling
<1>7. Spares'
  <2>1. SpareSet' = SpareSet
    BY <1>1, <1>3 DEF SpareSet, Spare, InTable
  <2> QED BY <1>1, <1>4, <2>1 DEF IInv, Spares
<1>8. Marks'
  <2>1. Aft \in Nexts
    BY <1>2 DEF Views
  <2>2. \A b \in Uint32 : Aft[b] \in Uint32
    BY <2>1 DEF Nexts
  <2> QED BY <1>1, <1>3, <1>4, <2>2 DEF IInv, Marks
<1> QED BY <1>5, <1>6, <1>7, <1>8

LEMMA HeldSame ==
  ASSUME IInv, UNCHANGED <<node, pos, held>>,
         depth' = 1 /\ Call1'.id # 0 => held[Call1'.id].ptr = NULL
  PROVE  Holdings'
  BY DEF IInv, Holdings, HeldBlock

(* While a call is in progress the region is initialised.                  *)
LEMMA Ready ==
  ASSUME IInv, depth = 1
  PROVE  /\ allocator_map = MemStart /\ pos[MemStart] = 0 /\ MemStart \in Uint32
         /\ NULL = 0 /\ Off = -1 /\ MemStart > 0
         /\ next_memblock_addr = MemStart + page_depletion
  BY ConstType, KallocAssumption DEF IInv, Layout

(* A block of the list, and what is before and after it.                   *)
LEMMA ListBlock ==
  ASSUME IInv, NEW b \in Uint32, pos[b] # Off, ~ In(Special)
  PROVE  /\ Views /\ Ext[b] = node[b].size /\ Aft[b] = node[b].next
         /\ Mrk[b] = node[b].used
         /\ pos[b] \in Nat /\ node[b].size \in Nat /\ node[b].next \in Uint32
         /\ node[b].size > 0 /\ pos[b] + node[b].size <= Total
         /\ node[b].next # NULL => pos[node[b].next] = pos[b] + node[b].size
         /\ node[b].used = 0 /\ node[b].next # NULL => node[node[b].next].used # 0
<1>1. Views /\ ~ In(Cuts) /\ ~ In({"merge"})
  BY View DEF IInv, In, Cuts, Special
<1>2. \A c \in Uint32 : Ext[c] = node[c].size /\ Aft[c] = node[c].next /\ Mrk[c] = node[c].used
  BY <1>1 DEF Views
<1>3. pos[b] \in Nat /\ Ext[b] \in Nat /\ Aft[b] \in Uint32
  BY <1>1, ViewTypes DEF Views, Off
<1>4. /\ Ext[b] > 0 /\ pos[b] + Ext[b] <= Total
      /\ Aft[b] # NULL => pos[Aft[b]] = pos[b] + Ext[b]
  BY TiledOne DEF IInv, Tiling
<1>5. Mrk[b] = 0 /\ Aft[b] # NULL => Mrk[Aft[b]] # 0
  BY <1>1 DEF IInv, Marks
<1> QED BY <1>1, <1>2, <1>3, <1>4, <1>5

(* The one call takes a step that only changes its locals.                 *)
LEMMA LookStep ==
  ASSUME IInv, TypeInv', depth = 1, ~ In(Special), UNCHANGED memory,
         NEW f, Continue(f), f.pc \notin Special, f.ret = Call1.ret, f.id = Call1.id
  PROVE  /\ depth' = 1 /\ Call1' = f
         /\ Layout' /\ Tiling' /\ Spares' /\ Marks' /\ Holdings'
         /\ node' = node /\ pos' = pos /\ held' = held
         /\ next_memblock_addr' = next_memblock_addr
<1>1. TypeInv
  BY DEF IInv
<1>2. depth' = 1 /\ Call1' = f
  BY <1>1, OneFrame
<1>3. UNCHANGED ListVars /\ UNCHANGED held
  BY MemSame DEF ListVars
<1>4. ~ In(Special)' /\ (Initing' <=> Initing)
  BY <1>2 DEF In, Initing
<1>5. allocator_map # NULL
  BY Ready
<1>6. Layout' /\ Tiling' /\ Spares' /\ Marks'
  BY <1>2, <1>3, <1>4, <1>5, ListSame
<1>7. Holdings'
  BY <1>2, <1>3, HeldSame DEF IInv, Holdings, ListVars
<1> QED BY <1>2, <1>3, <1>6, <1>7 DEF ListVars

LEMMA OccupiedSafe ==
  ASSUME IInv, TypeInv', depth = 1, Occupied
  PROVE  IInv'
<1> DEFINE f == [Call1 EXCEPT !.pc = "test", !.last_free_block = NULL]
<1>1. /\ Call1 \in Frames /\ Call1.pc = "scan" /\ Call1.crt_block # NULL
      /\ Continue(f) /\ UNCHANGED memory
  BY OneFrame DEF IInv, Occupied
<1>2. /\ f.pc = "test" /\ f.last_free_block = NULL /\ f.ret = Call1.ret
      /\ f.id = Call1.id /\ f.crt_block = Call1.crt_block
      /\ f.prev_block = Call1.prev_block /\ f.block_start = Call1.block_start
      /\ f.markas = Call1.markas /\ f.nbytes = Call1.nbytes /\ f.align = Call1.align
  BY <1>1 DEF Frames
<1> HIDE DEF f
<1>3. /\ depth' = 1 /\ Call1' = f
      /\ Layout' /\ Tiling' /\ Spares' /\ Marks' /\ Holdings'
      /\ node' = node /\ pos' = pos /\ held' = held
  BY <1>1, <1>2, LookStep DEF In, Special
<1>4. Kind /\ Walking /\ Asking /\ Scanning
  BY <1>1 DEF IInv, Locals
<1>5. Kind' /\ Walking' /\ Asking' /\ Scanning'
  BY <1>1, <1>2, <1>3, <1>4 DEF Kind, Walking, Asking, Scanning
<1> QED BY <1>2, <1>3, <1>5 DEF IInv, Locals

LEMMA FirstFreeSafe ==
  ASSUME IInv, TypeInv', depth = 1, FirstFree
  PROVE  IInv'
<1> DEFINE f == [Call1 EXCEPT !.pc = "test",
       !.last_free_block = IF Call1.prev_block = NULL \/ node[Call1.prev_block].used = 1
                           THEN Call1.crt_block ELSE NULL]
<1>1. /\ Call1 \in Frames /\ Call1.pc = "scan" /\ Call1.crt_block # NULL
      /\ Continue(f) /\ UNCHANGED memory /\ node[Call1.crt_block].used = 0
  BY OneFrame DEF IInv, FirstFree
<1>2. /\ f.pc = "test" /\ f.last_free_block \in {NULL, Call1.crt_block}
      /\ f.ret = Call1.ret /\ f.id = Call1.id /\ f.crt_block = Call1.crt_block
      /\ f.prev_block = Call1.prev_block /\ f.block_start = Call1.block_start
      /\ f.markas = Call1.markas /\ f.nbytes = Call1.nbytes /\ f.align = Call1.align
  BY <1>1 DEF Frames
<1> HIDE DEF f
<1>3. /\ depth' = 1 /\ Call1' = f
      /\ Layout' /\ Tiling' /\ Spares' /\ Marks' /\ Holdings'
      /\ node' = node /\ pos' = pos /\ held' = held
  BY <1>1, <1>2, LookStep DEF In, Special
<1>4. Kind /\ Walking /\ Asking /\ Scanning
  BY <1>1 DEF IInv, Locals
<1>5. Kind' /\ Walking' /\ Asking' /\ Scanning'
  BY <1>1, <1>2, <1>3, <1>4 DEF Kind, Walking, Asking, Scanning
<1> QED BY <1>2, <1>3, <1>5 DEF IInv, Locals

(* Nothing is ever merged on the way: a free block has no free neighbour.  *)
LEMMA HousekeepNever ==
  ASSUME IInv, depth = 1, Housekeep
  PROVE  FALSE
<1>1. /\ Call1 \in Frames /\ Call1.pc = "scan" /\ Call1.crt_block # NULL
      /\ node[Call1.crt_block].used = 0 /\ Call1.last_free_block # NULL
  BY OneFrame DEF IInv, Housekeep
<1>2. /\ Call1.last_free_block = Call1.prev_block /\ pos[Call1.prev_block] # Off
      /\ node[Call1.prev_block].next = Call1.crt_block
      /\ node[Call1.prev_block].used = 0
  BY <1>1 DEF IInv, Locals, Scanning
<1>3. Call1.prev_block \in Uint32 /\ ~ In(Special)
  BY <1>1 DEF Frames, In, Special
<1> QED BY <1>1, <1>2, <1>3, ListBlock

(* Where the walk goes from a block of the list.                           *)
LEMMA Passed ==
  ASSUME IInv, depth = 1, NEW pc, Advance(pc),
         Call1.pc \in {"test", "find"}, Call1.crt_block # NULL
  PROVE  LET f == [Call1 EXCEPT !.pc = pc,
                     !.block_start = Plus(@, node[Call1.crt_block].size),
                     !.prev_block = Call1.crt_block,
                     !.crt_block = node[Call1.crt_block].next]
         IN  /\ Continue(f)
             /\ f.pc = pc /\ f.ret = Call1.ret /\ f.id = Call1.id
             /\ f.markas = Call1.markas /\ f.nbytes = Call1.nbytes
             /\ f.align = Call1.align /\ f.target = Call1.target
             /\ f.last_free_block = Call1.last_free_block
             /\ f.prev_block = Call1.crt_block /\ pos[Call1.crt_block] # Off
             /\ f.crt_block = node[Call1.crt_block].next
             /\ f.crt_block # NULL => pos[f.crt_block] = f.block_start
<1> DEFINE f == [Call1 EXCEPT !.pc = pc,
                     !.block_start = Plus(@, node[Call1.crt_block].size),
                     !.prev_block = Call1.crt_block,
                     !.crt_block = node[Call1.crt_block].next]
<1>1. Call1 \in Frames /\ Continue(f)
  BY OneFrame DEF IInv, Advance
<1>2. Call1.crt_block \in Uint32 /\ Call1.block_start \in Uint32 /\ ~ In(Special)
  BY <1>1 DEF Frames, In, Special
<1>3. pos[Call1.crt_block] = Call1.block_start /\ Call1.block_start # Off
  BY <1>2 DEF IInv, Locals, Walking, Uint32, Off
<1>4. /\ pos[Call1.crt_block] \in Nat /\ node[Call1.crt_block].size \in Nat
      /\ pos[Call1.crt_block] + node[Call1.crt_block].size <= Total
      /\ node[Call1.crt_block].next # NULL =>
           pos[node[Call1.crt_block].next]
             = pos[Call1.crt_block] + node[Call1.crt_block].size
  BY <1>2, <1>3, ListBlock
<1>5. Plus(Call1.block_start, node[Call1.crt_block].size)
        = Call1.block_start + node[Call1.crt_block].size
  BY <1>3, <1>4, KallocAssumption DEF Plus
<1>6. /\ f.pc = pc /\ f.ret = Call1.ret /\ f.id = Call1.id
      /\ f.markas = Call1.markas /\ f.nbytes = Call1.nbytes
      /\ f.align = Call1.align /\ f.target = Call1.target
      /\ f.last_free_block = Call1.last_free_block
      /\ f.prev_block = Call1.crt_block
      /\ f.crt_block = node[Call1.crt_block].next
      /\ f.block_start = Plus(Call1.block_start, node[Call1.crt_block].size)
  BY <1>1 DEF Frames
<1> QED BY <1>1, <1>3, <1>4, <1>5, <1>6

LEMMA PassOverSafe ==
  ASSUME IInv, TypeInv', depth = 1, PassOver
  PROVE  IInv'
<1> DEFINE f == [Call1 EXCEPT !.pc = "scan",
                   !.block_start = Plus(@, node[Call1.crt_block].size),
                   !.prev_block = Call1.crt_block,
                   !.crt_block = node[Call1.crt_block].next]
<1>1. /\ Call1 \in Frames /\ Call1.pc = "test" /\ Advance("scan") /\ UNCHANGED memory
      /\ ~ Fits(node[Call1.crt_block], Call1.block_start, Call1.nbytes, Call1.align)
  BY OneFrame DEF IInv, PassOver
<1>2. Kind /\ Walking /\ Asking /\ Scanning
  BY <1>1 DEF IInv, Locals
<1>3. Call1.crt_block # NULL
  BY <1>1, <1>2 DEF Walking
<1>4. /\ Continue(f)
      /\ f.pc = "scan" /\ f.ret = Call1.ret /\ f.id = Call1.id
      /\ f.markas = Call1.markas /\ f.nbytes = Call1.nbytes
      /\ f.align = Call1.align
      /\ f.last_free_block = Call1.last_free_block
      /\ f.prev_block = Call1.crt_block /\ pos[Call1.crt_block] # Off
      /\ f.crt_block = node[Call1.crt_block].next
      /\ f.crt_block # NULL => pos[f.crt_block] = f.block_start
  BY <1>1, <1>3, Passed
<1> HIDE DEF f
<1>5. /\ depth' = 1 /\ Call1' = f
      /\ Layout' /\ Tiling' /\ Spares' /\ Marks' /\ Holdings'
      /\ node' = node /\ pos' = pos /\ held' = held
  BY <1>1, <1>4, LookStep DEF In, Special
<1>6. Call1.ret # "init"
  <2> SUFFICES ASSUME Call1.ret = "init" PROVE FALSE
    OBVIOUS
  <2>1. /\ Call1.crt_block = MemStart /\ node[MemStart].used = 0
        /\ node[MemStart].size = Total /\ Call1.nbytes = PageSize /\ Call1.align = 0
    BY <1>1, <1>2 DEF Asking
  <2>2. OffsetRequired(0, Call1.block_start) = 0
    BY DEF OffsetRequired
  <2>3. Plus(PageSize, 0) = PageSize
    BY KallocAssumption DEF Plus
  <2> QED BY <1>1, <2>1, <2>2, <2>3, KallocAssumption DEF Fits
<1>7. Kind' /\ Walking' /\ Asking' /\ Scanning'
  BY <1>1, <1>2, <1>3, <1>4, <1>5, <1>6 DEF Kind, Walking, Asking, Scanning
<1> QED BY <1>4, <1>5, <1>7 DEF IInv, Locals

LEMMA LeaveStep ==
  ASSUME IInv, TypeInv', depth = 1, ~ In(Special), ~ Initing, Pop,
         UNCHANGED ListVars, UNCHANGED held
  PROVE  IInv'
<1>1. depth' = 0
  BY DEF Pop
<1>2. ~ In(Special)' /\ (Initing' <=> Initing)
  BY <1>1 DEF In, Initing
<1>3. Layout' /\ Tiling' /\ Spares' /\ Marks'
  BY <1>1, <1>2, Ready, ListSame
<1>4. Holdings'
  BY <1>1, HeldSame DEF ListVars
<1> QED BY <1>1, <1>3, <1>4 DEF IInv, Locals

LEMMA OutOfMemorySafe ==
  ASSUME IInv, TypeInv', depth = 1, OutOfMemory
  PROVE  IInv'
<1>1. Call1.pc = "scan" /\ Call1.crt_block = NULL /\ Return(NULL) /\ Top = Call1
  BY OneFrame DEF IInv, OutOfMemory
<1>2. Call1.ret = "client"
  BY <1>1, Ready DEF IInv, Locals, Kind, Asking
<1>3. Pop /\ UNCHANGED held /\ UNCHANGED bump
  BY <1>1, <1>2 DEF Return
<1>4. UNCHANGED ListVars
  BY <1>3 DEF OutOfMemory, ListVars, bump
<1> QED BY <1>1, <1>2, <1>3, <1>4, LeaveStep DEF In, Special, Initing

LEMMA FindMissSafe ==
  ASSUME IInv, TypeInv', depth = 1, FindMiss
  PROVE  IInv'
<1>1. Call1.pc = "find" /\ Pop
  BY OneFrame DEF IInv, FindMiss
<1>2. Call1.ret = "client"
  BY <1>1 DEF IInv, Locals, Kind
<1>3. UNCHANGED ListVars /\ UNCHANGED held
  BY MemSame DEF FindMiss, ListVars
<1> QED BY <1>1, <1>2, <1>3, LeaveStep DEF In, Special, Initing

LEMMA FindNextSafe ==
  ASSUME IInv, TypeInv', depth = 1, FindNext
  PROVE  IInv'
<1> DEFINE f == [Call1 EXCEPT !.pc = "find",
                   !.block_start = Plus(@, node[Call1.crt_block].size),
                   !.prev_block = Call1.crt_block,
                   !.crt_block = node[Call1.crt_block].next]
<1>1. /\ Call1.pc = "find" /\ Advance("find") /\ UNCHANGED memory
      /\ Call1.crt_block # NULL
  BY OneFrame, SMTT(40) DEF IInv, FindNext
<1>2. /\ Continue(f)
      /\ f.pc = "find" /\ f.ret = Call1.ret /\ f.id = Call1.id
      /\ f.target = Call1.target
      /\ f.crt_block # NULL => pos[f.crt_block] = f.block_start
  BY <1>1, Passed
<1> HIDE DEF f
<1>3. /\ depth' = 1 /\ Call1' = f
      /\ Layout' /\ Tiling' /\ Spares' /\ Marks' /\ Holdings'
      /\ node' = node /\ pos' = pos /\ held' = held
  BY <1>1, <1>2, LookStep DEF In, Special
<1>4. Kind /\ Walking /\ Finding
  BY <1>1 DEF IInv, Locals
<1>5. Kind' /\ Walking' /\ Finding'
  BY <1>1, <1>2, <1>3, <1>4 DEF Kind, Walking, Finding
<1> QED BY <1>2, <1>3, <1>5 DEF IInv, Locals

-----------------------------------------------------------------------------
(* Calls, which only push a frame.                                         *)

LEMMA EnterStep ==
  ASSUME IInv, TypeInv', depth = 0, allocator_map # NULL,
         NEW f, Push(f), f.pc \notin Special, f.ret # "init",
         UNCHANGED ListVars
  PROVE  /\ depth' = 1 /\ Call1' = f /\ Layout' /\ Tiling' /\ Spares' /\ Marks'
         /\ node' = node /\ pos' = pos
<1>1. depth' = 1 /\ Call1' = f
  BY FirstFrame DEF IInv
<1>2. ~ In(Special) /\ ~ In(Special)' /\ ~ Initing /\ ~ Initing'
  BY <1>1 DEF In, Initing
<1>3. Layout' /\ Tiling' /\ Spares' /\ Marks'
  BY <1>1, <1>2, ListSame
<1> QED BY <1>1, <1>3 DEF ListVars

(* A vacant request has no extent; the walk starts at the first block.     *)
LEMMA KamallocSafe ==
  ASSUME IInv, TypeInv', NEW n \in Sizes, NEW a \in Aligns, Kamalloc(n, a)
  PROVE  IInv'
<1>1. /\ depth = 0 /\ allocator_map # NULL /\ UNCHANGED memory
      /\ \E i \in Ids : Vacant(i) /\ Push(Request("client", i, n, a, 1))
  BY DEF Kamalloc, Call, Booted
<1>2. PICK i \in Ids : Vacant(i) /\ Push(Request("client", i, n, a, 1))
  BY <1>1
<1> DEFINE f == Request("client", i, n, a, 1)
<1>3. /\ f.pc = "scan" /\ f.ret = "client" /\ f.id = i /\ f.nbytes = n
      /\ f.align = a /\ f.markas = 1 /\ f.crt_block = allocator_map
      /\ f.block_start = 0 /\ f.prev_block = NULL /\ f.last_free_block = NULL
  BY DEF Request, NoFrame
<1> HIDE DEF f
<1>4. UNCHANGED ListVars /\ UNCHANGED held
  BY <1>1, MemSame DEF ListVars
<1>5. /\ depth' = 1 /\ Call1' = f /\ Layout' /\ Tiling' /\ Spares' /\ Marks'
      /\ node' = node /\ pos' = pos
  BY <1>1, <1>2, <1>3, <1>4, EnterStep DEF f, Special
<1>6. held[i].ptr = NULL
  BY <1>2 DEF Vacant
<1>7. Holdings'
  BY <1>3, <1>4, <1>5, <1>6, HeldSame
<1>8. n > 0 /\ n + a < Word /\ n \in Nat
  BY KallocAssumption
<1>9. allocator_map = MemStart /\ pos[MemStart] = 0
  BY <1>1 DEF IInv, Layout
<1>10. Kind' /\ Asking'
  BY <1>3, <1>5, <1>8 DEF Kind, Asking
<1>11. Walking' /\ Scanning'
  BY <1>3, <1>5, <1>9 DEF Walking, Scanning
<1> QED BY <1>3, <1>5, <1>7, <1>10, <1>11 DEF IInv, Locals

(* kfree: the free extent given up with the call, if it was one.           *)
LEMMA KfreeSafe ==
  ASSUME IInv, TypeInv', NEW ptr \in Uint32, Kfree(ptr),
         \A i \in Ids : held'[i].ptr # NULL => held'[i] = held[i],
         \A i \in Ids : held'[i].ptr # NULL =>
           held'[i].ptr # MemStart + Minus(ptr, MemStart),
         \A b \in Uint32 : pos[b] # Off
           /\ pos[b] + node[b].size = Minus(ptr, MemStart) => node[b].used # 0
  PROVE  IInv'
<1> DEFINE f == [Request("client", 0, 0, 0, 0) EXCEPT
                   !.pc = "find", !.target = Minus(ptr, MemStart)]
<1>1. depth = 0 /\ allocator_map # NULL /\ Push(f)
  BY DEF Kfree, Booted
<1>2. /\ f.pc = "find" /\ f.ret = "client" /\ f.id = 0
      /\ f.target = Minus(ptr, MemStart) /\ f.crt_block = allocator_map
      /\ f.block_start = 0
  BY DEF Request, NoFrame
<1> HIDE DEF f
<1>3. UNCHANGED ListVars
  BY DEF Kfree, ListVars, bump
<1>4. /\ depth' = 1 /\ Call1' = f /\ Layout' /\ Tiling' /\ Spares' /\ Marks'
      /\ node' = node /\ pos' = pos
  BY <1>1, <1>2, <1>3, EnterStep DEF Special
<1>5. Holdings'
  BY <1>2, <1>4 DEF IInv, Holdings, HeldBlock
<1>6. allocator_map = MemStart /\ pos[MemStart] = 0
  BY <1>1 DEF IInv, Layout
<1>7. Kind' /\ Walking' /\ Finding'
  BY <1>2, <1>4, <1>6 DEF Kind, Walking, Finding
<1> QED BY <1>2, <1>4, <1>5, <1>7 DEF IInv, Locals

LEMMA FreeNullSafe ==
  ASSUME IInv, TypeInv', FreeNull
  PROVE  IInv'
<1>1. Kfree(NULL) /\ held' = held /\ depth = 0 /\ NULL \in Uint32
  BY ConstType DEF FreeNull, Kfree
<1>2. Minus(NULL, MemStart) = Word - MemStart /\ Word - MemStart > Total
  BY KallocAssumption DEF Minus, NULL
<1>3. ASSUME NEW b \in Uint32, pos[b] # Off
      PROVE  pos[b] + node[b].size <= Total /\ pos[b] \in Nat /\ node[b].size \in Nat
  BY <1>1, <1>3, ListBlock DEF In
<1>4. ASSUME NEW i \in Ids, held[i].ptr # NULL
      PROVE  held[i].ptr # MemStart + Minus(NULL, MemStart)
  <2>1. held[i].ptr \in Uint32
    BY VarTypes DEF IInv
  <2> QED BY <2>1, <1>2, KallocAssumption DEF Uint32
<1>5. \A b \in Uint32 : pos[b] # Off
        /\ pos[b] + node[b].size = Minus(NULL, MemStart) => node[b].used # 0
  BY <1>2, <1>3, KallocAssumption
<1> QED BY <1>1, <1>4, <1>5, KfreeSafe

LEMMA FreeSafe ==
  ASSUME IInv, TypeInv', FreeDiscipline # "any", NEW i \in Ids, Free(i)
  PROVE  IInv'
<1>1. /\ held[i].ptr # NULL /\ AboveUsed(held[i]) /\ Kfree(held[i].ptr) /\ depth = 0
      /\ held' = [held EXCEPT ![i] = NoExtent]
  BY DEF Free, Kfree
<1>2. held \in [Ids -> [ptr : Uint32, len : Uint32, align : Uint32]]
  BY VarTypes DEF IInv
<1>3. held[i].ptr \in Uint32
  BY <1>2
<1>4. PICK c \in Uint32 : HeldBlock(i, c)
  BY <1>1 DEF IInv, Holdings
<1>5. pos[c] \in Nat /\ held[i].ptr = MemStart + pos[c]
  BY <1>1, <1>4, ListBlock DEF HeldBlock, In
<1>6. Minus(held[i].ptr, MemStart) = pos[c]
  BY <1>5, KallocAssumption DEF Minus
<1>7. ASSUME NEW j \in Ids, held'[j].ptr # NULL
      PROVE  held'[j] = held[j] /\ held'[j].ptr # MemStart + Minus(held[i].ptr, MemStart)
  <2>1. j # i
    BY <1>1, <1>2, <1>7 DEF NoExtent
  <2>2. held'[j] = held[j]
    BY <1>1, <1>2, <2>1
  <2> QED BY <1>1, <1>5, <1>6, <1>7, <2>1, <2>2 DEF IInv, Holdings
<1>8. ASSUME NEW b \in Uint32, pos[b] # Off,
             pos[b] + node[b].size = Minus(held[i].ptr, MemStart)
      PROVE  node[b].used # 0
  <2>1. pos[b] \in Nat /\ node[b].size \in Nat
    BY <1>1, <1>8, ListBlock DEF In
  <2>2. MemStart + pos[b] + node[b].size = held[i].ptr
    BY <1>5, <1>6, <1>8, <2>1, KallocAssumption
  <2> QED BY <1>1, <1>8, <2>2 DEF AboveUsed
<1> QED BY <1>1, <1>3, <1>7, <1>8, KfreeSafe

LEMMA InitKallocatorSafe ==
  ASSUME IInv, TypeInv', Reserved = {}, InitKallocator
  PROVE  IInv'
<1> DEFINE f == [Request("init", 0, PageSize, 0, 3) EXCEPT !.crt_block = MemStart]
<1>1. /\ depth = 0 /\ free_blocks = NULL /\ unmarked = {}
      /\ \A b \in Uint32 : pos[b] = Off
      /\ \A i \in Ids : held[i].ptr = NULL
  BY DEF IInv, Layout, InitKallocator
<1>2. depth' = 1 /\ Call1' = f
  BY <1>1, FirstFrame DEF IInv, InitKallocator
<1>3. /\ f.pc = "scan" /\ f.ret = "init" /\ f.id = 0 /\ f.nbytes = PageSize
      /\ f.align = 0 /\ f.markas = 3 /\ f.crt_block = MemStart
      /\ f.block_start = 0 /\ f.prev_block = NULL /\ f.last_free_block = NULL
  BY DEF Request, NoFrame
<1> HIDE DEF f
<1>4. /\ allocator_map' = MemStart /\ page' = MemStart
      /\ next_memblock_addr' = MemStart + 1 /\ page_depletion' = 1
      /\ free_blocks' = free_blocks /\ held' = held /\ unmarked' = unmarked
      /\ node' = [node EXCEPT ![MemStart] = [size |-> Total, used |-> 0, next |-> NULL]]
      /\ pos'  = [pos EXCEPT ![MemStart] = 0]
  BY DEF InitKallocator
<1>5. MemStart \in Uint32 /\ Total \in Nat /\ Total > 0 /\ MemStart > 0 /\ NULL = 0 /\ Off = -1
  BY ConstType, KallocAssumption
<1>6. /\ node \in [Uint32 -> Blocks] /\ pos \in [Uint32 -> Uint32 \cup {Off}]
  BY VarTypes DEF IInv
<1>7. /\ pos'[MemStart] = 0 /\ node'[MemStart] = [size |-> Total, used |-> 0, next |-> NULL]
      /\ \A b \in Uint32 : b # MemStart => pos'[b] = Off
  BY <1>1, <1>4, <1>5, <1>6
<1>8. Views'
  BY <1>2, ViewNext
<1>9. ~ In(Cuts)' /\ ~ In({"merge"})' /\ ~ In({"insert"})'
  BY <1>2, <1>3 DEF In, Cuts
<1>10. Ext'[MemStart] = Total /\ Aft'[MemStart] = NULL /\ Mrk'[MemStart] = 0
  BY <1>5, <1>7, <1>8, <1>9 DEF Views
<1>11. Layout'
  BY <1>1, <1>2, <1>3, <1>4, <1>5, <1>7 DEF Layout, Initing
<1>12. Tiling'
  <2>1. next_memblock_addr' > MemStart /\ MemStart <= MemStart
    BY <1>4, KallocAssumption
  <2> QED BY <1>5, <1>7, <1>10, <2>1 DEF Tiling, Tiled
<1>13. Spares'
  <2>1. \A b \in Uint32 : ~ Spare(b)'
    <3>1. \A b \in Uint32 : InTable(b)' => b = MemStart
      BY <1>4, KallocAssumption DEF InTable, Uint32
    <3> QED BY <1>5, <1>7, <3>1 DEF Spare
  <2>2. SpareSet' = {}
    BY <2>1 DEF SpareSet
  <2> QED BY <1>1, <1>4, <2>2 DEF Spares, Chain
<1>14. Marks'
  BY <1>7, <1>10 DEF Marks
<1>15. Holdings'
  BY <1>1, <1>2, <1>3, <1>4 DEF Holdings
<1>16. Kind' /\ Walking' /\ Scanning'
  BY <1>2, <1>3, <1>7 DEF Kind, Walking, Scanning
<1>17. Asking'
  <2>1. PageSize > 0 /\ PageSize + 0 < Word
    BY KallocAssumption
  <2>2. \A i \in Ids : held'[i].ptr = NULL
    BY <1>1, <1>4
  <2> QED BY <1>2, <1>3, <1>7, <2>1, <2>2 DEF Asking
<1> QED BY <1>2, <1>3, <1>11, <1>12, <1>13, <1>14, <1>15, <1>16, <1>17 DEF IInv, Locals

-----------------------------------------------------------------------------
(* cut_block.                                                              *)

LEMMA SameViews ==
  ASSUME Views, Views',
         \A b \in Uint32 : Ext'[b] = Ext[b] /\ Aft'[b] = Aft[b] /\ Link'[b] = Link[b]
  PROVE  Ext' = Ext /\ Aft' = Aft /\ Link' = Link
  BY DEF Views, Extents, Nexts

LEMMA TiledGrow ==
  ASSUME NEW p, NEW e, NEW n, NEW top \in Nat, NEW top2 \in Nat, top <= top2,
         Tiled(p, e, n, top)
  PROVE  Tiled(p, e, n, top2)
<1>1. \A b \in Uint32 : b < top => b < top2
  BY DEF Uint32
<1> QED BY <1>1 DEF Tiled

LEMMA NoOffsetAtStart ==
  /\ \A align \in Nat : OffsetRequired(align, 0) = 0
  /\ \A align, start \in Nat : OffsetRequired(align, start) \in 0 .. align
  /\ \A start \in Nat : OffsetRequired(0, start) = 0
<1>1. \A align \in Nat \ {0} : 0 % align = 0
  OBVIOUS
<1>2. \A align \in Nat : align = 0 \/ align \in Nat \ {0}
  OBVIOUS
<1>3. \A align \in Nat : OffsetRequired(align, 0) = 0
  BY <1>1, <1>2 DEF OffsetRequired
<1>4. ASSUME NEW align \in Nat, NEW start \in Nat
      PROVE  OffsetRequired(align, start) \in 0 .. align
  <2>1. CASE align = 0
    BY <2>1 DEF OffsetRequired
  <2>2. CASE align # 0
    <3>1. start % align \in 0 .. align - 1
      BY <2>2
    <3> HIDE DEF OffsetRequired
    <3>2. start % align = 0 => OffsetRequired(align, start) = 0
      BY DEF OffsetRequired
    <3>3. start % align # 0 => OffsetRequired(align, start) = align - (start % align)
      BY <2>2 DEF OffsetRequired
    <3> DEFINE r == start % align
    <3>4. r \in 0 .. align - 1
      BY <3>1
    <3>5. OffsetRequired(align, start) \in {0, align - r}
      BY <3>2, <3>3
    <3> HIDE DEF r
    <3> QED BY <3>4, <3>5
  <2> QED BY <2>1, <2>2
<1>5. \A start \in Nat : OffsetRequired(0, start) = 0
  BY DEF OffsetRequired
<1> QED BY <1>3, <1>4, <1>5

(* The parts ksmalloc gives to cut_block add up to the block.              *)
LEMMA ChooseParts ==
  ASSUME IInv, depth = 1, Choose
  PROVE  LET s   == Call1.block_start
             off == OffsetRequired(Call1.align, s)
             sz  == node[Call1.crt_block].size
             f   == [Call1 EXCEPT !.pc = "cut", !.left = off, !.keep = Call1.nbytes,
                       !.right = Minus(Minus(sz, Call1.nbytes), off),
                       !.result = Plus(Plus(MemStart, off), s)]
         IN  /\ Call1.pc = "test" /\ Continue(f)
             /\ f.pc = "cut" /\ f.left = off /\ f.keep = Call1.nbytes
             /\ f.left + f.keep + f.right = sz
             /\ f.result = MemStart + s + f.left
             /\ f.ret = Call1.ret /\ f.id = Call1.id /\ f.nbytes = Call1.nbytes
             /\ f.align = Call1.align /\ f.markas = Call1.markas
             /\ f.crt_block = Call1.crt_block /\ f.prev_block = Call1.prev_block
             /\ s = 0 => f.left = 0
             /\ Call1.align = 0 => f.left = 0
             /\ Call1.crt_block \in Uint32 /\ Call1.prev_block \in Uint32
             /\ node[Call1.crt_block].used = 0
             /\ pos[Call1.crt_block] = s /\ s # Off
<1> DEFINE s   == Call1.block_start
           off == OffsetRequired(Call1.align, s)
           sz  == node[Call1.crt_block].size
           f   == [Call1 EXCEPT !.pc = "cut", !.left = off, !.keep = Call1.nbytes,
                       !.right = Minus(Minus(sz, Call1.nbytes), off),
                       !.result = Plus(Plus(MemStart, off), s)]
<1>1. /\ Call1 \in Frames /\ Call1.pc = "test" /\ Continue(f)
      /\ node[Call1.crt_block].used = 0 /\ sz >= Plus(Call1.nbytes, off)
  BY OneFrame DEF IInv, Choose, Fits
<1>2. Walking /\ Asking /\ ~ In(Special)
  BY <1>1 DEF IInv, Locals, In, Special
<1>3. /\ s \in Nat /\ Call1.align \in Nat /\ Call1.nbytes \in Nat
      /\ Call1.crt_block \in Uint32 /\ Call1.prev_block \in Uint32
  BY <1>1 DEF Frames, Uint32
<1>4. pos[Call1.crt_block] = s /\ s # Off
  BY <1>1, <1>2, <1>3 DEF Walking, Off
<1>5. sz \in Nat /\ s + sz <= Total
  BY <1>2, <1>3, <1>4, ListBlock
<1>6. off \in 0 .. Call1.align /\ (s = 0 => off = 0) /\ (Call1.align = 0 => off = 0)
  BY <1>3, NoOffsetAtStart
<1>7. Call1.nbytes + Call1.align < Word
  BY <1>2 DEF Asking
<1>8. /\ f.pc = "cut" /\ f.left = off /\ f.keep = Call1.nbytes
      /\ f.right = Minus(Minus(sz, Call1.nbytes), off)
      /\ f.result = Plus(Plus(MemStart, off), s)
      /\ f.ret = Call1.ret /\ f.id = Call1.id /\ f.nbytes = Call1.nbytes
      /\ f.align = Call1.align /\ f.markas = Call1.markas
      /\ f.crt_block = Call1.crt_block /\ f.prev_block = Call1.prev_block
  BY <1>1 DEF Frames
<1> HIDE DEF off, sz, s, f
<1>9. Call1.nbytes + off <= sz /\ off \in Nat
  BY <1>1, <1>3, <1>6, <1>7, KallocAssumption DEF Plus
<1>10. Minus(Minus(sz, Call1.nbytes), off) = sz - Call1.nbytes - off
  <2>1. Minus(sz, Call1.nbytes) = sz - Call1.nbytes
    BY <1>3, <1>5, <1>9 DEF Minus
  <2> QED BY <1>3, <1>5, <1>9, <2>1 DEF Minus
<1>11. Plus(Plus(MemStart, off), s) = MemStart + s + off
  <2>1. Plus(MemStart, off) = MemStart + off
    BY <1>3, <1>5, <1>9, KallocAssumption DEF Plus
  <2> QED BY <1>3, <1>5, <1>9, <2>1, KallocAssumption DEF Plus
<1>12. f.left + f.keep + f.right = sz
  BY <1>3, <1>5, <1>8, <1>9, <1>10
<1> QED BY <1>1, <1>3, <1>4, <1>6, <1>8, <1>11, <1>12 DEF off, sz, s, f

LEMMA ChooseSafe ==
  ASSUME IInv, TypeInv', depth = 1, Choose
  PROVE  IInv'
<1> DEFINE s   == Call1.block_start
           crt == Call1.crt_block
           f   == [Call1 EXCEPT !.pc = "cut",
                       !.left = OffsetRequired(Call1.align, s), !.keep = Call1.nbytes,
                       !.right = Minus(Minus(node[crt].size, Call1.nbytes),
                                       OffsetRequired(Call1.align, s)),
                       !.result = Plus(Plus(MemStart, OffsetRequired(Call1.align, s)), s)]
<1>1. /\ Call1.pc = "test" /\ Continue(f)
      /\ f.pc = "cut" /\ f.keep = Call1.nbytes
      /\ f.left + f.keep + f.right = node[crt].size
      /\ f.result = MemStart + s + f.left
      /\ f.ret = Call1.ret /\ f.id = Call1.id /\ f.nbytes = Call1.nbytes
      /\ f.align = Call1.align /\ f.markas = Call1.markas
      /\ f.crt_block = crt /\ f.prev_block = Call1.prev_block
      /\ s = 0 => f.left = 0
      /\ Call1.align = 0 => f.left = 0
      /\ crt \in Uint32 /\ Call1.prev_block \in Uint32
      /\ node[crt].used = 0 /\ pos[crt] = s /\ s # Off
  BY ChooseParts
<1> HIDE DEF f
<1>2. depth' = 1 /\ Call1' = f
  BY <1>1, OneFrame DEF IInv
<1>3. /\ UNCHANGED ListVars /\ held' = held /\ node' = node /\ pos' = pos
      /\ allocator_map' = allocator_map /\ free_blocks' = free_blocks
      /\ next_memblock_addr' = next_memblock_addr
  BY MemSame DEF Choose, ListVars
<1>4. Kind /\ Walking /\ Asking /\ Scanning /\ ~ In(Special) /\ ~ In(Cuts) /\ ~ In({"merge"})
      /\ ~ In({"insert"})
  BY <1>1 DEF IInv, Locals, In, Special, Cuts
<1>5. In(Cuts)' /\ ~ In({"merge"})' /\ ~ In({"insert"})' /\ (Initing' <=> Initing)
  BY <1>1, <1>2 DEF In, Cuts, Initing
<1>6. Views /\ Views'
  BY <1>2, View, ViewNext DEF IInv
<1>7. ASSUME NEW b \in Uint32
      PROVE  /\ Ext'[b] = Ext[b] /\ Aft'[b] = Aft[b] /\ Link'[b] = Link[b]
             /\ b # crt => Mrk'[b] = Mrk[b]
             /\ Mrk'[crt] # 0
  <2>1. /\ Ext[b] = node[b].size /\ Aft[b] = node[b].next /\ Mrk[b] = node[b].used
        /\ Link[b] = node[b].next /\ Link'[b] = node[b].next /\ Aft'[b] = node[b].next
    BY <1>3, <1>4, <1>5, <1>6 DEF Views
  <2>2. b # crt => Ext'[b] = node[b].size /\ Mrk'[b] = node[b].used
    BY <1>1, <1>2, <1>3, <1>6 DEF Views
  <2>3. Ext'[crt] = node[crt].size /\ Mrk'[crt] # 0
    <3>1. Ext'[crt] = f.left + f.keep + f.right /\ Mrk'[crt] = f.markas
      BY <1>1, <1>2, <1>5, <1>6 DEF Views
    <3> QED BY <1>1, <1>4, <3>1 DEF Asking
  <2> QED BY <2>1, <2>2, <2>3
<1>8. Ext' = Ext /\ Aft' = Aft /\ Link' = Link
  BY <1>6, <1>7, SameViews
<1>9. Layout'
  BY <1>2, <1>3, <1>5, Ready DEF IInv, Layout, ListVars
<1>10. Tiling'
  BY <1>3, <1>8 DEF IInv, Tiling
<1>11. Spares'
  <2>1. SpareSet' = SpareSet
    BY <1>3, <1>4, <1>5 DEF SpareSet, Spare, InTable
  <2> QED BY <1>3, <1>8, <2>1 DEF IInv, Spares
<1>12. Marks'
  <2>1. ASSUME NEW b \in Uint32, pos[b] # Off, Mrk'[b] = 0, Aft[b] # NULL
        PROVE  Mrk'[Aft[b]] # 0
    <3>1. Aft[b] \in Uint32
      BY <1>6, ViewTypes DEF Views
    <3>2. b # crt /\ Mrk[b] = 0
      BY <1>7, <2>1
    <3>3. Mrk[Aft[b]] # 0
      BY <1>4, <2>1, <3>2 DEF IInv, Marks
    <3> QED BY <1>7, <3>1, <3>3
  <2> QED BY <1>3, <1>8, <2>1 DEF IInv, Marks
<1>13. Holdings'
  BY <1>1, <1>2, <1>3, HeldSame DEF IInv, Holdings
<1>14. Kind' /\ Asking'
  BY <1>1, <1>2, <1>3, <1>4 DEF Kind, Asking
<1>15. Cutting'
  <2>1. f.ret = "init" => f.left = 0
    BY <1>1, <1>4 DEF Asking
  <2>2. ASSUME f.left # 0
        PROVE  /\ Call1.prev_block # NULL /\ pos[Call1.prev_block] # Off
               /\ node[Call1.prev_block].next = crt
               /\ node[Call1.prev_block].used # 0
    <3>1. Call1.prev_block # NULL
      BY <1>1, <1>4, <2>2, Ready DEF Scanning
    <3>2. /\ pos[Call1.prev_block] # Off /\ node[Call1.prev_block].next = crt
      BY <1>4, <3>1 DEF Scanning
    <3>3. crt # NULL
      BY <1>1, <1>4 DEF Walking
    <3> QED BY <1>1, <1>4, <3>1, <3>2, <3>3, ListBlock
  <2>3. node[crt].next # NULL => node[node[crt].next].used # 0
    BY <1>1, <1>4, ListBlock
  <2>4. f.result = MemStart + pos[crt] + f.left
    BY <1>1
  <2> HIDE DEF s, crt
  <2> QED BY <1>1, <1>2, <1>3, <2>1, <2>2, <2>3, <2>4 DEF Cutting, s, crt
<1> QED BY <1>1, <1>2, <1>9, <1>10, <1>11, <1>12, <1>13, <1>14, <1>15 DEF IInv, Locals

(* mkblock gives a struct to a part: the list is still as it was.          *)
LEMMA TakeStep ==
  ASSUME IInv, TypeInv', depth = 1, Call1.pc = "cut",
         NEW a, a = [Call1 EXCEPT !.pc = "insert", !.newblock = a.newblock],
         Continue(a), Pending,
         node' = node, pos' = pos, held' = held, unmarked' = unmarked,
         allocator_map' = allocator_map, page' = page,
         MemStart <= a.newblock, a.newblock < next_memblock_addr',
         pos[a.newblock] = Off,
         next_memblock_addr' = MemStart + page_depletion',
         next_memblock_addr <= next_memblock_addr'
  PROVE  /\ depth' = 1 /\ Call1' = a /\ Link' = Link
         /\ Layout' /\ Tiling' /\ Marks' /\ Locals' /\ Holdings'
<1>1. /\ Call1 \in Frames /\ depth' = 1 /\ Call1' = a /\ Top = Call1
  BY OneFrame DEF IInv
<1>2. /\ a.pc = "insert" /\ a.left = Call1.left /\ a.keep = Call1.keep
      /\ a.right = Call1.right /\ a.result = Call1.result
      /\ a.ret = Call1.ret /\ a.id = Call1.id /\ a.nbytes = Call1.nbytes
      /\ a.align = Call1.align /\ a.markas = Call1.markas
      /\ a.crt_block = Call1.crt_block /\ a.prev_block = Call1.prev_block
  BY <1>1 DEF Frames
<1>3. /\ In(Cuts) /\ In(Cuts)' /\ ~ In({"merge"}) /\ ~ In({"merge"})'
      /\ (Initing' <=> Initing)
  BY <1>1, <1>2 DEF In, Cuts, Initing
<1>4. Views /\ Views'
  BY <1>1, View, ViewNext DEF IInv
<1>5. \A b \in Uint32 : /\ Ext'[b] = Ext[b] /\ Aft'[b] = Aft[b] /\ Link'[b] = Link[b]
                        /\ Mrk'[b] = Mrk[b]
  BY <1>1, <1>2, <1>3, <1>4 DEF Views
<1>6. Ext' = Ext /\ Aft' = Aft /\ Link' = Link
  BY <1>4, <1>5, SameViews
<1>7. Layout'
  BY <1>1, <1>3, Ready DEF IInv, Layout
<1>8. Tiling'
  <2>1. next_memblock_addr \in Nat /\ next_memblock_addr' \in Nat
    BY VarTypes DEF IInv, Uint32, TypeInv, TypeOK
  <2> QED BY <1>6, <2>1, TiledGrow DEF IInv, Tiling
<1>9. Marks'
  <2>1. \A b \in Uint32 : Aft[b] \in Uint32
    BY <1>4, ViewTypes DEF Views
  <2> QED BY <1>3, <1>5, <2>1 DEF IInv, Marks
<1>10. Holdings'
  BY <1>1, <1>2, HeldSame DEF IInv, Holdings
<1>11. Kind /\ Asking /\ Cutting
  BY DEF IInv, Locals
<1>12. Kind' /\ Asking'
  BY <1>1, <1>2, <1>11 DEF Kind, Asking
<1>13. Cutting'
  BY <1>1, <1>2, <1>11 DEF Cutting, Pending, InTable
<1> QED BY <1>1, <1>2, <1>6, <1>7, <1>8, <1>9, <1>10, <1>12, <1>13 DEF Locals

LEMMA TakeFreeSafe ==
  ASSUME IInv, TypeInv', depth = 1, TakeFree
  PROVE  IInv'
<1> DEFINE a == [Call1 EXCEPT !.pc = "insert", !.newblock = free_blocks]
<1>1. /\ Call1 \in Frames /\ Call1.pc = "cut" /\ Continue(a) /\ Pending
      /\ free_blocks # NULL /\ free_blocks' = node[free_blocks].next
  BY OneFrame DEF IInv, TakeFree, NextSpare
<1>2. a.newblock = free_blocks /\ a.pc = "insert"
  BY <1>1 DEF Frames
<1> HIDE DEF a
<1>3. free_blocks \in SpareSet
  BY <1>1 DEF IInv, Spares, Chain
<1>4. InTable(free_blocks) /\ pos[free_blocks] = Off /\ free_blocks \in Uint32
  BY <1>3 DEF SpareSet, Spare
<1>5. /\ node' = node /\ pos' = pos /\ held' = held /\ unmarked' = unmarked
      /\ allocator_map' = allocator_map /\ page' = page
      /\ next_memblock_addr' = next_memblock_addr /\ page_depletion' = page_depletion
  BY DEF TakeFree, bump
<1>6. MemStart <= a.newblock /\ a.newblock < next_memblock_addr'
  BY <1>2, <1>4, <1>5 DEF InTable
<1>7. /\ next_memblock_addr' = MemStart + page_depletion'
      /\ next_memblock_addr <= next_memblock_addr'
  <2>1. next_memblock_addr \in Nat
    BY VarTypes DEF IInv, Uint32
  <2> QED BY <1>5, <2>1, Ready
<1>8. /\ depth' = 1 /\ Call1' = a /\ Link' = Link
      /\ Layout' /\ Tiling' /\ Marks' /\ Locals' /\ Holdings'
  BY <1>1, <1>2, <1>4, <1>5, <1>6, <1>7, TakeStep DEF a
<1>9. Spares'
  <2>1. SpareSet' = SpareSet \ {free_blocks}
    <3>1. ~ In({"insert"}) /\ In({"insert"})' /\ Call1'.newblock = free_blocks
      BY <1>1, <1>2, <1>8 DEF In
    <3>2. ASSUME NEW b \in Uint32 PROVE Spare(b)' <=> Spare(b) /\ b # free_blocks
      BY <1>5, <3>1 DEF Spare, InTable
    <3> QED BY <3>2 DEF SpareSet
  <2>2. Link[free_blocks] = node[free_blocks].next
    BY <1>4 DEF Link
  <2>3. Chain(SpareSet \ {free_blocks}, Link, Link[free_blocks])
    BY <1>1, ChainPop DEF IInv, Spares
  <2> QED BY <1>1, <1>8, <2>1, <2>2, <2>3 DEF Spares
<1> QED BY <1>8, <1>9 DEF IInv

LEMMA CarveSafe ==
  ASSUME IInv, TypeInv', depth = 1, Carve
  PROVE  IInv'
<1> DEFINE a == [Call1 EXCEPT !.pc = "insert", !.newblock = next_memblock_addr]
<1>1. /\ Call1 \in Frames /\ Call1.pc = "cut" /\ Continue(a) /\ Pending
      /\ free_blocks = NULL /\ page_depletion # MEMBLOCKS_PER_PAGE
  BY OneFrame DEF IInv, Carve, TableFull, Locals, Kind
<1>2. a.newblock = next_memblock_addr /\ a.pc = "insert"
  BY <1>1 DEF Frames
<1> HIDE DEF a
<1>3. /\ node' = node /\ pos' = pos /\ held' = held /\ unmarked' = unmarked
      /\ allocator_map' = allocator_map /\ page' = page /\ free_blocks' = free_blocks
      /\ next_memblock_addr' = Plus(next_memblock_addr, 1)
      /\ page_depletion' = page_depletion + 1
  BY DEF Carve
<1>4. /\ next_memblock_addr \in Uint32 /\ next_memblock_addr \in Nat
      /\ next_memblock_addr = MemStart + page_depletion
      /\ page_depletion \in Nat /\ page_depletion < MEMBLOCKS_PER_PAGE
  <2>1. page_depletion \in 0 .. MEMBLOCKS_PER_PAGE /\ next_memblock_addr \in Uint32
    BY VarTypes DEF IInv
  <2> QED BY <1>1, <2>1, Ready, KallocAssumption DEF Uint32
<1>5. /\ next_memblock_addr' = next_memblock_addr + 1
      /\ next_memblock_addr' = MemStart + page_depletion'
  BY <1>3, <1>4, KallocAssumption DEF Plus
<1>6. pos[next_memblock_addr] = Off
  <2>1. pos[next_memblock_addr] # Off => next_memblock_addr < next_memblock_addr
    BY <1>4, TiledOne DEF IInv, Tiling
  <2> QED BY <1>4, <2>1
<1>7. MemStart <= a.newblock /\ a.newblock < next_memblock_addr'
  BY <1>2, <1>4, <1>5, KallocAssumption
<1>8. /\ depth' = 1 /\ Call1' = a /\ Link' = Link
      /\ Layout' /\ Tiling' /\ Marks' /\ Locals' /\ Holdings'
  <2>1. next_memblock_addr <= next_memblock_addr'
    BY <1>4, <1>5
  <2> QED BY <1>1, <1>2, <1>3, <1>5, <1>6, <1>7, <2>1, TakeStep DEF a
<1>9. Spares'
  <2>1. SpareSet' = SpareSet
    <3>1. ~ In({"insert"}) /\ In({"insert"})' /\ Call1'.newblock = next_memblock_addr
      BY <1>1, <1>2, <1>8 DEF In
    <3>2. ASSUME NEW b \in Uint32
          PROVE  InTable(b)' <=> InTable(b) \/ b = next_memblock_addr
      BY <1>4, <1>5, KallocAssumption DEF InTable, Uint32
    <3>3. ~ InTable(next_memblock_addr)
      BY <1>4 DEF InTable
    <3>4. ASSUME NEW b \in Uint32 PROVE Spare(b)' <=> Spare(b)
      BY <1>3, <3>1, <3>2, <3>3 DEF Spare
    <3> QED BY <3>4 DEF SpareSet
  <2> QED BY <1>3, <1>8, <2>1 DEF IInv, Spares
<1> QED BY <1>8, <1>9 DEF IInv

(* The block being cut and the struct to be inserted next to it.           *)
LEMMA InsertBlocks ==
  ASSUME IInv, depth = 1, Call1.pc = "insert"
  PROVE  LET crt == Call1.crt_block
             new == Call1.newblock
         IN  /\ Call1 \in Frames /\ Top = Call1 /\ Kind /\ Asking /\ Cutting
             /\ crt \in Uint32 /\ new \in Uint32 /\ Call1.prev_block \in Uint32
             /\ node \in [Uint32 -> Blocks] /\ pos \in [Uint32 -> Uint32 \cup {Off}]
             /\ pos[crt] \in Nat /\ pos[crt] # Off /\ pos[new] = Off /\ new # crt
             /\ MemStart <= new /\ new < next_memblock_addr /\ new # NULL
             /\ Call1.left \in Nat /\ Call1.keep \in Nat /\ Call1.right \in Nat
             /\ Call1.left \in Uint32 /\ Call1.right \in Uint32
             /\ Call1.keep > 0 /\ Call1.markas # 0 /\ NULL = 0 /\ Off = -1
             /\ Ext[crt] = Call1.left + Call1.keep + Call1.right
             /\ pos[crt] + Ext[crt] <= Total
             /\ Mrk[crt] = Call1.markas /\ Aft[crt] = node[crt].next
             /\ next_memblock_addr \in Nat /\ Views
             /\ In(Cuts) /\ ~ In({"merge"})
<1>1. /\ Call1 \in Frames /\ Top = Call1 /\ Kind /\ Asking /\ Cutting
      /\ In(Cuts) /\ ~ In({"merge"})
  BY OneFrame DEF IInv, Locals, In, Cuts
<1>2. /\ Call1.crt_block \in Uint32 /\ Call1.newblock \in Uint32
      /\ Call1.prev_block \in Uint32
      /\ Call1.left \in Uint32 /\ Call1.keep \in Uint32 /\ Call1.right \in Uint32
      /\ Call1.left \in Nat /\ Call1.keep \in Nat /\ Call1.right \in Nat
  BY <1>1 DEF Frames, Uint32
<1>3. /\ node \in [Uint32 -> Blocks] /\ pos \in [Uint32 -> Uint32 \cup {Off}]
      /\ next_memblock_addr \in Nat
  BY VarTypes DEF IInv, Uint32
<1>4. /\ pos[Call1.crt_block] # Off /\ pos[Call1.newblock] = Off
      /\ MemStart <= Call1.newblock /\ Call1.newblock < next_memblock_addr
      /\ Call1.keep = Call1.nbytes /\ Call1.nbytes > 0 /\ Call1.markas # 0
  BY <1>1 DEF Cutting, Asking, InTable
<1>5. pos[Call1.crt_block] \in Nat
  BY <1>2, <1>3, <1>4 DEF Uint32
<1>6. Views
  BY View DEF IInv
<1>7. /\ Ext[Call1.crt_block] = Call1.left + Call1.keep + Call1.right
      /\ Mrk[Call1.crt_block] = Call1.markas
      /\ Aft[Call1.crt_block] = node[Call1.crt_block].next
  BY <1>1, <1>2, <1>6 DEF Views
<1>8. pos[Call1.crt_block] + Ext[Call1.crt_block] <= Total
  BY <1>2, <1>4, TiledOne DEF IInv, Tiling
<1>9. NULL = 0 /\ Off = -1 /\ Call1.newblock # NULL
  BY <1>2, <1>4, Ready, KallocAssumption DEF Uint32
<1> QED BY <1>1, <1>2, <1>3, <1>4, <1>5, <1>6, <1>7, <1>8, <1>9

LEMMA InsertRightSafe ==
  ASSUME IInv, TypeInv', depth = 1, InsertRight
  PROVE  IInv'
<1> DEFINE crt == Call1.crt_block
           new == Call1.newblock
           a   == [Call1 EXCEPT !.pc = "cut", !.right = 0]
<1>1. /\ Call1.pc = "insert" /\ Call1.right # 0 /\ Continue(a)
      /\ node' = [node EXCEPT
           ![new] = [size |-> Call1.right, used |-> 0, next |-> node[crt].next],
           ![crt].next = new]
      /\ pos' = [pos EXCEPT ![new] =
                   Plus(Plus(pos[crt], Call1.left), Call1.keep)]
  BY OneFrame DEF IInv, InsertRight
<1>2. /\ Call1 \in Frames /\ Kind /\ Asking /\ Cutting
      /\ crt \in Uint32 /\ new \in Uint32 /\ Call1.prev_block \in Uint32
      /\ node \in [Uint32 -> Blocks] /\ pos \in [Uint32 -> Uint32 \cup {Off}]
      /\ pos[crt] \in Nat /\ pos[crt] # Off /\ pos[new] = Off /\ new # crt
      /\ MemStart <= new /\ new < next_memblock_addr /\ new # NULL
      /\ Call1.left \in Nat /\ Call1.keep \in Nat /\ Call1.right \in Nat
      /\ Call1.keep > 0 /\ Call1.markas # 0 /\ NULL = 0 /\ Off = -1
      /\ Ext[crt] = Call1.left + Call1.keep + Call1.right
      /\ pos[crt] + Ext[crt] <= Total
      /\ Mrk[crt] = Call1.markas /\ Aft[crt] = node[crt].next
      /\ next_memblock_addr \in Nat /\ Views /\ In(Cuts) /\ ~ In({"merge"})
  BY <1>1, InsertBlocks
<1>3. /\ depth' = 1 /\ Call1' = a
  BY <1>1, OneFrame DEF IInv
<1>4. /\ a.pc = "cut" /\ a.right = 0 /\ a.left = Call1.left /\ a.keep = Call1.keep
      /\ a.ret = Call1.ret /\ a.id = Call1.id /\ a.nbytes = Call1.nbytes
      /\ a.align = Call1.align /\ a.markas = Call1.markas /\ a.result = Call1.result
      /\ a.crt_block = crt /\ a.prev_block = Call1.prev_block
  BY <1>2 DEF Frames
<1>5. Plus(Plus(pos[crt], Call1.left), Call1.keep) = pos[crt] + Call1.left + Call1.keep
  <2> HIDE DEF crt
  <2>1. pos[crt] + Call1.left + Call1.keep < Word
    BY <1>2, KallocAssumption
  <2>2. pos[crt] + Call1.left < Word /\ pos[crt] + Call1.left \in Nat
    BY <1>2, <2>1, KallocAssumption
  <2>3. Plus(pos[crt], Call1.left) = pos[crt] + Call1.left
    BY <2>2 DEF Plus
  <2> QED BY <2>1, <2>3 DEF Plus
<1>6. /\ node'[new] = [size |-> Call1.right, used |-> 0, next |-> node[crt].next]
      /\ node'[crt].next = new /\ node'[crt].used = node[crt].used
      /\ node'[crt].size = node[crt].size
      /\ \A b \in Uint32 : b # new /\ b # crt => node'[b] = node[b]
      /\ pos'[new] = pos[crt] + Call1.left + Call1.keep
      /\ \A b \in Uint32 : b # new => pos'[b] = pos[b]
      /\ pos'[new] # Off
  <2>1. node[crt] \in Blocks
    BY <1>2
  <2>2. pos'[new] = pos[crt] + Call1.left + Call1.keep
    BY <1>1, <1>2, <1>5
  <2>3. pos[crt] + Call1.left + Call1.keep # Off
    BY <1>2
  <2> HIDE DEF crt, new
  <2> QED BY <1>1, <1>2, <2>1, <2>2, <2>3 DEF Blocks
<1>7. /\ held' = held /\ unmarked' = unmarked /\ allocator_map' = allocator_map
      /\ page' = page /\ free_blocks' = free_blocks
      /\ next_memblock_addr' = next_memblock_addr /\ page_depletion' = page_depletion
  BY DEF InsertRight, bump
<1> HIDE DEF crt, new, a
<1>8. In(Cuts)' /\ ~ In({"merge"})' /\ ~ In({"insert"})' /\ (Initing' <=> Initing)
      /\ In({"insert"})
  BY <1>1, <1>3, <1>4, OneFrame DEF In, Cuts, Initing
<1>9. Views'
  BY <1>3, ViewNext
<1>10. /\ Ext'[new] = Call1.right /\ Mrk'[new] = 0 /\ Aft'[new] = Aft[crt]
       /\ Ext'[crt] = Call1.left + Call1.keep /\ Mrk'[crt] # 0 /\ Aft'[crt] = new
       /\ Link'[crt] = new
       /\ \A b \in Uint32 : b # crt /\ b # new =>
            Ext'[b] = Ext[b] /\ Mrk'[b] = Mrk[b] /\ Aft'[b] = Aft[b] /\ Link'[b] = Link[b]
  <2>1. /\ Mrk'[crt] = Call1.markas /\ Aft'[crt] = new /\ Link'[crt] = new
    BY <1>2, <1>3, <1>4, <1>6, <1>8, <1>9 DEF Views
  <2>2. Ext'[crt] = Call1.left + Call1.keep
    <3>1. Ext'[crt] = Call1.left + Call1.keep + 0
      BY <1>2, <1>3, <1>4, <1>8, <1>9 DEF Views
    <3> QED BY <1>2, <3>1
  <2>3. Ext'[new] = Call1.right /\ Mrk'[new] = 0 /\ Aft'[new] = node[crt].next
    BY <1>2, <1>3, <1>4, <1>6, <1>8, <1>9 DEF Views
  <2>4. ASSUME NEW b \in Uint32, b # crt, b # new
        PROVE  Ext'[b] = Ext[b] /\ Mrk'[b] = Mrk[b] /\ Aft'[b] = Aft[b] /\ Link'[b] = Link[b]
    BY <1>2, <1>3, <1>4, <1>6, <1>8, <1>9, <2>4 DEF Views, crt
  <2> QED BY <1>2, <2>1, <2>2, <2>3, <2>4
<1>11. /\ Aft[crt] # NULL => Aft[crt] # crt /\ Aft[crt] # new /\ Aft[crt] \in Uint32
       /\ \A b \in Uint32 : pos[b] # Off => Aft[b] \in Uint32 /\ Aft[b] # new
  <2>1. ASSUME NEW b \in Uint32, pos[b] # Off
        PROVE  /\ Aft[b] \in Uint32 /\ (Aft[b] # NULL => pos[Aft[b]] # Off)
               /\ Aft[b] # NULL => Aft[b] # b
    BY <1>2, <2>1, OneBlockAt, ViewTypes DEF IInv, Tiling, Views
  <2> QED BY <1>2, <2>1
<1>12. Tiling'
  <2>1. Tiled(pos, Ext, Aft, next_memblock_addr)
    BY DEF IInv, Tiling
  <2>2. /\ pos' \in Starts /\ Ext' \in Extents /\ Aft' \in Nexts
        /\ pos \in Starts /\ Ext \in Extents /\ Aft \in Nexts
    BY <1>2, <1>9 DEF Views
  <2> DEFINE x == Call1.left + Call1.keep
             y == Call1.right
  <2>3. /\ x \in Nat /\ y \in Nat /\ x > 0 /\ y > 0 /\ Ext[crt] = x + y
        /\ pos'[new] = pos[crt] + x
    BY <1>1, <1>2, <1>6
  <2>4. /\ Ext'[new] = y /\ Aft'[new] = Aft[crt] /\ Ext'[crt] = x /\ Aft'[crt] = new
        /\ pos'[crt] = pos[crt]
    BY <1>2, <1>6, <1>10
  <2>5. \A b \in Uint32 : b # crt /\ b # new =>
          pos'[b] = pos[b] /\ Ext'[b] = Ext[b] /\ Aft'[b] = Aft[b]
    BY <1>6, <1>10
  <2> HIDE DEF x, y
  <2>6. Tiled(pos', Ext', Aft', next_memblock_addr)
    <3>1. /\ next_memblock_addr \in Nat /\ crt \in Uint32 /\ new \in Uint32
          /\ pos[crt] # Off /\ pos[new] = Off /\ new # NULL
          /\ MemStart <= new /\ new < next_memblock_addr
      BY <1>2
    <3> QED BY <2>1, <2>2, <2>3, <2>4, <2>5, <3>1, SplitRight
  <2> QED BY <1>7, <2>6 DEF Tiling
<1>13. Spares'
  <2>1. SpareSet' = SpareSet
    <3>1. \A b \in Uint32 : Spare(b)' <=> Spare(b)
      BY <1>6, <1>7, <1>8 DEF Spare, InTable, new
    <3> QED BY <3>1 DEF SpareSet
  <2>2. \A b \in SpareSet : Link'[b] = Link[b]
    <3>1. \A b \in SpareSet : b \in Uint32 /\ b # crt /\ b # new
      BY <1>2, <1>8 DEF SpareSet, Spare, new
    <3> QED BY <1>10, <3>1
  <2>3. Chain(SpareSet, Link', free_blocks)
    BY <2>2, ChainSame DEF IInv, Spares
  <2> QED BY <1>7, <2>1, <2>3 DEF Spares
<1>14. Layout'
  <2>1. pos'[MemStart] = 0
    BY <1>2, <1>6, Ready
  <2>2. node'[MemStart].used = node[MemStart].used /\ node'[MemStart].size = node[MemStart].size
    BY <1>2, <1>6, Ready
  <2> QED BY <1>7, <1>8, <2>1, <2>2, Ready DEF IInv, Layout
<1>15. Marks'
  <2>1. ASSUME NEW b \in Uint32, pos'[b] # Off, b # MemStart
        PROVE  node'[b].used \in {0, 1}
    <3>1. CASE b = new
      BY <1>6, <3>1
    <3>2. CASE b # new
      <4>1. node[b].used \in {0, 1}
        BY <1>6, <2>1, <3>2 DEF IInv, Marks
      <4> QED BY <1>2, <1>6, <3>2, <4>1
    <3> QED BY <3>1, <3>2
  <2>2. ASSUME NEW b \in Uint32, pos'[b] # Off, Mrk'[b] = 0, Aft'[b] # NULL
        PROVE  Mrk'[Aft'[b]] # 0
    <3>1. b # crt
      BY <1>10, <2>2
    <3>2. CASE b = new
      <4>1. Aft'[b] = Aft[crt] /\ Aft[crt] # NULL /\ Aft[crt] = node[crt].next
        BY <1>2, <1>10, <2>2, <3>2
      <4>2. node[Aft[crt]].used # 0
        BY <1>1, <1>2, <4>1 DEF Cutting, crt
      <4>3. Aft[crt] # crt /\ Aft[crt] # new /\ Aft[crt] \in Uint32
        BY <1>11, <4>1
      <4>4. Mrk[Aft[crt]] = node[Aft[crt]].used
        BY <1>2, <4>3 DEF Views, crt
      <4> QED BY <1>10, <4>1, <4>2, <4>3, <4>4
    <3>3. CASE b # new
      <4>1. Aft'[b] = Aft[b] /\ Mrk[b] = 0 /\ pos[b] # Off
        BY <1>6, <1>10, <2>2, <3>1, <3>3
      <4>2. Mrk[Aft[b]] # 0
        BY <1>2, <2>2, <4>1 DEF IInv, Marks
      <4> QED BY <1>10, <1>11, <4>1, <4>2
    <3> QED BY <3>2, <3>3
  <2> QED BY <2>1, <2>2 DEF Marks
<1>16. Holdings'
  <2>1. ASSUME NEW i \in Ids, NEW b \in Uint32, HeldBlock(i, b)
        PROVE  HeldBlock(i, b)'
    <3>1. b # crt /\ b # new
      BY <1>2, <2>1 DEF HeldBlock, Cutting, crt
    <3> QED BY <1>6, <1>7, <2>1, <3>1 DEF HeldBlock
  <2> QED BY <1>3, <1>4, <1>7, <2>1 DEF IInv, Holdings
<1>17. Kind' /\ Asking'
  BY <1>2, <1>3, <1>4, <1>7 DEF Kind, Asking, crt
<1>18. Cutting'
  <2>1. a.left # 0 =>
          /\ Call1.prev_block # NULL /\ pos[Call1.prev_block] # Off
          /\ node[Call1.prev_block].next = crt /\ node[Call1.prev_block].used # 0
    BY <1>2, <1>4 DEF Cutting, crt
  <2>2. ASSUME a.left # 0 PROVE Call1.prev_block # crt /\ Call1.prev_block # new
    BY <1>2, <2>1, <2>2 DEF Cutting, crt
  <2>3. a.left # 0 =>
          /\ pos'[Call1.prev_block] # Off
          /\ node'[Call1.prev_block].next = crt /\ node'[Call1.prev_block].used # 0
    BY <1>2, <1>6, <2>1, <2>2
  <2>4. pos'[crt] = pos[crt] /\ node'[crt].used = 0
    BY <1>2, <1>6 DEF Cutting, crt
  <2>5. a.result = MemStart + pos[crt] + a.left /\ a.keep = a.nbytes
        /\ (a.ret = "init" => a.left = 0)
    BY <1>2, <1>4 DEF Cutting, crt
  <2>6. pos'[crt] # Off
    BY <1>2, <2>4
  <2>7. a.left # 0 => Call1.prev_block # NULL
    BY <2>1
  <2> QED BY <1>3, <1>4, <2>3, <2>4, <2>5, <2>6, <2>7 DEF Cutting
<1> QED BY <1>3, <1>4, <1>12, <1>13, <1>14, <1>15, <1>16, <1>17, <1>18 DEF IInv, Locals

LEMMA InsertLeftSafe ==
  ASSUME IInv, TypeInv', depth = 1, InsertLeft
  PROVE  IInv'
<1> DEFINE crt  == Call1.crt_block
           new  == Call1.newblock
           prev == Call1.prev_block
           a    == [Call1 EXCEPT !.pc = "cut", !.left = 0]
<1>1. /\ Call1.pc = "insert" /\ Call1.right = 0 /\ Continue(a)
      /\ node' = [node EXCEPT
           ![new] = [size |-> Call1.left, used |-> 0, next |-> crt],
           ![prev].next = new]
      /\ pos' = [pos EXCEPT ![new] = pos[crt],
                            ![crt] = Plus(pos[crt], Call1.left)]
  BY OneFrame DEF IInv, InsertLeft
<1>2. /\ Call1 \in Frames /\ Kind /\ Asking /\ Cutting
      /\ crt \in Uint32 /\ new \in Uint32 /\ prev \in Uint32
      /\ node \in [Uint32 -> Blocks] /\ pos \in [Uint32 -> Uint32 \cup {Off}]
      /\ pos[crt] \in Nat /\ pos[crt] # Off /\ pos[new] = Off /\ new # crt
      /\ MemStart <= new /\ new < next_memblock_addr /\ new # NULL
      /\ Call1.left \in Nat /\ Call1.keep \in Nat /\ Call1.right \in Nat
      /\ Call1.keep > 0 /\ Call1.markas # 0 /\ NULL = 0 /\ Off = -1
      /\ Ext[crt] = Call1.left + Call1.keep + Call1.right
      /\ pos[crt] + Ext[crt] <= Total
      /\ Mrk[crt] = Call1.markas /\ Aft[crt] = node[crt].next
      /\ next_memblock_addr \in Nat /\ Views /\ In(Cuts) /\ ~ In({"merge"})
  BY <1>1, InsertBlocks
<1>3. /\ Call1.left # 0 /\ Call1.ret # "init"
      /\ pos[prev] # Off /\ node[prev].next = crt /\ node[prev].used # 0
      /\ node[crt].used = 0
  BY <1>1, <1>2 DEF Cutting
<1>4. /\ depth' = 1 /\ Call1' = a
  BY <1>1, OneFrame DEF IInv
<1>5. /\ a.pc = "cut" /\ a.right = 0 /\ a.left = 0 /\ a.keep = Call1.keep
      /\ a.ret = Call1.ret /\ a.id = Call1.id /\ a.nbytes = Call1.nbytes
      /\ a.align = Call1.align /\ a.markas = Call1.markas /\ a.result = Call1.result
      /\ a.crt_block = crt /\ a.prev_block = prev
  BY <1>1, <1>2 DEF Frames
<1> HIDE DEF crt, new, prev
<1>6. /\ crt # MemStart /\ crt # NULL /\ node[MemStart].used = 3
      /\ node[MemStart].size = PageSize
  <2>1. node[MemStart].used = 3 /\ node[MemStart].size = PageSize
    BY <1>3, Ready DEF IInv, Layout, Initing
  <2>2. MemStart <= crt
    BY <1>2, TiledOne DEF IInv, Tiling
  <2>3. crt # MemStart
    BY <1>3, <2>1
  <2>4. crt # NULL
    <3>1. crt \in Nat /\ MemStart \in Nat /\ MemStart > 0
      BY <1>2, Ready, KallocAssumption DEF Uint32
    <3> QED BY <1>2, <2>2, <3>1
  <2> QED BY <2>1, <2>3, <2>4
<1>7. prev # new /\ prev # crt /\ Aft[prev] = crt
  <2>1. Aft[prev] = crt
    BY <1>2, <1>3 DEF Views
  <2>2. prev # crt
    BY <1>2, <1>3, <1>6, <2>1, OneBlockAt DEF IInv, Tiling, Views
  <2> QED BY <1>2, <1>3, <2>1, <2>2
<1>8. Plus(pos[crt], Call1.left) = pos[crt] + Call1.left
  BY <1>2, KallocAssumption DEF Plus
<1>9. /\ node'[new] = [size |-> Call1.left, used |-> 0, next |-> crt]
      /\ node'[prev].next = new /\ node'[prev].used = node[prev].used
      /\ node'[prev].size = node[prev].size
      /\ \A b \in Uint32 : b # new /\ b # prev => node'[b] = node[b]
      /\ pos'[new] = pos[crt] /\ pos'[crt] = pos[crt] + Call1.left
      /\ \A b \in Uint32 : b # new /\ b # crt => pos'[b] = pos[b]
      /\ pos'[crt] # Off
  <2>1. node[prev] \in Blocks
    BY <1>2
  <2>2. /\ pos'[crt] = pos[crt] + Call1.left /\ pos'[new] = pos[crt]
        /\ \A b \in Uint32 : b # new /\ b # crt => pos'[b] = pos[b]
    BY <1>1, <1>2, <1>8 DEF crt, new
  <2>3. pos[crt] + Call1.left # Off
    BY <1>2
  <2>4. node' = [node EXCEPT ![new] = [size |-> Call1.left, used |-> 0, next |-> crt],
                             ![prev].next = new]
    BY <1>1 DEF crt, new, prev
  <2> QED BY <1>2, <1>7, <2>1, <2>2, <2>3, <2>4 DEF Blocks
<1>10. /\ held' = held /\ unmarked' = unmarked /\ allocator_map' = allocator_map
       /\ page' = page /\ free_blocks' = free_blocks
       /\ next_memblock_addr' = next_memblock_addr /\ page_depletion' = page_depletion
  BY DEF InsertLeft, bump
<1> HIDE DEF a
<1>11. In(Cuts)' /\ ~ In({"merge"})' /\ ~ In({"insert"})' /\ ~ Initing' /\ ~ Initing
       /\ In({"insert"})
  BY <1>1, <1>3, <1>4, <1>5, OneFrame DEF In, Cuts, Initing
<1>12. Views'
  BY <1>4, ViewNext
<1>13. /\ Ext'[new] = Call1.left /\ Mrk'[new] = 0 /\ Aft'[new] = crt
       /\ Ext'[crt] = Call1.keep /\ Mrk'[crt] # 0 /\ Aft'[crt] = Aft[crt]
       /\ Aft'[prev] = new
       /\ \A b \in Uint32 : b # crt /\ b # new => Ext'[b] = Ext[b] /\ Mrk'[b] = Mrk[b]
       /\ \A b \in Uint32 : b # new /\ b # prev => Aft'[b] = Aft[b] /\ Link'[b] = Link[b]
  <2>1. Mrk'[crt] # 0
    BY <1>2, <1>4, <1>5, <1>11, <1>12 DEF Views
  <2>2. Ext'[crt] = Call1.keep
    <3>1. Ext'[crt] = 0 + Call1.keep + 0
      BY <1>2, <1>4, <1>5, <1>11, <1>12 DEF Views
    <3> QED BY <1>2, <3>1
  <2>3. Ext'[new] = Call1.left /\ Mrk'[new] = 0 /\ Aft'[new] = crt
    BY <1>2, <1>4, <1>5, <1>9, <1>11, <1>12 DEF Views
  <2>4. ASSUME NEW b \in Uint32, b # crt, b # new
        PROVE  Ext'[b] = Ext[b] /\ Mrk'[b] = Mrk[b]
    <3>1. node'[b].size = node[b].size /\ node'[b].used = node[b].used
      BY <1>9, <2>4
    <3> QED BY <1>2, <1>4, <1>5, <1>11, <1>12, <2>4, <3>1 DEF Views, crt
  <2>5. ASSUME NEW b \in Uint32, b # new, b # prev
        PROVE  Aft'[b] = Aft[b] /\ Link'[b] = Link[b]
    BY <1>2, <1>9, <1>11, <1>12, <2>5 DEF Views
  <2>6. Aft'[prev] = new
    BY <1>2, <1>9, <1>11, <1>12 DEF Views
  <2> QED BY <1>2, <1>7, <2>1, <2>2, <2>3, <2>4, <2>5, <2>6
<1>14. Tiling'
  <2>1. Tiled(pos, Ext, Aft, next_memblock_addr)
    BY DEF IInv, Tiling
  <2>2. /\ pos' \in Starts /\ Ext' \in Extents /\ Aft' \in Nexts
        /\ pos \in Starts /\ Ext \in Extents /\ Aft \in Nexts
    BY <1>2, <1>12 DEF Views
  <2> DEFINE x == Call1.left
             y == Call1.keep
  <2>3. /\ x \in Nat /\ y \in Nat /\ x > 0 /\ y > 0 /\ Ext[crt] = x + y
    BY <1>1, <1>2, <1>3
  <2>4. /\ pos'[new] = pos[crt] /\ Ext'[new] = x /\ Aft'[new] = crt
        /\ pos'[crt] = pos[crt] + x /\ Ext'[crt] = y /\ Aft'[crt] = Aft[crt]
        /\ Aft'[prev] = new
    BY <1>9, <1>13
  <2>5. /\ \A b \in Uint32 : b # crt /\ b # new => pos'[b] = pos[b] /\ Ext'[b] = Ext[b]
        /\ \A b \in Uint32 : b # new /\ b # prev => Aft'[b] = Aft[b]
    BY <1>9, <1>13
  <2> HIDE DEF x, y
  <2>6. Tiled(pos', Ext', Aft', next_memblock_addr)
    <3>1. /\ next_memblock_addr \in Nat /\ crt \in Uint32 /\ new \in Uint32
          /\ prev \in Uint32 /\ pos[prev] # Off /\ Aft[prev] = crt /\ crt # NULL
          /\ pos[crt] # Off /\ pos[new] = Off /\ new # NULL
          /\ MemStart <= new /\ new < next_memblock_addr
      BY <1>2, <1>3, <1>6, <1>7
    <3> QED BY <2>1, <2>2, <2>3, <2>4, <2>5, <3>1, SplitLeft, SMTT(40)
  <2> QED BY <1>10, <2>6 DEF Tiling
<1>15. Spares'
  <2>1. SpareSet' = SpareSet
    <3>1. \A b \in Uint32 : Spare(b)' <=> Spare(b)
      BY <1>2, <1>9, <1>10, <1>11 DEF Spare, InTable, new
    <3> QED BY <3>1 DEF SpareSet
  <2>2. \A b \in SpareSet : Link'[b] = Link[b]
    <3>1. \A b \in SpareSet : b \in Uint32 /\ b # prev /\ b # new
      BY <1>3, <1>11 DEF SpareSet, Spare, new
    <3> QED BY <1>13, <3>1
  <2>3. Chain(SpareSet, Link', free_blocks)
    BY <2>2, ChainSame DEF IInv, Spares
  <2> QED BY <1>10, <2>1, <2>3 DEF Spares
<1>16. Layout'
  <2>1. pos'[MemStart] = 0
    BY <1>2, <1>6, <1>9, Ready
  <2>2. node'[MemStart].used = 3 /\ node'[MemStart].size = PageSize
    BY <1>2, <1>6, <1>9, Ready
  <2> QED BY <1>10, <2>1, <2>2, Ready DEF IInv, Layout
<1>17. Marks'
  <2>1. ASSUME NEW b \in Uint32, pos'[b] # Off, b # MemStart
        PROVE  node'[b].used \in {0, 1}
    <3>1. CASE b = new
      BY <1>9, <3>1
    <3>2. CASE b # new
      <4>1. pos[b] # Off
        BY <1>2, <1>9, <2>1, <3>2
      <4>2. node[b].used \in {0, 1}
        BY <2>1, <4>1 DEF IInv, Marks
      <4> QED BY <1>9, <3>2, <4>2
    <3> QED BY <3>1, <3>2
  <2>2. ASSUME NEW b \in Uint32, pos'[b] # Off, Mrk'[b] = 0, Aft'[b] # NULL
        PROVE  Mrk'[Aft'[b]] # 0
    <3>1. b # crt
      BY <1>13, <2>2
    <3>2. CASE b = new
      BY <1>13, <3>2
    <3>3. CASE b # new
      <4>1. Mrk[b] = 0 /\ pos[b] # Off
        BY <1>9, <1>13, <2>2, <3>1, <3>3
      <4>2. Mrk[prev] = node[prev].used
        BY <1>2, <1>7 DEF Views, crt
      <4>3. b # prev
        BY <1>3, <4>1, <4>2
      <4>4. Aft'[b] = Aft[b] /\ Aft[b] # NULL
        BY <1>13, <2>2, <3>3, <4>3
      <4>5. Mrk[Aft[b]] # 0
        BY <1>2, <4>1, <4>4 DEF IInv, Marks
      <4>6. Aft[b] \in Uint32 /\ Aft[b] # new
        <5>1. pos[Aft[b]] # Off /\ Aft[b] \in Uint32
          BY <1>2, <4>1, <4>4, OneBlockAt, ViewTypes DEF IInv, Tiling, Views
        <5> QED BY <1>2, <5>1
      <4> QED BY <1>13, <4>4, <4>5, <4>6
    <3> QED BY <3>2, <3>3
  <2> QED BY <2>1, <2>2 DEF Marks
<1>18. Holdings'
  <2>1. ASSUME NEW i \in Ids, NEW b \in Uint32, HeldBlock(i, b)
        PROVE  HeldBlock(i, b)'
    <3>1. b # crt /\ b # new
      BY <1>2, <1>3, <2>1 DEF HeldBlock
    <3>2. pos'[b] = pos[b] /\ node'[b].size = node[b].size /\ node'[b].used = node[b].used
      BY <1>9, <3>1
    <3> QED BY <1>10, <2>1, <3>2 DEF HeldBlock
  <2> QED BY <1>4, <1>5, <1>10, <2>1 DEF IInv, Holdings
<1>19. Kind' /\ Asking'
  BY <1>2, <1>3, <1>4, <1>5, <1>10 DEF Kind, Asking
<1>20. Cutting'
  <2>1. pos'[crt] # Off /\ node'[crt].used = 0
    BY <1>2, <1>3, <1>7, <1>9
  <2>2. a.result = MemStart + pos'[crt] + a.left
    <3>1. a.result = MemStart + pos[crt] + Call1.left
      BY <1>2, <1>5 DEF Cutting, crt
    <3> QED BY <1>2, <1>5, <1>9, <3>1, KallocAssumption
  <2>3. a.keep = a.nbytes
    BY <1>2, <1>5 DEF Cutting
  <2> QED BY <1>4, <1>5, <2>1, <2>2, <2>3 DEF Cutting
<1> QED BY <1>4, <1>5, <1>14, <1>15, <1>16, <1>17, <1>18, <1>19, <1>20 DEF IInv, Locals

LEMMA TiledSame ==
  ASSUME NEW p, NEW e, NEW n, NEW top, Tiled(p, e, n, top), NEW e2, NEW n2,
         \A b \in Uint32 : p[b] # Off => e2[b] = e[b] /\ n2[b] = n[b]
  PROVE  Tiled(p, e2, n2, top)
  BY DEF Tiled

(* The extent being claimed is block crt_block, beyond the page of structs,*)
(* so that zeroing it leaves the structs alone.                            *)
LEMMA ClaimNode ==
  ASSUME IInv, depth = 1, Claim
  PROVE  LET crt == Call1.crt_block
         IN  /\ Call1 \in Frames /\ Kind /\ Asking /\ crt \in Uint32
             /\ Call1.pc = "cut" /\ Call1.keep = Call1.nbytes
             /\ pos[crt] # Off /\ pos[crt] \in Nat /\ node[crt].used = 0
             /\ Call1.result = MemStart + pos[crt] /\ Call1.result # NULL
             /\ Ext[crt] = Call1.keep /\ Mrk[crt] = Call1.markas
             /\ Call1.ret = "client" => crt # MemStart /\ node[MemStart].used = 3
                                        /\ node[MemStart].size = PageSize
             /\ node'[crt].size = Call1.keep /\ node'[crt].used = Call1.markas
             /\ node'[crt].next = node[crt].next
             /\ \A b \in Uint32 : InTable(b) /\ b # crt => node'[b] = node[b]
             /\ \A b \in Uint32 : pos[b] # Off => InTable(b)
             /\ Views /\ In(Cuts) /\ ~ In({"merge"}) /\ ~ In({"insert"})
<1> DEFINE crt == Call1.crt_block
<1>1. /\ Call1 \in Frames /\ Call1.pc = "cut" /\ Call1.left = 0 /\ Call1.right = 0
      /\ Top = Call1 /\ Kind /\ Asking /\ Cutting
      /\ In(Cuts) /\ ~ In({"merge"}) /\ ~ In({"insert"})
  BY OneFrame DEF IInv, Claim, Pending, Locals, In, Cuts
<1>2. /\ crt \in Uint32 /\ Call1.nbytes \in Nat /\ Call1.keep = Call1.nbytes
      /\ pos[crt] # Off /\ node[crt].used = 0 /\ Call1.result = MemStart + pos[crt] + 0
      /\ Call1.nbytes > 0 /\ Call1.keep \in Uint32 /\ Call1.markas \in 0 .. 3
  BY <1>1 DEF Frames, Cutting, Asking, Uint32
<1>3. Views /\ node \in [Uint32 -> Blocks] /\ pos \in Starts
  BY View, VarTypes DEF IInv, Views
<1>4. pos[crt] \in Nat
  BY <1>2, <1>3 DEF Starts
<1>5. Call1.result = MemStart + pos[crt] /\ Call1.result # NULL
  BY <1>2, <1>4, KallocAssumption, Ready
<1>6. Ext[crt] = Call1.keep /\ Mrk[crt] = Call1.markas
  <2>1. Ext[crt] = 0 + Call1.keep + 0 /\ Mrk[crt] = Call1.markas
    BY <1>1, <1>2, <1>3 DEF Views
  <2> QED BY <1>2, <2>1
<1>7. pos[crt] + Call1.nbytes <= Total
  BY <1>2, <1>6, TiledOne DEF IInv, Tiling
<1>8. \A b \in Uint32 : pos[b] # Off => InTable(b)
  BY TiledOne DEF IInv, Tiling, InTable
<1>9. ASSUME Call1.ret = "client"
      PROVE  /\ crt # MemStart /\ node[MemStart].used = 3
             /\ node[MemStart].size = PageSize /\ Call1.result >= MemStart + PageSize
  <2>1. node[MemStart].used = 3 /\ node[MemStart].size = PageSize
    BY <1>9, Ready DEF IInv, Layout, Initing
  <2>2. crt # MemStart
    BY <1>2, <2>1
  <2>3. Ext[MemStart] = PageSize
    BY <1>3, <2>1, <2>2, Ready DEF Views
  <2>4. Clear(pos[MemStart], Ext[MemStart], pos[crt], Ext[crt])
    BY <1>2, <2>2, Ready, TiledPair DEF IInv, Tiling
  <2>5. pos[crt] >= PageSize
    BY <1>2, <1>4, <1>6, <2>3, <2>4, Ready, KallocAssumption DEF Clear
  <2>6. Call1.result >= MemStart + PageSize
    BY <1>4, <1>5, <2>5, KallocAssumption
  <2> QED BY <2>1, <2>2, <2>6
<1>10. Closed = [node EXCEPT ![crt].size = Call1.keep, ![crt].used = Call1.markas]
  BY <1>1 DEF Closed
<1>11. /\ Closed[crt].size = Call1.keep /\ Closed[crt].used = Call1.markas
       /\ Closed[crt].next = node[crt].next
       /\ \A b \in Uint32 : b # crt => Closed[b] = node[b]
  <2>1. node[crt] \in Blocks
    BY <1>2, <1>3
  <2> HIDE DEF crt
  <2> QED BY <1>2, <1>3, <1>10, <2>1 DEF Blocks
<1>12. node' = IF Call1.markas = 1 THEN Erase(Closed, Call1.result, Call1.nbytes)
                                   ELSE Closed
  BY <1>1 DEF Claim
<1>13. ASSUME NEW b \in Uint32, InTable(b) PROVE node'[b] = Closed[b]
  <2>1. CASE Call1.markas # 1
    BY <1>12, <2>1
  <2>2. CASE Call1.markas = 1
    <3>1. Call1.ret = "client"
      BY <1>1, <2>2 DEF Kind, Asking
    <3>2. b \in Nat /\ b < MemStart + PageSize
      <4>1. page_depletion \in 0 .. MEMBLOCKS_PER_PAGE
        BY VarTypes DEF IInv
      <4> QED BY <1>13, <4>1, Ready, KallocAssumption DEF InTable, Uint32
    <3>3. b < Call1.result /\ Call1.result + Call1.nbytes < Word /\ Call1.result \in Nat
      BY <1>2, <1>4, <1>5, <1>7, <1>9, <3>1, <3>2, KallocAssumption
    <3>4. Minus(b, Call1.result) = b - Call1.result + Word
      BY <3>2, <3>3 DEF Minus
    <3>5. ~ (Minus(b, Call1.result) < Call1.nbytes)
      BY <1>2, <3>2, <3>3, <3>4, KallocAssumption
    <3> QED BY <1>12, <2>2, <3>5 DEF Erase
  <2> QED BY <2>1, <2>2
<1>14. InTable(crt)
  BY <1>2, <1>8
<1>15. /\ node'[crt].size = Call1.keep /\ node'[crt].used = Call1.markas
       /\ node'[crt].next = node[crt].next
       /\ \A b \in Uint32 : InTable(b) /\ b # crt => node'[b] = node[b]
  BY <1>2, <1>11, <1>13, <1>14
<1> QED BY <1>1, <1>2, <1>3, <1>4, <1>5, <1>6, <1>8, <1>9, <1>15

LEMMA ClaimSafe ==
  ASSUME IInv, TypeInv', depth = 1, Claim
  PROVE  IInv'
<1> DEFINE crt == Call1.crt_block
<1>1. /\ Call1 \in Frames /\ Kind /\ Asking /\ crt \in Uint32
      /\ Call1.pc = "cut" /\ Call1.keep = Call1.nbytes
      /\ pos[crt] # Off /\ pos[crt] \in Nat /\ node[crt].used = 0
      /\ Call1.result = MemStart + pos[crt] /\ Call1.result # NULL
      /\ Ext[crt] = Call1.keep /\ Mrk[crt] = Call1.markas
      /\ Call1.ret = "client" => crt # MemStart /\ node[MemStart].used = 3
                                 /\ node[MemStart].size = PageSize
      /\ node'[crt].size = Call1.keep /\ node'[crt].used = Call1.markas
      /\ node'[crt].next = node[crt].next
      /\ \A b \in Uint32 : InTable(b) /\ b # crt => node'[b] = node[b]
      /\ \A b \in Uint32 : pos[b] # Off => InTable(b)
      /\ Views /\ In(Cuts) /\ ~ In({"merge"}) /\ ~ In({"insert"})
  BY ClaimNode
<1>2. /\ Call1.ret \in {"init", "client"}
      /\ Call1.ret = "client" => Call1.markas = 1
      /\ Call1.ret = "init" => /\ Call1.markas = 3 /\ Call1.nbytes = PageSize
                               /\ crt = MemStart /\ Call1.id = 0
                               /\ \A i \in Ids : held[i].ptr = NULL
      /\ Call1.markas # 0 /\ Call1.id \in 0 .. MaxHeld
  BY <1>1 DEF Kind, Asking, Frames
<1>3. /\ depth' = 0
      /\ held' = IF Call1.id = 0 THEN held
                 ELSE [held EXCEPT ![Call1.id] =
                        [ptr |-> Call1.result, len |-> Call1.nbytes, align |-> Call1.align]]
      /\ pos' = pos /\ allocator_map' = allocator_map /\ free_blocks' = free_blocks
      /\ unmarked' = unmarked /\ next_memblock_addr' = next_memblock_addr
      /\ page_depletion' = page_depletion /\ page' = page
  <2>1. Return(Call1.result) /\ Top = Call1
    BY OneFrame DEF IInv, Claim
  <2>2. /\ Pop /\ UNCHANGED bump
        /\ held' = IF Call1.id = 0 \/ Call1.result = NULL THEN held
                   ELSE [held EXCEPT ![Call1.id] =
                        [ptr |-> Call1.result, len |-> Call1.nbytes, align |-> Call1.align]]
    BY <1>2, <2>1 DEF Return
  <2> QED BY <1>1, <2>2, OneFrame DEF IInv, Claim, bump
<1> HIDE DEF crt
<1>4. ~ In(Cuts)' /\ ~ In({"merge"})' /\ ~ In({"insert"})' /\ ~ Initing'
  BY <1>3 DEF In, Initing
<1>5. Views'
  BY <1>3, ViewNext
<1>6. ASSUME NEW b \in Uint32, InTable(b)
      PROVE  /\ Aft'[b] = Aft[b] /\ Link'[b] = Link[b] /\ Ext'[b] = Ext[b]
             /\ Mrk'[b] = Mrk[b]
  <2>1. node'[b].next = node[b].next
    BY <1>1, <1>6
  <2>2. Aft'[b] = Aft[b] /\ Link'[b] = Link[b]
    BY <1>1, <1>4, <1>5, <2>1 DEF Views
  <2>3. Ext'[b] = node'[b].size /\ Mrk'[b] = node'[b].used
    BY <1>4, <1>5 DEF Views
  <2>4. CASE b = crt
    BY <1>1, <2>2, <2>3, <2>4
  <2>5. CASE b # crt
    <3>1. Ext[b] = node[b].size /\ Mrk[b] = node[b].used
      BY <1>1, <2>5 DEF Views, crt
    <3> QED BY <1>1, <1>6, <2>2, <2>3, <2>5, <3>1
  <2> QED BY <2>4, <2>5
<1>7. Layout'
  <2>1. node'[MemStart].used = 3 /\ node'[MemStart].size = PageSize
    <3>1. CASE Call1.ret = "init"
      BY <1>1, <1>2, <3>1
    <3>2. CASE Call1.ret = "client"
      <4>1. MemStart \in Uint32 /\ MemStart # crt /\ pos[MemStart] # Off
        BY <1>1, <3>2, Ready
      <4> QED BY <1>1, <3>2, <4>1
    <3> QED BY <1>2, <3>1, <3>2
  <2> QED BY <1>3, <1>4, <2>1, Ready DEF IInv, Layout
<1>8. Tiling'
  <2>1. \A b \in Uint32 : pos[b] # Off => Ext'[b] = Ext[b] /\ Aft'[b] = Aft[b]
    BY <1>1, <1>6
  <2>2. Tiled(pos, Ext', Aft', next_memblock_addr)
    BY <2>1, TiledSame DEF IInv, Tiling
  <2> QED BY <1>3, <2>2 DEF Tiling
<1>9. Spares'
  <2>1. SpareSet' = SpareSet
    BY <1>1, <1>3, <1>4 DEF SpareSet, Spare, InTable
  <2>2. \A b \in SpareSet : Link'[b] = Link[b]
    BY <1>6 DEF SpareSet, Spare
  <2>3. Chain(SpareSet, Link', free_blocks)
    BY <2>2, ChainSame DEF IInv, Spares
  <2> QED BY <1>3, <2>1, <2>3 DEF Spares
<1>10. Marks'
  <2>1. ASSUME NEW b \in Uint32, pos[b] # Off, b # MemStart
        PROVE  node'[b].used \in {0, 1}
    <3>1. CASE b = crt
      BY <1>1, <1>2, <2>1, <3>1
    <3>2. CASE b # crt
      BY <1>1, <2>1, <3>2 DEF IInv, Marks
    <3> QED BY <3>1, <3>2
  <2>2. ASSUME NEW b \in Uint32, pos[b] # Off, Mrk'[b] = 0, Aft'[b] # NULL
        PROVE  Mrk'[Aft'[b]] # 0
    <3>1. Aft'[b] = Aft[b] /\ Mrk[b] = 0
      BY <1>1, <1>6, <2>2
    <3>2. Mrk[Aft[b]] # 0
      BY <1>1, <2>2, <3>1 DEF IInv, Marks
    <3>3. pos[Aft[b]] # Off /\ Aft[b] \in Uint32
      BY <1>1, <2>2, <3>1, OneBlockAt, ViewTypes DEF IInv, Tiling, Views
    <3> QED BY <1>1, <1>6, <3>1, <3>2, <3>3
  <2> QED BY <1>3, <2>1, <2>2 DEF Marks
<1>11. Holdings'
  <2>1. ASSUME NEW i \in Ids, NEW b \in Uint32, HeldBlock(i, b), held'[i] = held[i]
        PROVE  HeldBlock(i, b)' /\ b # crt
    <3>1. b # crt
      BY <1>1, <2>1 DEF HeldBlock
    <3>2. node'[b] = node[b]
      BY <1>1, <2>1, <3>1 DEF HeldBlock
    <3> QED BY <1>3, <2>1, <3>1, <3>2 DEF HeldBlock
  <2>2. CASE Call1.id = 0
    <3>1. held' = held
      BY <1>3, <2>2
    <3>2. \A i \in Ids : held[i].ptr # NULL => \E b \in Uint32 : HeldBlock(i, b)'
      BY <2>1, <3>1 DEF IInv, Holdings
    <3> QED BY <1>3, <3>1, <3>2 DEF IInv, Holdings
  <2>3. CASE Call1.id # 0
    <3> DEFINE id == Call1.id
    <3>1. id \in Ids /\ Call1.ret = "client"
      BY <1>2, <2>3 DEF Ids
    <3>2. held \in [Ids -> [ptr : Uint32, len : Uint32, align : Uint32]]
      BY VarTypes DEF IInv
    <3>3. /\ held'[id].ptr = MemStart + pos[crt] /\ held'[id].len = Call1.nbytes
          /\ held'[id].ptr # NULL
          /\ \A j \in Ids : j # id => held'[j] = held[j]
      BY <1>1, <1>3, <2>3, <3>1, <3>2
    <3> HIDE DEF id
    <3>5. ASSUME NEW j \in Ids, held'[j].ptr # NULL
          PROVE  \E b \in Uint32 : HeldBlock(j, b)'
      <4>1. CASE j = id
        <5>1. /\ pos'[crt] # Off /\ held'[j].ptr = MemStart + pos'[crt]
              /\ held'[j].len = node'[crt].size /\ node'[crt].used = 1
          BY <1>1, <1>2, <1>3, <3>1, <3>3, <4>1
        <5>2. \E b \in Uint32 :
                /\ pos'[b] # Off /\ held'[j].ptr = MemStart + pos'[b]
                /\ held'[j].len = node'[b].size /\ node'[b].used = 1
          BY <1>1, <5>1
        <5> QED BY <5>2 DEF HeldBlock
      <4>2. CASE j # id
        <5>1. held'[j] = held[j] /\ held[j].ptr # NULL
          BY <3>3, <3>5, <4>2
        <5>2. PICK b \in Uint32 : HeldBlock(j, b)
          BY <5>1 DEF IInv, Holdings
        <5> QED BY <2>1, <5>1, <5>2
      <4> QED BY <4>1, <4>2
    <3>6. ASSUME NEW j \in Ids, j # id, held[j].ptr # NULL
          PROVE  held[j].ptr # MemStart + pos[crt]
      <4>1. PICK b \in Uint32 : HeldBlock(j, b)
        BY <3>6 DEF IInv, Holdings
      <4>2. b # crt
        BY <2>1, <3>3, <3>6, <4>1
      <4>3. pos[b] # pos[crt] /\ pos[b] # Off
        BY <1>1, <4>1, <4>2, OneBlockAt DEF IInv, Tiling, Views, HeldBlock
      <4>4. pos[b] \in Nat
        BY <1>1, <4>3, ViewTypes DEF Views
      <4> QED BY <1>1, <4>1, <4>3, <4>4, KallocAssumption DEF HeldBlock
    <3>7. ASSUME NEW i \in Ids, NEW j \in Ids, held'[i].ptr # NULL,
                 held'[i].ptr = held'[j].ptr
          PROVE  i = j
      <4>1. CASE i = id \/ j = id
        BY <3>3, <3>6, <3>7, <4>1
      <4>2. CASE i # id /\ j # id
        BY <3>3, <3>7, <4>2 DEF IInv, Holdings
      <4> QED BY <4>1, <4>2
    <3> QED BY <1>3, <3>5, <3>7 DEF Holdings
  <2> QED BY <2>2, <2>3
<1> QED BY <1>3, <1>7, <1>8, <1>9, <1>10, <1>11 DEF IInv, Locals

-----------------------------------------------------------------------------
(* free_block.                                                             *)

LEMMA FreeFoundSafe ==
  ASSUME IInv, TypeInv', depth = 1, FreeFound
  PROVE  IInv'
<1> DEFINE crt == Call1.crt_block
           a   == [Call1 EXCEPT !.pc = "merge", !.nextblk = node[crt].next]
<1>1. /\ Call1 \in Frames /\ Call1.pc = "find" /\ crt # NULL /\ Continue(a)
      /\ node[crt].used = 1 /\ Call1.target = Call1.block_start
      /\ node' = [node EXCEPT ![crt].used = 0]
  BY OneFrame DEF IInv, FreeFound, Sought
<1>2. Kind /\ Walking /\ Finding /\ Call1.ret = "client" /\ Call1.id = 0
  BY <1>1 DEF IInv, Locals, Kind
<1>3. depth' = 1 /\ Call1' = a
  BY <1>1, OneFrame DEF IInv
<1>4. /\ a.pc = "merge" /\ a.nextblk = node[crt].next /\ a.crt_block = crt
      /\ a.ret = "client" /\ a.id = 0
  BY <1>1, <1>2 DEF Frames
<1>5. /\ held' = held /\ unmarked' = unmarked /\ allocator_map' = allocator_map
      /\ page' = page /\ free_blocks' = free_blocks /\ pos' = pos
      /\ next_memblock_addr' = next_memblock_addr /\ page_depletion' = page_depletion
  BY DEF FreeFound, bump
<1> HIDE DEF a
<1>6. /\ crt \in Uint32 /\ pos[crt] = Call1.target /\ pos[crt] # Off
      /\ node \in [Uint32 -> Blocks] /\ node[crt] \in Blocks
  <2>1. Call1.block_start \in Nat /\ crt \in Uint32 /\ node \in [Uint32 -> Blocks]
    BY <1>1, VarTypes DEF Frames, Uint32, IInv
  <2> QED BY <1>1, <1>2, <2>1 DEF Walking, Off
<1> HIDE DEF crt
<1>7. /\ ~ In(Special) /\ ~ In(Cuts) /\ ~ In({"merge"}) /\ ~ In({"insert"})
      /\ ~ Initing /\ ~ Initing' /\ ~ In(Cuts)' /\ In({"merge"})' /\ ~ In({"insert"})'
  BY <1>1, <1>2, <1>3, <1>4 DEF In, Special, Cuts, Initing
<1>8. Views /\ Views'
  BY <1>3, View, ViewNext DEF IInv
<1>9. /\ node'[crt].size = node[crt].size /\ node'[crt].next = node[crt].next
      /\ node'[crt].used = 0
      /\ \A b \in Uint32 : b # crt => node'[b] = node[b]
  BY <1>1, <1>6 DEF Blocks, crt
<1>10. /\ crt # MemStart /\ node[MemStart].used = 3 /\ node[MemStart].size = PageSize
  BY <1>1, <1>7, Ready DEF IInv, Layout, crt
<1>11. /\ \A b \in Uint32 : Ext'[b] = Ext[b] /\ Aft'[b] = Aft[b] /\ Link'[b] = Link[b]
       /\ \A b \in Uint32 : b # crt => Mrk'[b] = Mrk[b] /\ Mrk'[b] = node[b].used
  <2>1. ASSUME NEW b \in Uint32
        PROVE  /\ Ext'[b] = node'[b].size /\ Mrk'[b] = node'[b].used
               /\ Link'[b] = node'[b].next
               /\ b = crt => Aft'[b] = node[b].next
               /\ b # crt => Aft'[b] = node'[b].next
    BY <1>3, <1>4, <1>7, <1>8 DEF Views
  <2>2. \A b \in Uint32 : /\ Ext[b] = node[b].size /\ Mrk[b] = node[b].used
                          /\ Link[b] = node[b].next /\ Aft[b] = node[b].next
    BY <1>7, <1>8 DEF Views
  <2> QED BY <1>9, <2>1, <2>2
<1>12. Ext' = Ext /\ Aft' = Aft /\ Link' = Link
  BY <1>8, <1>11, SameViews
<1>13. ASSUME NEW b \in Uint32, pos[b] # Off, Aft[b] = crt
       PROVE  node[b].used # 0 /\ b # crt
  <2>1. /\ Aft[b] = node[b].next /\ pos[b] + node[b].size = pos[crt]
    BY <1>1, <1>7, <1>13, ListBlock DEF crt
  <2>2. b # crt
    BY <1>1, <1>8, <1>13, OneBlockAt DEF IInv, Tiling, Views, crt
  <2> QED BY <1>2, <1>6, <1>13, <2>1, <2>2 DEF Finding
<1>14. Layout'
  BY <1>5, <1>7, <1>9, <1>10, Ready DEF IInv, Layout
<1>15. Tiling'
  BY <1>5, <1>12 DEF IInv, Tiling
<1>16. Spares'
  <2>1. SpareSet' = SpareSet
    BY <1>5, <1>7 DEF SpareSet, Spare, InTable
  <2> QED BY <1>5, <1>12, <2>1 DEF IInv, Spares
<1>17. Marks'
  <2>1. ASSUME NEW b \in Uint32, pos[b] # Off, b # MemStart
        PROVE  node'[b].used \in {0, 1}
    BY <1>9, <2>1 DEF IInv, Marks
  <2>2. ASSUME NEW b \in Uint32, pos[b] # Off, Mrk'[b] = 0, Aft[b] # NULL, b # crt
        PROVE  Mrk'[Aft[b]] # 0
    <3>1. Mrk[b] = 0 /\ node[b].used = 0
      BY <1>11, <2>2
    <3>2. Aft[b] # crt
      BY <1>13, <2>2, <3>1
    <3>3. Mrk[Aft[b]] # 0
      BY <1>7, <2>2, <3>1 DEF IInv, Marks
    <3>4. Aft[b] \in Uint32
      BY <1>8, ViewTypes DEF Views
    <3> QED BY <1>11, <3>2, <3>3, <3>4
  <2> QED BY <1>3, <1>4, <1>5, <1>7, <1>12, <2>1, <2>2 DEF Marks
<1>18. Holdings'
  <2>1. ASSUME NEW i \in Ids, held[i].ptr # NULL
        PROVE  \E b \in Uint32 : HeldBlock(i, b)'
    <3>1. PICK b \in Uint32 : HeldBlock(i, b)
      BY <2>1 DEF IInv, Holdings
    <3>2. b # crt
      BY <1>2, <1>6, <2>1, <3>1 DEF HeldBlock, Finding
    <3> QED BY <1>5, <1>9, <3>1, <3>2 DEF HeldBlock
  <2> QED BY <1>3, <1>4, <1>5, <2>1 DEF IInv, Holdings
<1>19. Merging'
  <2>1. ASSUME NEW b \in Uint32, pos[b] # Off, Aft[b] = crt
        PROVE  node'[b].used # 0
    BY <1>9, <1>13, <2>1
  <2> QED BY <1>3, <1>4, <1>5, <1>6, <1>9, <1>10, <1>12, <2>1 DEF Merging
<1>20. Kind'
  BY <1>3, <1>4 DEF Kind
<1> QED BY <1>3, <1>4, <1>14, <1>15, <1>16, <1>17, <1>18, <1>19, <1>20 DEF IInv, Locals

(* The block being freed and the one free_block looks at.                  *)
LEMMA MergeBlocks ==
  ASSUME IInv, depth = 1, Call1.pc = "merge"
  PROVE  LET crt == Call1.crt_block
             nxt == Call1.nextblk
         IN  /\ Call1 \in Frames /\ Kind /\ Merging /\ Call1.ret = "client"
             /\ Call1.id = 0 /\ crt \in Uint32 /\ nxt \in Uint32
             /\ node \in [Uint32 -> Blocks] /\ pos[crt] # Off /\ crt # MemStart
             /\ node[crt].used = 0 /\ Aft[crt] = nxt
             /\ node[MemStart].used = 3 /\ node[MemStart].size = PageSize
             /\ Views /\ ~ In(Cuts) /\ In({"merge"}) /\ ~ In({"insert"}) /\ ~ Initing
             /\ \A b \in Uint32 : Ext[b] = node[b].size /\ Mrk[b] = node[b].used
                                  /\ Link[b] = node[b].next
             /\ \A b \in Uint32 : b # crt => Aft[b] = node[b].next
<1>1. Call1 \in Frames /\ Kind /\ Merging /\ Call1.ret = "client" /\ Call1.id = 0
  BY OneFrame DEF IInv, Locals, Kind
<1>2. ~ In(Cuts) /\ In({"merge"}) /\ ~ In({"insert"}) /\ ~ Initing
  BY <1>1 DEF In, Cuts, Initing
<1>3. Views /\ node \in [Uint32 -> Blocks]
  BY View, VarTypes DEF IInv
<1>4. Call1.crt_block \in Uint32 /\ Call1.nextblk \in Uint32
  BY <1>1 DEF Frames
<1>5. node[MemStart].used = 3 /\ node[MemStart].size = PageSize
  BY <1>2, Ready DEF IInv, Layout
<1>6. \A b \in Uint32 : Ext[b] = node[b].size /\ Mrk[b] = node[b].used
                        /\ Link[b] = node[b].next
  BY <1>2, <1>3 DEF Views
<1>7. /\ \A b \in Uint32 : b # Call1.crt_block => Aft[b] = node[b].next
      /\ Aft[Call1.crt_block] = Call1.nextblk
  BY <1>2, <1>3, <1>4 DEF Views
<1> QED BY <1>1, <1>2, <1>3, <1>4, <1>5, <1>6, <1>7 DEF Merging

LEMMA MergeSafe ==
  ASSUME IInv, TypeInv', depth = 1, Merge
  PROVE  IInv'
<1> DEFINE crt == Call1.crt_block
           nxt == Call1.nextblk
           a   == [Call1 EXCEPT !.nextblk = node[nxt].next]
<1>1. /\ Call1.pc = "merge" /\ Continue(a) /\ nxt # NULL /\ node[nxt].used # 1
      /\ node' = [node EXCEPT ![crt].size = Plus(@, node[nxt].size),
                              ![nxt].next = free_blocks]
      /\ free_blocks' = nxt /\ pos' = [pos EXCEPT ![nxt] = Off]
  BY OneFrame DEF IInv, Merge, MergeEnds
<1>2. /\ Call1 \in Frames /\ Kind /\ Merging /\ Call1.ret = "client"
      /\ Call1.id = 0 /\ crt \in Uint32 /\ nxt \in Uint32
      /\ node \in [Uint32 -> Blocks] /\ pos[crt] # Off /\ crt # MemStart
      /\ node[crt].used = 0 /\ Aft[crt] = nxt
      /\ node[MemStart].used = 3 /\ node[MemStart].size = PageSize
      /\ Views /\ ~ In(Cuts) /\ In({"merge"}) /\ ~ In({"insert"}) /\ ~ Initing
      /\ \A b \in Uint32 : Ext[b] = node[b].size /\ Mrk[b] = node[b].used
                           /\ Link[b] = node[b].next
      /\ \A b \in Uint32 : b # crt => Aft[b] = node[b].next
  BY <1>1, MergeBlocks
<1>3. depth' = 1 /\ Call1' = a
  BY <1>1, OneFrame DEF IInv
<1>4. /\ a.pc = "merge" /\ a.nextblk = node[nxt].next /\ a.crt_block = crt
      /\ a.ret = "client" /\ a.id = 0
  BY <1>1, <1>2 DEF Frames
<1>5. /\ held' = held /\ unmarked' = unmarked /\ allocator_map' = allocator_map
      /\ page' = page /\ next_memblock_addr' = next_memblock_addr
      /\ page_depletion' = page_depletion
  BY DEF Merge, bump
<1> HIDE DEF a, crt, nxt
<1>6. /\ pos[nxt] # Off /\ pos[nxt] > pos[crt] /\ nxt # crt
      /\ Aft[nxt] # nxt /\ Aft[nxt] # crt
      /\ \A b \in Uint32 : pos[b] # Off /\ b # crt => Aft[b] # nxt
  <2>1. /\ Tiled(pos, Ext, Aft, next_memblock_addr)
        /\ pos \in Starts /\ Ext \in Extents /\ Aft \in Nexts
    BY <1>2 DEF IInv, Tiling, Views
  <2>2. pos[nxt] # Off /\ pos[nxt] > pos[crt] /\ nxt # crt
    BY <1>1, <1>2, <2>1, OneBlockAt DEF nxt
  <2>3. Aft[nxt] # NULL => pos[Aft[nxt]] > pos[nxt] /\ Aft[nxt] # nxt
    BY <1>2, <2>1, <2>2, OneBlockAt
  <2>4. \A b \in Uint32 : pos[b] # Off /\ b # crt => Aft[b] # nxt
    BY <1>1, <1>2, <2>1, OneBlockAt DEF nxt
  <2>5. crt # NULL
    <3>1. MemStart <= crt
      BY <1>2, TiledOne DEF IInv, Tiling
    <3> QED BY <1>2, <3>1, Ready, KallocAssumption DEF Uint32
  <2>6. pos[crt] \in Nat /\ pos[nxt] \in Nat
    BY <1>2, <2>1, <2>2, ViewTypes
  <2> QED BY <1>1, <2>2, <2>3, <2>4, <2>5, <2>6 DEF nxt
<1>7. nxt # MemStart /\ node[nxt].used = 0
  <2>1. pos[crt] \in Nat
    BY <1>2, ViewTypes DEF Views
  <2>2. nxt # MemStart
    BY <1>6, <2>1, Ready
  <2> QED BY <1>1, <1>2, <1>6, <2>2 DEF IInv, Marks, nxt
<1>8. Plus(node[crt].size, node[nxt].size) = node[crt].size + node[nxt].size
  <2>1. /\ pos[crt] \in Nat /\ Ext[crt] \in Nat /\ Ext[nxt] \in Nat
        /\ pos[nxt] = pos[crt] + Ext[crt] /\ pos[nxt] + Ext[nxt] <= Total
    BY <1>1, <1>2, <1>6, TiledOne, ViewTypes DEF IInv, Tiling, Views, nxt
  <2>2. Ext[crt] + Ext[nxt] < Word
    BY <2>1, KallocAssumption
  <2> QED BY <1>2, <2>1, <2>2 DEF Plus
<1>9. /\ node'[crt].size = node[crt].size + node[nxt].size
      /\ node'[crt].used = node[crt].used /\ node'[crt].next = node[crt].next
      /\ node'[nxt].next = free_blocks /\ node'[nxt].used = node[nxt].used
      /\ \A b \in Uint32 : b # nxt /\ b # crt => node'[b] = node[b]
      /\ pos'[nxt] = Off /\ \A b \in Uint32 : b # nxt => pos'[b] = pos[b]
  <2>1. /\ node' = [node EXCEPT ![crt].size = Plus(@, node[nxt].size),
                                ![nxt].next = free_blocks]
        /\ pos' = [pos EXCEPT ![nxt] = Off]
    BY <1>1 DEF crt, nxt
  <2>2. node[crt] \in Blocks /\ node[nxt] \in Blocks /\ pos \in [Uint32 -> Uint32 \cup {Off}]
    BY <1>2, VarTypes DEF IInv
  <2> QED BY <1>2, <1>6, <1>8, <2>1, <2>2 DEF Blocks
<1>10. ~ In(Cuts)' /\ In({"merge"})' /\ ~ In({"insert"})' /\ ~ Initing'
  BY <1>3, <1>4 DEF In, Cuts, Initing
<1>11. Views'
  BY <1>3, ViewNext
<1>12. /\ Ext'[crt] = Ext[crt] + Ext[nxt] /\ Aft'[crt] = Aft[nxt]
       /\ \A b \in Uint32 : b # crt /\ b # nxt =>
            Ext'[b] = Ext[b] /\ Aft'[b] = Aft[b] /\ Link'[b] = Link[b]
       /\ \A b \in Uint32 : Mrk'[b] = Mrk[b]
       /\ Link'[nxt] = free_blocks
  <2>1. \A b \in Uint32 : /\ Ext'[b] = node'[b].size /\ Mrk'[b] = node'[b].used
                          /\ Link'[b] = node'[b].next
                          /\ b = crt => Aft'[b] = node[nxt].next
                          /\ b # crt => Aft'[b] = node'[b].next
    BY <1>3, <1>4, <1>10, <1>11 DEF Views
  <2>2. Aft[nxt] = node[nxt].next
    BY <1>2, <1>6
  <2> QED BY <1>2, <1>9, <2>1, <2>2
<1>13. Tiling'
  <2>1. /\ Tiled(pos, Ext, Aft, next_memblock_addr)
        /\ pos \in Starts /\ Ext \in Extents /\ Aft \in Nexts
        /\ pos' \in Starts /\ Ext' \in Extents /\ Aft' \in Nexts
        /\ next_memblock_addr \in Nat
    BY <1>2, <1>11, VarTypes DEF IInv, Tiling, Views, Uint32
  <2>2. /\ crt \in Uint32 /\ nxt \in Uint32 /\ nxt # NULL /\ pos[crt] # Off
        /\ Aft[crt] = nxt
    BY <1>1, <1>2 DEF nxt
  <2>3. /\ pos'[nxt] = Off /\ \A b \in Uint32 : b # nxt => pos'[b] = pos[b]
    BY <1>9
  <2>4. Tiled(pos', Ext', Aft', next_memblock_addr)
    BY <1>12, <2>1, <2>2, <2>3, Join
  <2> QED BY <1>5, <2>4 DEF Tiling
<1>14. Spares'
  <2>1. InTable(nxt) /\ nxt \notin SpareSet
    BY <1>2, <1>6, TiledOne DEF IInv, Tiling, InTable, SpareSet, Spare
  <2>2. SpareSet' = SpareSet \cup {nxt}
    <3>1. \A b \in Uint32 : Spare(b)' <=> Spare(b) \/ b = nxt
      BY <1>2, <1>5, <1>9, <1>10, <2>1 DEF Spare, InTable
    <3> QED BY <1>2, <3>1 DEF SpareSet
  <2>3. \A b \in SpareSet : Link'[b] = Link[b]
    <3>1. \A b \in SpareSet : b \in Uint32 /\ b # crt /\ b # nxt
      BY <1>2, <2>1 DEF SpareSet, Spare
    <3> QED BY <1>12, <3>1
  <2>4. Chain(SpareSet \cup {nxt}, Link', nxt)
    BY <1>1, <1>12, <2>1, <2>3, ChainPush DEF IInv, Spares, nxt
  <2> QED BY <1>1, <2>2, <2>4 DEF Spares, nxt
<1>15. Layout'
  <2>1. pos'[MemStart] = 0 /\ node'[MemStart] = node[MemStart]
    BY <1>2, <1>7, <1>9, Ready
  <2> QED BY <1>2, <1>5, <2>1, Ready DEF IInv, Layout
<1>16. Marks'
  <2>1. ASSUME NEW b \in Uint32, pos'[b] # Off, b # MemStart
        PROVE  node'[b].used \in {0, 1}
    <3>1. b # nxt /\ node[b].used \in {0, 1}
      BY <1>9, <2>1 DEF IInv, Marks
    <3> QED BY <1>9, <3>1
  <2>2. ASSUME NEW b \in Uint32, pos'[b] # Off, Mrk'[b] = 0, Aft'[b] # NULL, b # crt
        PROVE  Mrk'[Aft'[b]] # 0
    <3>1. b # nxt /\ pos[b] # Off /\ Mrk[b] = 0 /\ Aft'[b] = Aft[b]
      BY <1>9, <1>12, <2>2
    <3>2. Mrk[Aft[b]] # 0
      BY <2>2, <3>1 DEF IInv, Marks, crt
    <3>3. Aft[b] \in Uint32
      BY <1>2, ViewTypes DEF Views
    <3> QED BY <1>12, <3>1, <3>2, <3>3
  <2> QED BY <1>3, <1>4, <1>10, <2>1, <2>2 DEF Marks
<1>17. Holdings'
  <2>1. ASSUME NEW i \in Ids, NEW b \in Uint32, HeldBlock(i, b)
        PROVE  HeldBlock(i, b)'
    <3>1. b # crt /\ b # nxt
      BY <1>2, <1>7, <2>1 DEF HeldBlock
    <3> QED BY <1>5, <1>9, <2>1, <3>1 DEF HeldBlock
  <2> QED BY <1>3, <1>4, <1>5, <2>1 DEF IInv, Holdings
<1>18. Merging'
  <2>1. ASSUME NEW b \in Uint32, pos'[b] # Off, Aft'[b] = crt
        PROVE  node'[b].used # 0
    <3>1. b # nxt /\ b # crt
      BY <1>6, <1>9, <1>12, <2>1
    <3>2. Aft[b] = crt /\ pos[b] # Off
      BY <1>9, <1>12, <2>1, <3>1
    <3>3. node[b].used # 0
      BY <1>2, <3>2 DEF Merging, crt
    <3> QED BY <1>9, <3>1, <3>3
  <2>2. pos'[crt] # Off /\ node'[crt].used = 0 /\ crt # MemStart
    BY <1>2, <1>6, <1>9
  <2> QED BY <1>3, <1>4, <2>1, <2>2 DEF Merging
<1>19. Kind'
  BY <1>3, <1>4 DEF Kind
<1> QED BY <1>3, <1>4, <1>13, <1>14, <1>15, <1>16, <1>17, <1>18, <1>19 DEF IInv, Locals

LEMMA FreeDoneSafe ==
  ASSUME IInv, TypeInv', depth = 1, FreeDone
  PROVE  IInv'
<1> DEFINE crt == Call1.crt_block
           nxt == Call1.nextblk
<1>1. /\ Call1.pc = "merge" /\ (nxt = NULL \/ node[nxt].used = 1)
      /\ node' = [node EXCEPT ![crt].next = nxt]
  BY OneFrame DEF IInv, FreeDone, MergeEnds
<1>2. /\ Call1 \in Frames /\ Kind /\ Merging /\ Call1.ret = "client"
      /\ Call1.id = 0 /\ crt \in Uint32 /\ nxt \in Uint32
      /\ node \in [Uint32 -> Blocks] /\ pos[crt] # Off /\ crt # MemStart
      /\ node[crt].used = 0 /\ Aft[crt] = nxt
      /\ node[MemStart].used = 3 /\ node[MemStart].size = PageSize
      /\ Views /\ ~ In(Cuts) /\ In({"merge"}) /\ ~ In({"insert"}) /\ ~ Initing
      /\ \A b \in Uint32 : Ext[b] = node[b].size /\ Mrk[b] = node[b].used
                           /\ Link[b] = node[b].next
      /\ \A b \in Uint32 : b # crt => Aft[b] = node[b].next
  BY <1>1, MergeBlocks
<1>3. /\ depth' = 0 /\ held' = held /\ unmarked' = unmarked
      /\ allocator_map' = allocator_map /\ page' = page /\ free_blocks' = free_blocks
      /\ pos' = pos /\ next_memblock_addr' = next_memblock_addr
      /\ page_depletion' = page_depletion
  BY OneFrame DEF FreeDone, IInv, bump
<1> HIDE DEF crt, nxt
<1>4. /\ node'[crt].size = node[crt].size /\ node'[crt].used = node[crt].used
      /\ node'[crt].next = nxt
      /\ \A b \in Uint32 : b # crt => node'[b] = node[b]
  <2>1. node' = [node EXCEPT ![crt].next = nxt] /\ node[crt] \in Blocks
    BY <1>1, <1>2 DEF crt, nxt
  <2> QED BY <1>2, <2>1 DEF Blocks
<1>5. ~ In(Cuts)' /\ ~ In({"merge"})' /\ ~ In({"insert"})' /\ ~ Initing'
  BY <1>3 DEF In, Initing
<1>6. Views'
  BY <1>3, ViewNext
<1>7. \A b \in Uint32 : /\ Ext'[b] = Ext[b] /\ Aft'[b] = Aft[b] /\ Mrk'[b] = Mrk[b]
                        /\ b # crt => Link'[b] = Link[b]
  <2>1. \A b \in Uint32 : /\ Ext'[b] = node'[b].size /\ Mrk'[b] = node'[b].used
                          /\ Link'[b] = node'[b].next /\ Aft'[b] = node'[b].next
    BY <1>5, <1>6 DEF Views
  <2> QED BY <1>2, <1>4, <2>1
<1>8. Layout'
  BY <1>2, <1>3, <1>4, Ready DEF IInv, Layout
<1>9. Tiling'
  <2>1. Tiled(pos, Ext', Aft', next_memblock_addr)
    BY <1>7, TiledSame DEF IInv, Tiling
  <2> QED BY <1>3, <2>1 DEF Tiling
<1>10. Spares'
  <2>1. SpareSet' = SpareSet
    BY <1>2, <1>3, <1>5 DEF SpareSet, Spare, InTable
  <2>2. \A b \in SpareSet : Link'[b] = Link[b]
    BY <1>2, <1>7 DEF SpareSet, Spare
  <2>3. Chain(SpareSet, Link', free_blocks)
    BY <2>2, ChainSame DEF IInv, Spares
  <2> QED BY <1>3, <2>1, <2>3 DEF Spares
<1>11. Marks'
  <2>1. ASSUME NEW b \in Uint32, pos[b] # Off, b # MemStart
        PROVE  node'[b].used \in {0, 1}
    BY <1>4, <2>1 DEF IInv, Marks
  <2>2. ASSUME NEW b \in Uint32, pos[b] # Off, Mrk'[b] = 0, Aft'[b] # NULL
        PROVE  Mrk'[Aft'[b]] # 0
    <3>1. Mrk[b] = 0 /\ Aft'[b] = Aft[b] /\ Aft[b] # NULL /\ Aft[b] \in Uint32
      BY <1>2, <1>7, <2>2, ViewTypes DEF Views
    <3>2. CASE b = crt
      <4>1. Mrk[nxt] = 1
        BY <1>1, <1>2, <3>1, <3>2 DEF nxt
      <4> QED BY <1>2, <1>7, <3>1, <3>2, <4>1
    <3>3. CASE b # crt
      <4>1. Mrk[Aft[b]] # 0
        BY <2>2, <3>1, <3>3 DEF IInv, Marks, crt
      <4> QED BY <1>7, <3>1, <4>1
    <3> QED BY <3>2, <3>3
  <2> QED BY <1>3, <2>1, <2>2 DEF Marks
<1>12. Holdings'
  <2>1. ASSUME NEW i \in Ids, NEW b \in Uint32, HeldBlock(i, b)
        PROVE  HeldBlock(i, b)'
    BY <1>3, <1>4, <2>1 DEF HeldBlock
  <2> QED BY <1>3, <2>1 DEF IInv, Holdings
<1> QED BY <1>3, <1>8, <1>9, <1>10, <1>11, <1>12 DEF IInv, Locals

-----------------------------------------------------------------------------
LEMMA StutterSafe ==
  ASSUME IInv, TypeInv', UNCHANGED vars
  PROVE  IInv'
<1>1. /\ node' = node /\ allocator_map' = allocator_map /\ free_blocks' = free_blocks
      /\ held' = held /\ next_memblock_addr' = next_memblock_addr
      /\ page_depletion' = page_depletion /\ page' = page
      /\ unmarked' = unmarked /\ pos' = pos /\ frame' = frame /\ depth' = depth
  BY MemSame DEF vars
<1>2. Call1' = Call1
  BY <1>1 DEF Call1
<1>3. \A pcs : In(pcs)' <=> In(pcs)
  BY <1>1, <1>2 DEF In
<1>4. Ext' = Ext /\ Mrk' = Mrk /\ Aft' = Aft /\ Link' = Link
  BY <1>1 DEF Ext, Mrk, Aft, Link, Extent, Mark, After, Cut1, Current, Top
<1>5. Layout' /\ Tiling' /\ Marks'
  BY <1>1, <1>2, <1>3, <1>4 DEF IInv, Layout, Initing, Tiling, Marks
<1>6. Spares'
  <2>1. SpareSet' = SpareSet
    BY <1>1, <1>2, <1>3 DEF SpareSet, Spare, InTable
  <2> QED BY <1>1, <1>4, <2>1 DEF IInv, Spares
<1>7. Locals'
  BY <1>1, <1>2, <1>4 DEF IInv, Locals, Kind, Walking, Asking, Scanning, Cutting,
     Finding, Merging, InTable
<1>8. Holdings'
  BY <1>1, <1>2 DEF IInv, Holdings, HeldBlock
<1> QED BY <1>1, <1>5, <1>6, <1>7, <1>8 DEF IInv

(* The calls of the one frame: no growth, no marking, no merge on the way. *)
LEMMA RunSafe ==
  ASSUME IInv, TypeInv', depth' \in {0, 1}, Run
  PROVE  IInv'
<1>1. depth = 1
  BY DEF IInv, Run, Search, Cut, FreeIt, MarkIt, Occupied, FirstFree, Housekeep,
     PassOver, Choose, OutOfMemory, TakeFree, Carve, Grow, InsertRight, InsertLeft,
     Claim, FindNext, FindMiss, FreeFound, Merge, FreeDone, MarkSkip, MarkTaken,
     MarkCut, MarkClose, MarkNext, MarkDone, At
<1>2. ~ Grow
  BY <1>1 DEF Grow, Push
<1>3. ~ MarkIt
  <2>1. Kind /\ (\A pc : At(pc) <=> Call1.pc = pc) /\ Top = Call1
    BY <1>1, OneFrame DEF IInv, Locals
  <2> QED BY <2>1 DEF MarkIt, MarkSkip, MarkTaken, MarkCut, MarkClose, MarkNext,
                      MarkDone, Kind
<1>4. CASE Search
  BY <1>1, <1>4, OccupiedSafe, FirstFreeSafe, HousekeepNever, PassOverSafe,
     ChooseSafe, OutOfMemorySafe DEF Search
<1>5. CASE Cut
  BY <1>1, <1>2, <1>5, TakeFreeSafe, CarveSafe, InsertRightSafe, InsertLeftSafe,
     ClaimSafe DEF Cut
<1>6. CASE FreeIt
  BY <1>1, <1>6, FindNextSafe, FindMissSafe, FreeFoundSafe, MergeSafe, FreeDoneSafe
     DEF FreeIt
<1> QED BY <1>3, <1>4, <1>5, <1>6, SMTT(40) DEF Run

LEMMA SafeStep ==
  ASSUME Reserved = {}, FreeDiscipline # "any", IInv, depth' \in {0, 1}, [Next]_vars
  PROVE  IInv'
<1>1. ~ \E n \in IsrSizes : Interrupt(n)
  BY DEF IInv, Interrupt, Call, Push
<1>2. TypeInv /\ (allocator_map = NULL => depth = 0)
  BY DEF IInv, Layout
<1>3. TypeInv'
  BY <1>1, <1>2, TypeStep
<1>4. CASE UNCHANGED vars
  BY <1>3, <1>4, StutterSafe
<1>5. CASE Next
  BY <1>1, <1>3, <1>5, InitKallocatorSafe, KamallocSafe, FreeSafe, FreeNullSafe,
     RunSafe DEF Next
<1> QED BY <1>4, <1>5

LEMMA SafeInit ==
  ASSUME Reserved = {}, Init PROVE IInv
<1>1. TypeInv
  BY TypeInit
<1>2. /\ \A b \in Uint32 : pos[b] = Off
      /\ \A i \in Ids : held[i].ptr = NULL
      /\ depth = 0 /\ allocator_map = NULL /\ free_blocks = NULL /\ unmarked = {}
  BY DEF Init, NoExtent
<1>3. Layout /\ Tiling /\ Marks /\ Locals
  BY <1>2 DEF Layout, Tiling, Tiled, Marks, Locals
<1>4. Spares
  <2>1. \A b \in Uint32 : ~ InTable(b)
    BY KallocAssumption DEF Init, InTable, Uint32, NULL
  <2>2. SpareSet = {} /\ free_blocks = NULL
    BY <2>1 DEF Init, SpareSet, Spare
  <2> QED BY <2>2 DEF Spares, Chain
<1>5. Holdings
  BY <1>2 DEF Holdings
<1> QED BY <1>1, <1>2, <1>3, <1>4, <1>5 DEF IInv

LEMMA TilingFollows ==
  ASSUME IInv PROVE BlockTiling
<1>1. \A b \in Uint32 : Ext[b] = Extent(b) /\ Aft[b] = After(b)
  BY DEF Ext, Aft
<1>2. allocator_map # NULL => pos[allocator_map] = 0
  BY DEF IInv, Layout
<1>3. ASSUME NEW b \in Listed
      PROVE  /\ Extent(b) > 0 /\ pos[b] + Extent(b) <= Total
             /\ After(b) = NULL => pos[b] + Extent(b) = Total
             /\ After(b) # NULL => pos[After(b)] = pos[b] + Extent(b)
             /\ \A c \in Listed \ {b} : Clear(pos[b], Extent(b), pos[c], Extent(c))
  <2>1. b \in Uint32 /\ pos[b] # Off
    BY DEF Listed
  <2>2. ASSUME NEW c \in Listed, c # b
        PROVE  Clear(pos[b], Extent(b), pos[c], Extent(c))
    BY <1>1, <2>1, <2>2, TiledPair DEF IInv, Tiling, Listed
  <2> QED BY <1>1, <2>1, <2>2, TiledOne DEF IInv, Tiling
<1> QED BY <1>2, <1>3 DEF BlockTiling

(* A block in use is as large as it says, wherever the one call is.        *)
LEMMA HeldExtent ==
  ASSUME IInv, NEW i \in Ids, NEW b \in Uint32, HeldBlock(i, b), held[i].ptr # NULL
  PROVE  /\ Ext[b] = held[i].len /\ pos[b] \in Nat /\ held[i].len \in Nat
         /\ held[i].ptr = MemStart + pos[b] /\ pos[b] + held[i].len <= Total
         /\ pos[b] >= PageSize /\ page = MemStart /\ page # NULL
<1>1. Views /\ depth \in {0, 1}
  BY View DEF IInv
<1>2. allocator_map # NULL
  BY DEF IInv, Layout, HeldBlock
<1>3. In(Cuts) => Call1.crt_block # b
  <2>1. In(Cuts) => Kind /\ depth = 1 /\ Call1.pc \in Cuts
    BY DEF In, IInv, Locals
  <2>2. In(Cuts) => node[Call1.crt_block].used = 0
    BY <2>1 DEF IInv, Locals, Kind, Cuts, Cutting
  <2> QED BY <2>2 DEF HeldBlock
<1>4. Ext[b] = held[i].len
  BY <1>1, <1>3 DEF Views, HeldBlock
<1>5. /\ pos[b] \in Nat /\ Ext[b] \in Nat /\ Ext[b] > 0 /\ pos[b] + Ext[b] <= Total
  BY <1>1, ViewTypes, TiledOne DEF Views, HeldBlock, IInv, Tiling
<1>6. ~ Initing
  <2>1. Initing => Kind /\ Asking
    BY DEF Initing, IInv, Locals, Kind
  <2> QED BY <2>1 DEF Initing, Asking
<1>7. /\ node[MemStart].used = 3 /\ node[MemStart].size = PageSize
      /\ pos[MemStart] = 0 /\ MemStart \in Uint32 /\ MemStart > 0 /\ MemStart \in Nat
      /\ page = MemStart /\ page # NULL
  BY <1>2, <1>6, ConstType, KallocAssumption DEF IInv, Layout, NULL
<1>8. b # MemStart /\ (In(Cuts) => Call1.crt_block # MemStart)
  <2>1. In(Cuts) => node[Call1.crt_block].used = 0
    BY DEF In, IInv, Locals, Kind, Cuts, Cutting
  <2> QED BY <1>7, <2>1 DEF HeldBlock
<1>9. Ext[MemStart] = PageSize
  BY <1>1, <1>7, <1>8 DEF Views
<1>10. Clear(pos[MemStart], Ext[MemStart], pos[b], Ext[b])
  BY <1>7, <1>8, TiledPair DEF IInv, Tiling, HeldBlock, Off
<1>11. pos[b] >= PageSize
  BY <1>5, <1>7, <1>9, <1>10, KallocAssumption DEF Clear
<1> QED BY <1>4, <1>5, <1>7, <1>11 DEF HeldBlock

LEMMA ExclusiveFollows ==
  ASSUME IInv PROVE Exclusive
<1>1. ASSUME NEW i \in Ids, held[i].ptr # NULL
      PROVE  /\ MemStart + PageSize <= held[i].ptr
             /\ held[i].ptr + held[i].len <= MemStart + Total
             /\ page # NULL => Clear(page, PageSize, held[i].ptr, held[i].len)
             /\ \A j \in Ids \ {i} : held[j].ptr # NULL =>
                  Clear(held[i].ptr, held[i].len, held[j].ptr, held[j].len)
  <2>1. PICK b \in Uint32 : HeldBlock(i, b)
    BY <1>1 DEF IInv, Holdings
  <2>2. /\ Ext[b] = held[i].len /\ pos[b] \in Nat /\ held[i].len \in Nat
        /\ held[i].ptr = MemStart + pos[b] /\ pos[b] + held[i].len <= Total
        /\ pos[b] >= PageSize /\ page = MemStart
    BY <1>1, <2>1, HeldExtent
  <2>3. ASSUME NEW j \in Ids, j # i, held[j].ptr # NULL
        PROVE  Clear(held[i].ptr, held[i].len, held[j].ptr, held[j].len)
    <3>1. PICK c \in Uint32 : HeldBlock(j, c)
      BY <2>3 DEF IInv, Holdings
    <3>2. /\ Ext[c] = held[j].len /\ pos[c] \in Nat /\ held[j].len \in Nat
          /\ held[j].ptr = MemStart + pos[c]
      BY <2>3, <3>1, HeldExtent
    <3>3. b # c
      BY <1>1, <2>2, <2>3, <3>2 DEF IInv, Holdings
    <3>4. Clear(pos[b], Ext[b], pos[c], Ext[c])
      BY <2>1, <3>1, <3>3, TiledPair DEF IInv, Tiling, HeldBlock
    <3> QED BY <2>2, <3>2, <3>4, KallocAssumption DEF Clear
  <2>4. /\ MemStart + PageSize <= held[i].ptr
        /\ held[i].ptr + held[i].len <= MemStart + Total
        /\ Clear(page, PageSize, held[i].ptr, held[i].len)
    BY <2>2, KallocAssumption DEF Clear
  <2> QED BY <2>3, <2>4
<1> QED BY <1>1 DEF Exclusive

LEMMA Holds ==
  ASSUME Reserved = {}, FreeDiscipline # "any"
  PROVE  Spec /\ [](depth <= 1) => []IInv
<1>1. Init => IInv
  BY SafeInit
<1>2. IInv /\ [Next]_vars /\ (depth <= 1)' => IInv'
  <2> SUFFICES ASSUME IInv, [Next]_vars, depth' <= 1 PROVE IInv'
    OBVIOUS
  <2>1. depth' \in Nat
    <3>1. depth \in {0, 1}
      BY DEF IInv
    <3>2. CASE \E n \in IsrSizes : Interrupt(n)
      BY <3>1, <3>2 DEF Interrupt, Call, Push
    <3>3. CASE ~ \E n \in IsrSizes : Interrupt(n)
      BY <3>3, TypeStep DEF IInv, Layout, TypeInv, TypeOK
    <3> QED BY <3>2, <3>3
  <2>2. depth' \in {0, 1}
    BY <2>1
  <2> QED BY <2>2, SafeStep
<1> QED BY <1>1, <1>2, PTL DEF Spec

(* The list tiles the region at every step of every cut and every merge,   *)
(* whatever the sizes, the alignments and the number of requests.          *)
THEOREM TilesAlways ==
  ASSUME Reserved = {}, FreeDiscipline # "any"
  PROVE  Spec /\ [](depth <= 1) => []BlockTiling
<1>1. IInv => BlockTiling
  BY TilingFollows
<1> QED BY <1>1, Holds, PTL

(* Clients never hold memory of each other, of the structs or outside the  *)
(* region, where calls do not nest.                                        *)
THEOREM HeldApart ==
  ASSUME Reserved = {}, FreeDiscipline # "any"
  PROVE  Spec /\ [](depth <= 1) => []Exclusive
<1>1. IInv => Exclusive
  BY ExclusiveFollows
<1> QED BY <1>1, Holds, PTL

-----------------------------------------------------------------------------
(* What a step of the one call leaves alone.                               *)

Asks == {"scan", "test", "cut", "insert"}

LEMMA OneRuns ==
  ASSUME IInv, Run PROVE depth = 1 /\ TypeInv /\ Call1 \in Frames /\ Kind
<1>1. depth = 1
  BY DEF IInv, Run, Search, Cut, FreeIt, MarkIt, Occupied, FirstFree, Housekeep,
     PassOver, Choose, OutOfMemory, TakeFree, Carve, Grow, InsertRight, InsertLeft,
     Claim, FindNext, FindMiss, FreeFound, Merge, FreeDone, MarkSkip, MarkTaken,
     MarkCut, MarkClose, MarkNext, MarkDone, At
<1> QED BY <1>1, OneFrame DEF IInv, Locals

(* With one call at a time, no growth, no marking and no lazy merge.       *)
LEMMA RunIs ==
  ASSUME IInv, Run, depth' \in {0, 1}
  PROVE  \/ Occupied \/ FirstFree \/ PassOver \/ Choose \/ OutOfMemory
         \/ TakeFree \/ Carve \/ InsertRight \/ InsertLeft \/ Claim
         \/ FindNext \/ FindMiss \/ FreeFound \/ Merge \/ FreeDone
<1>1. depth = 1 /\ Kind /\ TypeInv
  BY OneRuns
<1>2. ~ Grow
  BY <1>1 DEF Grow, Push
<1>3. ~ MarkIt
  <2>1. Top = Call1 /\ \A pc : At(pc) <=> Call1.pc = pc
    BY <1>1, OneFrame
  <2> QED BY <1>1, <2>1 DEF MarkIt, MarkSkip, MarkTaken, MarkCut, MarkClose, MarkNext,
                      MarkDone, Kind
<1>4. ~ Housekeep
  BY <1>1, HousekeepNever
<1> QED BY <1>2, <1>3, <1>4 DEF Run, Search, Cut, FreeIt

(* A request keeps its arguments, and once it is being cut its result.     *)
SameRequest ==
  /\ Call1'.ret = Call1.ret /\ Call1'.id = Call1.id
  /\ Call1'.nbytes = Call1.nbytes /\ Call1'.align = Call1.align
  /\ Call1'.target = Call1.target

LEMMA SearchShape ==
  ASSUME IInv, depth = 1, Occupied \/ FirstFree \/ PassOver \/ FindNext
  PROVE  /\ depth' = 1 /\ SameRequest /\ held' = held /\ allocations' = allocations
         /\ allocator_map' = allocator_map /\ node' = node /\ pos' = pos
         /\ Call1'.pc = IF Occupied \/ FirstFree THEN "test" ELSE IF PassOver THEN "scan" ELSE "find"
         /\ Call1.pc = IF Occupied \/ FirstFree THEN "scan" ELSE IF PassOver THEN "test" ELSE "find"
         /\ Occupied \/ FirstFree => Call1'.crt_block = Call1.crt_block /\ Call1'.block_start = Call1.block_start
<1>1. TypeInv /\ Call1 \in Frames /\ \A pc : At(pc) <=> Call1.pc = pc
  BY OneFrame DEF IInv
<1>2. UNCHANGED memory
  BY DEF Occupied, FirstFree, PassOver, FindNext
<1>3. node' = node /\ pos' = pos /\ held' = held /\ allocations' = allocations /\ allocator_map' = allocator_map
  BY <1>2, MemSame DEF memory, ledger
<1>4. Top = Call1 /\ \A f : Continue(f) => depth' = 1 /\ Call1' = f
  BY <1>1, OneFrame
<1>0. /\ Occupied \/ FirstFree => Call1.pc = "scan"
      /\ PassOver => Call1.pc = "test"
      /\ FindNext => Call1.pc = "find"
  BY <1>1 DEF Occupied, FirstFree, PassOver, FindNext
<1>5. CASE Occupied
  <2> DEFINE f == [Call1 EXCEPT !.pc = "test", !.last_free_block = NULL]
  <2>1. Continue(f) /\ Call1.pc = "scan"
    BY <1>1, <1>4, <1>5 DEF Occupied
  <2>2. /\ f.ret = Call1.ret /\ f.id = Call1.id /\ f.nbytes = Call1.nbytes
        /\ f.align = Call1.align /\ f.target = Call1.target /\ f.pc = "test"
        /\ f.crt_block = Call1.crt_block /\ f.block_start = Call1.block_start
    BY <1>1 DEF Frames
  <2> HIDE DEF f
  <2> QED BY <1>3, <1>4, <1>5, <2>1, <2>2 DEF SameRequest
<1>6. CASE FirstFree
  <2> DEFINE f == [Call1 EXCEPT !.pc = "test",
       !.last_free_block = IF Call1.prev_block = NULL \/ node[Call1.prev_block].used = 1
                           THEN Call1.crt_block ELSE NULL]
  <2>1. Continue(f) /\ Call1.pc = "scan"
    BY <1>1, <1>4, <1>6 DEF FirstFree
  <2>2. /\ f.ret = Call1.ret /\ f.id = Call1.id /\ f.nbytes = Call1.nbytes
        /\ f.align = Call1.align /\ f.target = Call1.target /\ f.pc = "test"
        /\ f.crt_block = Call1.crt_block /\ f.block_start = Call1.block_start
    BY <1>1 DEF Frames
  <2> HIDE DEF f
  <2> QED BY <1>3, <1>4, <1>6, <2>1, <2>2 DEF SameRequest
<1>7. ASSUME NEW pc, Advance(pc)
      PROVE  depth' = 1 /\ SameRequest /\ Call1'.pc = pc
  <2> DEFINE f == [Call1 EXCEPT !.pc = pc,
                     !.block_start = Plus(@, node[Call1.crt_block].size),
                     !.prev_block = Call1.crt_block,
                     !.crt_block = node[Call1.crt_block].next]
  <2>1. Continue(f)
    BY <1>1, <1>7, OneFrame DEF Advance
  <2>2. /\ f.ret = Call1.ret /\ f.id = Call1.id /\ f.nbytes = Call1.nbytes
        /\ f.align = Call1.align /\ f.target = Call1.target /\ f.pc = pc
    BY <1>1 DEF Frames
  <2> HIDE DEF f
  <2> QED BY <1>4, <2>1, <2>2 DEF SameRequest
<1>8. CASE PassOver
  <2>1. Call1.pc = "test" /\ Advance("scan")
    BY <1>1, <1>8 DEF PassOver
  <2> QED BY <1>0, <1>3, <1>7, <1>8, <2>1
<1>9. CASE FindNext
  <2>1. Call1.pc = "find" /\ Advance("find")
    BY <1>1, <1>9 DEF FindNext
  <2> QED BY <1>0, <1>3, <1>7, <2>1
<1> QED BY <1>5, <1>6, <1>8, <1>9

LEMMA CutShape ==
  ASSUME IInv, depth = 1, TakeFree \/ Carve \/ InsertRight \/ InsertLeft
  PROVE  /\ depth' = 1 /\ SameRequest /\ held' = held /\ allocations' = allocations
         /\ allocator_map' = allocator_map
         /\ Call1.pc \in {"cut", "insert"} /\ Call1'.pc \in {"cut", "insert"}
         /\ Call1'.result = Call1.result
<1>1. TypeInv /\ Call1 \in Frames /\ Kind /\ Top = Call1
      /\ \A pc : At(pc) <=> Call1.pc = pc
  BY OneFrame DEF IInv, Locals
<1>2. /\ held' = held /\ allocations' = allocations /\ allocator_map' = allocator_map
      /\ Call1.pc \in {"cut", "insert"}
  BY <1>1 DEF TakeFree, Carve, InsertRight, InsertLeft, ledger, Kind
<1>3. ASSUME NEW new, NEW left, NEW right, NEW pc \in {"cut", "insert"},
             Continue([Call1 EXCEPT !.pc = pc, !.newblock = new]) \/
             Continue([Call1 EXCEPT !.pc = pc, !.right = right]) \/
             Continue([Call1 EXCEPT !.pc = pc, !.left = left])
      PROVE  depth' = 1 /\ SameRequest /\ Call1'.pc = pc /\ Call1'.result = Call1.result
  <2>1. \A f : Continue(f) => depth' = 1 /\ Call1' = f
    BY <1>1, OneFrame
  <2>2. CASE Continue([Call1 EXCEPT !.pc = pc, !.newblock = new])
    <3>1. Call1' = [Call1 EXCEPT !.pc = pc, !.newblock = new]
      BY <2>1, <2>2
    <3> HIDE DEF Call1
    <3> QED BY <1>1, <2>1, <2>2, <3>1 DEF SameRequest, Frames
  <2>3. CASE Continue([Call1 EXCEPT !.pc = pc, !.right = right])
    <3>1. Call1' = [Call1 EXCEPT !.pc = pc, !.right = right]
      BY <2>1, <2>3
    <3> QED BY <1>1, <2>1, <2>3, <3>1 DEF SameRequest, Frames
  <2>4. CASE Continue([Call1 EXCEPT !.pc = pc, !.left = left])
    <3>1. Call1' = [Call1 EXCEPT !.pc = pc, !.left = left]
      BY <2>1, <2>4, SMTT(40)
    <3> QED BY <1>1, <2>1, <2>4, <3>1 DEF SameRequest, Frames
  <2> QED BY <1>3, <2>2, <2>3, <2>4
<1>4. CASE TakeFree
  BY <1>1, <1>2, <1>3, <1>4, ZenonT(60) DEF TakeFree
<1>5. CASE Carve
  BY <1>1, <1>2, <1>3, <1>5, ZenonT(60) DEF Carve
<1>6. CASE InsertRight
  BY <1>1, <1>2, <1>3, <1>6, ZenonT(60) DEF InsertRight
<1>7. CASE InsertLeft
  BY <1>1, <1>2, <1>3, <1>7, ZenonT(60) DEF InsertLeft
<1> QED BY <1>4, <1>5, <1>6, <1>7

(* kfree keeps the clients as they are, but for the extent given up.       *)
LEMMA FreeShape ==
  ASSUME IInv, depth = 1, FreeFound \/ Merge
  PROVE  /\ depth' = 1 /\ SameRequest /\ held' = held /\ allocations' = allocations
         /\ allocator_map' = allocator_map
         /\ Call1.pc \in {"find", "merge"} /\ Call1'.pc = "merge"
<1>1. TypeInv /\ Call1 \in Frames /\ Top = Call1 /\ \A pc : At(pc) <=> Call1.pc = pc
  BY OneFrame DEF IInv
<1>2. CASE FreeFound
  <2> DEFINE f == [Call1 EXCEPT !.pc = "merge", !.nextblk = node[Call1.crt_block].next]
  <2>1. /\ Continue(f) /\ held' = held /\ allocations' = allocations
        /\ allocator_map' = allocator_map /\ Call1.pc = "find"
    BY <1>1, <1>2, OneFrame DEF FreeFound
  <2>2. /\ f.ret = Call1.ret /\ f.id = Call1.id /\ f.nbytes = Call1.nbytes
        /\ f.align = Call1.align /\ f.target = Call1.target /\ f.pc = "merge"
    BY <1>1 DEF Frames
  <2> HIDE DEF f
  <2> QED BY <1>1, <2>1, <2>2, OneFrame DEF SameRequest
<1>3. CASE Merge
  <2> DEFINE f == [Call1 EXCEPT !.nextblk = node[Call1.nextblk].next]
  <2>1. /\ Continue(f) /\ held' = held /\ allocations' = allocations
        /\ allocator_map' = allocator_map /\ Call1.pc = "merge"
    BY <1>1, <1>3, OneFrame DEF Merge, ledger
  <2>2. /\ f.ret = Call1.ret /\ f.id = Call1.id /\ f.nbytes = Call1.nbytes
        /\ f.align = Call1.align /\ f.target = Call1.target /\ f.pc = Call1.pc
    BY <1>1 DEF Frames
  <2> HIDE DEF f
  <2> QED BY <1>1, <2>1, <2>2, OneFrame DEF SameRequest
<1> QED BY <1>2, <1>3

LEMMA ChooseShape ==
  ASSUME IInv, depth = 1, Choose
  PROVE  /\ depth' = 1 /\ SameRequest /\ held' = held /\ allocations' = allocations
         /\ allocator_map' = allocator_map
         /\ Call1.pc = "test" /\ Call1'.pc = "cut"
         /\ Call1'.result = MemStart + Call1.block_start
                              + OffsetRequired(Call1.align, Call1.block_start)
         /\ Call1.block_start \in Nat
<1> DEFINE s   == Call1.block_start
           off == OffsetRequired(Call1.align, s)
           f   == [Call1 EXCEPT !.pc = "cut", !.left = off, !.keep = Call1.nbytes,
                     !.right = Minus(Minus(node[Call1.crt_block].size, Call1.nbytes), off),
                     !.result = Plus(Plus(MemStart, off), s)]
<1>1. TypeInv /\ Call1 \in Frames
  BY OneFrame DEF IInv
<1>2. /\ Call1.pc = "test" /\ Continue(f)
      /\ f.pc = "cut" /\ f.left = off /\ f.result = MemStart + s + f.left
      /\ f.ret = Call1.ret /\ f.id = Call1.id /\ f.nbytes = Call1.nbytes
      /\ f.align = Call1.align
  BY ChooseParts
<1>3. f.target = Call1.target /\ s \in Nat
  BY <1>1 DEF Frames, Uint32
<1> HIDE DEF f
<1>4. depth' = 1 /\ Call1' = f
  BY <1>1, <1>2, OneFrame
<1>5. held' = held /\ allocations' = allocations /\ allocator_map' = allocator_map
  BY MemSame DEF Choose, memory, ledger
<1> QED BY <1>2, <1>3, <1>4, <1>5 DEF SameRequest

(* A call returns.                                                         *)
LEMMA ReturnShape ==
  ASSUME IInv, depth = 1, OutOfMemory \/ FindMiss \/ FreeDone
  PROVE  /\ depth' = 0 /\ held' = held /\ allocator_map' = allocator_map
         /\ OutOfMemory => Call1.pc = "scan" /\ Call1.ret = "client"
         /\ FindMiss => Call1.pc = "find" /\ Call1.crt_block = NULL
         /\ FreeDone => Call1.pc = "merge"
         /\ allocations' = IF FreeDone THEN Minus(allocations, 1) ELSE allocations
<1>1. Kind /\ Top = Call1 /\ (\A pc : At(pc) <=> Call1.pc = pc) /\ (Pop => depth' = 0)
  BY OneFrame DEF IInv, Locals
<1>2. CASE OutOfMemory
  <2>1. Call1.pc = "scan" /\ Return(NULL) /\ Call1.crt_block = NULL
    BY <1>1, <1>2 DEF OutOfMemory
  <2>2. Call1.ret = "client"
    BY <1>1, <2>1, Ready DEF IInv, Locals, Asking, Kind
  <2>3. Pop /\ held' = held
    BY <1>1, <2>1, <2>2 DEF Return
  <2>4. ~ FreeDone /\ ~ FindMiss
    BY <1>1, <2>1 DEF FreeDone, FindMiss
  <2> QED BY <1>1, <1>2, <2>1, <2>2, <2>3, <2>4 DEF OutOfMemory, ledger
<1>3. CASE FindMiss
  <2>1. Call1.pc = "find" /\ Call1.crt_block = NULL /\ ~ FreeDone /\ ~ OutOfMemory
    BY <1>1, <1>3 DEF FindMiss, FreeDone, OutOfMemory
  <2>2. held' = held /\ allocations' = allocations /\ allocator_map' = allocator_map /\ Pop
    BY <1>3, MemSame DEF FindMiss, memory, ledger
  <2> QED BY <1>1, <2>1, <2>2
<1>4. CASE FreeDone
  <2>1. Call1.pc = "merge" /\ ~ FindMiss /\ ~ OutOfMemory
    BY <1>1, <1>4 DEF FindMiss, FreeDone, OutOfMemory
  <2> QED BY <1>1, <1>4, <2>1 DEF FreeDone
<1> QED BY <1>2, <1>3, <1>4

LEMMA ClaimShape ==
  ASSUME IInv, depth = 1, Claim
  PROVE  /\ depth' = 0 /\ Call1.pc = "cut" /\ Call1.result # NULL
         /\ allocations' = Plus(allocations, 1) /\ allocator_map' = allocator_map
         /\ Call1.ret \in {"init", "client"}
         /\ Call1.ret = "init" => Call1.id = 0 /\ \A i \in Ids : held[i].ptr = NULL
         /\ Call1.id # 0 => held[Call1.id].ptr = NULL
         /\ held' = IF Call1.id = 0 THEN held
                    ELSE [held EXCEPT ![Call1.id] = [ptr |-> Call1.result,
                            len |-> Call1.nbytes, align |-> Call1.align]]
<1>1. Kind /\ Asking /\ Call1.pc = "cut" /\ Call1.result # NULL
  BY ClaimNode
<1>2. Top = Call1 /\ (Pop => depth' = 0)
  BY OneFrame DEF IInv
<1>3. /\ allocations' = Plus(allocations, 1) /\ allocator_map' = allocator_map
      /\ Return(Call1.result)
  BY <1>2 DEF Claim
<1>4. Call1.ret # "mkblock"
  BY <1>1 DEF Kind
<1>5. Pop /\ held' = IF Call1.id = 0 THEN held
                     ELSE [held EXCEPT ![Call1.id] = [ptr |-> Call1.result,
                             len |-> Call1.nbytes, align |-> Call1.align]]
  BY <1>1, <1>2, <1>3, <1>4 DEF Return
<1>6. Call1.id # 0 => held[Call1.id].ptr = NULL
  BY DEF IInv, Holdings
<1> QED BY <1>1, <1>2, <1>3, <1>5, <1>6 DEF Kind, Asking

(* Which step is taken, once the invariant is known on both sides.         *)
LEMMA NextIs ==
  ASSUME Reserved = {}, IInv, IInv', [Next]_vars
  PROVE  \/ InitKallocator
         \/ \E n \in Sizes, a \in Aligns : Kamalloc(n, a)
         \/ \E i \in Ids : Free(i)
         \/ FreeNull
         \/ Run /\ depth = 1 /\ depth' \in {0, 1}
         \/ UNCHANGED vars
<1>1. depth \in {0, 1} /\ depth' \in {0, 1}
  BY DEF IInv
<1>2. ~ \E n \in IsrSizes : Interrupt(n)
  BY <1>1 DEF Interrupt, Call, Push
<1>3. Run => depth = 1
  BY OneRuns
<1> QED BY <1>1, <1>2, <1>3 DEF Next

-----------------------------------------------------------------------------
(* What clients hold is what they asked for, at the alignment they asked.  *)

AlignedAt(p, a) == a # 0 => (p - MemStart) % a = 0

HeldAsAsked ==
  \A i \in Ids :
    \/ held[i] = NoExtent
    \/ /\ held[i].ptr # NULL /\ held[i].len \in Sizes /\ held[i].align \in Aligns
       /\ AlignedAt(held[i].ptr, held[i].align)

AskedFor ==
  depth = 1 /\ Call1.ret = "client" /\ Call1.pc \in Asks =>
    /\ Call1.nbytes \in Sizes /\ Call1.align \in Aligns /\ Call1.id \in Ids
    /\ Call1.pc \in {"cut", "insert"} => AlignedAt(Call1.result, Call1.align)

AlignInv == HeldAsAsked /\ AskedFor

(* Rounding up to a multiple: the remainder of start + offset is 0.        *)
LEMMA RoundUp ==
  ASSUME NEW a \in Nat, NEW s \in Nat, a # 0
  PROVE  (s + OffsetRequired(a, s)) % a = 0
<1>1. (s + (a - (s % a))) % a = 0
  OBVIOUS
<1>2. CASE s % a = 0
  BY <1>2 DEF OffsetRequired
<1>3. CASE s % a # 0
  BY <1>1, <1>3 DEF OffsetRequired
<1> QED BY <1>2, <1>3

LEMMA AlignStep ==
  ASSUME Reserved = {}, IInv, IInv', AlignInv, [Next]_vars
  PROVE  AlignInv'
<1>1. CASE InitKallocator
  <2>1. /\ held' = held /\ depth = 0
        /\ Push([Request("init", 0, PageSize, 0, 3) EXCEPT !.crt_block = MemStart])
    BY <1>1 DEF InitKallocator, IInv, Layout
  <2>2. Call1' = [Request("init", 0, PageSize, 0, 3) EXCEPT !.crt_block = MemStart]
    BY <2>1, FirstFrame DEF IInv
  <2>3. Call1'.ret = "init"
    BY <2>2 DEF Request, NoFrame
  <2> QED BY <2>1, <2>3 DEF AlignInv, HeldAsAsked, AskedFor
<1>2. ASSUME NEW n \in Sizes, NEW a \in Aligns, Kamalloc(n, a)
      PROVE  AlignInv'
  <2>1. depth = 0 /\ UNCHANGED memory /\ \E i \in Ids : Push(Request("client", i, n, a, 1))
    BY <1>2 DEF Kamalloc, Call
  <2>2. PICK i \in Ids : Push(Request("client", i, n, a, 1))
    BY <2>1
  <2>3. Call1' = Request("client", i, n, a, 1)
    BY <2>1, <2>2, FirstFrame DEF IInv
  <2>4. Call1'.pc = "scan" /\ Call1'.nbytes = n /\ Call1'.align = a /\ Call1'.id = i
    BY <2>3 DEF Request, NoFrame
  <2>5. held' = held
    BY <2>1, MemSame
  <2> QED BY <2>4, <2>5 DEF AlignInv, HeldAsAsked, AskedFor
<1>3. ASSUME NEW ptr, Kfree(ptr)
      PROVE  depth' = 1 /\ Call1'.pc = "find"
  <2>1. depth = 0 /\ Push([Request("client", 0, 0, 0, 0) EXCEPT
             !.pc = "find", !.target = Minus(ptr, MemStart)])
    BY <1>3 DEF Kfree
  <2>2. depth' = 1 /\ Call1' = [Request("client", 0, 0, 0, 0) EXCEPT
             !.pc = "find", !.target = Minus(ptr, MemStart)]
    BY <2>1, FirstFrame DEF IInv
  <2> QED BY <2>2 DEF Request, NoFrame
<1>4. CASE FreeNull
  BY <1>3, <1>4 DEF FreeNull, AlignInv, HeldAsAsked, AskedFor, Asks
<1>5. ASSUME NEW i \in Ids, Free(i)
      PROVE  AlignInv'
  <2>1. held' = [held EXCEPT ![i] = NoExtent] /\ Call1'.pc = "find"
    BY <1>3, <1>5 DEF Free
  <2>2. held \in [Ids -> [ptr : Uint32, len : Uint32, align : Uint32]]
    BY VarTypes DEF IInv
  <2>3. HeldAsAsked'
    BY <2>1, <2>2 DEF AlignInv, HeldAsAsked
  <2> QED BY <2>1, <2>3 DEF AlignInv, AskedFor, Asks
<1>6. CASE Run /\ depth = 1 /\ depth' \in {0, 1}
  <2>1. CASE Occupied \/ FirstFree \/ PassOver \/ FindNext
    BY <1>6, <2>1, SearchShape DEF SameRequest, AlignInv, HeldAsAsked, AskedFor, Asks
  <2>2. CASE TakeFree \/ Carve \/ InsertRight \/ InsertLeft
    BY <1>6, <2>2, CutShape DEF SameRequest, AlignInv, HeldAsAsked, AskedFor, Asks
  <2>3. CASE FreeFound \/ Merge
    BY <1>6, <2>3, FreeShape DEF SameRequest, AlignInv, HeldAsAsked, AskedFor, Asks
  <2>4. CASE OutOfMemory \/ FindMiss \/ FreeDone
    BY <1>6, <2>4, ReturnShape DEF AlignInv, HeldAsAsked, AskedFor
  <2>5. CASE Choose
    <3> DEFINE s == Call1.block_start
               off == OffsetRequired(Call1.align, s)
    <3>1. /\ SameRequest /\ held' = held /\ depth' = 1 /\ Call1.pc = "test" /\ Call1'.pc = "cut"
          /\ Call1'.result = MemStart + s + off /\ s \in Nat
      BY <1>6, <2>5, ChooseShape
    <3>2. Call1.align \in Nat /\ MemStart \in Nat /\ off \in Nat
      <4>1. Call1.align \in Nat
        BY <1>6, OneRuns DEF Frames, Uint32
      <4>2. off \in 0 .. Call1.align
        BY <4>1, <3>1, NoOffsetAtStart
      <4> QED BY <4>1, <4>2, KallocAssumption
    <3>3. Call1'.result - MemStart = s + off
      BY <3>1, <3>2
    <3>4. AlignedAt(Call1'.result, Call1.align)
      BY <3>1, <3>2, <3>3, RoundUp DEF AlignedAt
    <3> HIDE DEF s, off
    <3> QED BY <1>6, <3>1, <3>4 DEF SameRequest, AlignInv, HeldAsAsked, AskedFor, Asks
  <2>6. CASE Claim
    <3>1. /\ depth' = 0 /\ Call1.pc = "cut" /\ Call1.result # NULL
          /\ Call1.ret \in {"init", "client"} /\ (Call1.ret = "init" => Call1.id = 0)
          /\ held' = IF Call1.id = 0 THEN held
                     ELSE [held EXCEPT ![Call1.id] = [ptr |-> Call1.result,
                            len |-> Call1.nbytes, align |-> Call1.align]]
      BY <1>6, <2>6, ClaimShape
    <3>2. Call1.id # 0 => /\ Call1.nbytes \in Sizes /\ Call1.align \in Aligns
                          /\ AlignedAt(Call1.result, Call1.align)
      BY <1>6, <3>1 DEF AlignInv, AskedFor, Asks
    <3>3. held \in [Ids -> [ptr : Uint32, len : Uint32, align : Uint32]]
      BY VarTypes DEF IInv
    <3>4. HeldAsAsked'
      BY <3>1, <3>2, <3>3 DEF AlignInv, HeldAsAsked
    <3> QED BY <3>1, <3>4 DEF AlignInv, AskedFor
  <2> QED BY <1>6, <2>1, <2>2, <2>3, <2>4, <2>5, <2>6, RunIs
<1>7. CASE UNCHANGED vars
  <2>1. held' = held /\ depth' = depth /\ frame' = frame
    BY <1>7, MemSame DEF vars
  <2> QED BY <2>1 DEF AlignInv, HeldAsAsked, AskedFor, Call1
<1> QED BY <1>1, <1>2, <1>4, <1>5, <1>6, <1>7, NextIs

LEMMA AlignInit ==
  ASSUME Init PROVE AlignInv
  BY DEF Init, AlignInv, HeldAsAsked, AskedFor

(* kamalloc's pointers are aligned as asked, where calls do not nest.      *)
THEOREM AlignedAlways ==
  ASSUME Reserved = {}, FreeDiscipline # "any"
  PROVE  Spec /\ [](depth <= 1) => []Aligned
<1>1. Init => AlignInv
  BY AlignInit
<1>2. IInv /\ IInv' /\ AlignInv /\ [Next]_vars => AlignInv'
  BY AlignStep
<1>3. AlignInv => Aligned
  BY DEF AlignInv, HeldAsAsked, Aligned, AlignedAt, NoExtent
<1> QED BY <1>1, <1>2, <1>3, Holds, PTL DEF Spec

-----------------------------------------------------------------------------
(* The refinement of PhysMem: a claim grants, a free releases, and every   *)
(* other step leaves the extents as they are.                              *)

LEMMA MemoryInit == Init => Memory!Init
  BY DEF Init, Memory!Init, NoExtent, Memory!None, NULL

LEMMA MemoryGrant ==
  ASSUME IInv, IInv', AlignInv, AlignInv', depth = 1, Claim, Call1.id # 0
  PROVE  Memory!Next
<1> DEFINE i == Call1.id
           e == [ptr |-> Call1.result, len |-> Call1.nbytes, align |-> Call1.align]
<1>1. /\ depth' = 0 /\ Call1.pc = "cut" /\ Call1.result # NULL
      /\ Call1.ret \in {"init", "client"} /\ (Call1.ret = "init" => Call1.id = 0)
      /\ held' = [held EXCEPT ![i] = e] /\ held[i].ptr = NULL
  BY ClaimShape
<1>2. /\ e.len \in Sizes /\ e.align \in Aligns /\ i \in Ids
      /\ AlignedAt(e.ptr, e.align)
  BY <1>1 DEF AlignInv, AskedFor, Asks
<1>3. held[i] = Memory!None
  BY <1>1, <1>2 DEF AlignInv, HeldAsAsked, NoExtent, Memory!None, NULL
<1>4. held \in [Ids -> [ptr : Uint32, len : Uint32, align : Uint32]]
  BY VarTypes DEF IInv
<1>5. held'[i] = e /\ \A j \in Ids \ {i} : held'[j] = held[j]
  BY <1>1, <1>2, <1>4
<1>6. /\ MemStart + PageSize <= e.ptr /\ e.ptr + e.len <= MemStart + Total
      /\ \A j \in Ids \ {i} : held[j].ptr # NULL => Clear(e.ptr, e.len, held[j].ptr, held[j].len)
  <2>1. Exclusive'
    BY <1>1, ExclusiveFollows, PTL
  <2> HIDE DEF e, i
  <2>2. e.ptr # NULL
    BY <1>1 DEF e
  <2> QED BY <1>2, <1>5, <2>1, <2>2 DEF Exclusive
<1>7. e.ptr \in Nat /\ e.len \in Nat /\ {MemStart, PageSize, Total} \subseteq Nat
  <2>1. Call1 \in Frames
    BY OneFrame DEF IInv
  <2> QED BY <2>1, KallocAssumption DEF Frames, Uint32
<1>8. Memory!Fit(e)
  <2>1. ASSUME NEW j \in Ids, held[j] # Memory!None
        PROVE  Memory!Disjoint(e, held[j])
    <3>1. j # i /\ held[j].ptr # NULL
      BY <1>3, <2>1 DEF AlignInv, HeldAsAsked, NoExtent, Memory!None, NULL
    <3> QED BY <1>6, <3>1 DEF Clear, Memory!Disjoint
  <2> HIDE DEF e
  <2> QED BY <1>2, <1>6, <2>1 DEF Memory!Fit, AlignedAt
<1>9. e \in Memory!Requests
  BY <1>2, <1>6, <1>7 DEF Memory!Requests
<1>10. Memory!Grant(i, e)
  BY <1>1, <1>3, <1>8 DEF Memory!Grant
<1> QED BY <1>2, <1>9, <1>10 DEF Memory!Next

LEMMA MemoryStep ==
  ASSUME Reserved = {}, IInv, IInv', AlignInv, AlignInv', [Next]_vars
  PROVE  Memory!Next \/ held' = held
<1>1. CASE InitKallocator
  BY <1>1 DEF InitKallocator
<1>2. CASE \E n \in Sizes, a \in Aligns : Kamalloc(n, a)
  BY <1>2, MemSame DEF Kamalloc, Call
<1>3. CASE FreeNull
  BY <1>3 DEF FreeNull
<1>4. ASSUME NEW i \in Ids, Free(i)
      PROVE  Memory!Next
  <2>1. held[i] # Memory!None /\ held' = [held EXCEPT ![i] = Memory!None]
    BY <1>4 DEF Free, NoExtent, Memory!None, NULL
  <2> QED BY <2>1 DEF Memory!Release, Memory!Next
<1>5. CASE Run /\ depth = 1 /\ depth' \in {0, 1}
  <2>1. CASE Claim
    <3>1. CASE Call1.id = 0
      BY <1>5, <2>1, <3>1, ClaimShape
    <3>2. CASE Call1.id # 0
      BY <1>5, <2>1, <3>2, MemoryGrant
    <3> QED BY <3>1, <3>2
  <2> QED BY <1>5, <2>1, RunIs, SearchShape, CutShape, FreeShape, ReturnShape, ChooseShape
<1>6. CASE UNCHANGED vars
  BY <1>6, MemSame DEF vars
<1> QED BY <1>1, <1>2, <1>3, <1>4, <1>5, <1>6, NextIs

(* The allocator implements the promise of PhysMem, where calls do not     *)
(* nest: whatever is asked for and freed, an extent is granted only free   *)
(* and aligned, and stays with its client.                                 *)
THEOREM Implements ==
  ASSUME Reserved = {}, FreeDiscipline # "any"
  PROVE  Spec /\ [](depth <= 1) => MemorySpec
<1>1. Init => AlignInv /\ Memory!Init
  BY AlignInit, MemoryInit
<1>2. IInv /\ IInv' /\ AlignInv /\ [Next]_vars => AlignInv'
  BY AlignStep
<1>3. IInv /\ IInv' /\ AlignInv /\ AlignInv' /\ [Next]_vars => [Memory!Next]_held
  BY MemoryStep
<1> QED BY <1>1, <1>2, <1>3, Holds, PTL DEF Spec, MemorySpec, Memory!Spec

-----------------------------------------------------------------------------
(* One step of a walk along the list: the blocks passed are exactly those  *)
(* that start before block_start.                                          *)
LEMMA WalkOn ==
  ASSUME IInv, depth = 1, NEW pc, Advance(pc),
         Call1.pc \in {"test", "find"}, Call1.crt_block # NULL
  PROVE  LET crt == Call1.crt_block IN
         /\ crt \in Uint32 /\ pos[crt] = Call1.block_start /\ pos[crt] # Off
         /\ pos[crt] \in Nat /\ node[crt].size \in Nat /\ node[crt].size > 0
         /\ Call1'.crt_block = node[crt].next
         /\ Call1'.block_start = pos[crt] + node[crt].size
         /\ node[crt].next = NULL => pos[crt] + node[crt].size = Total
         /\ \A b \in Uint32 \ {crt} : pos[b] # Off /\ pos[b] >= pos[crt] =>
              pos[b] >= pos[crt] + node[crt].size
<1> DEFINE crt == Call1.crt_block
           f == [Call1 EXCEPT !.pc = pc, !.block_start = Plus(@, node[crt].size),
                              !.prev_block = crt, !.crt_block = node[crt].next]
<1>1. TypeInv /\ Call1 \in Frames /\ Continue(f)
  BY OneFrame DEF IInv, Advance
<1>2. depth' = 1 /\ Call1' = f
  BY <1>1, OneFrame
<1>3. /\ f.crt_block = node[crt].next /\ f.block_start = Plus(Call1.block_start, node[crt].size)
      /\ crt \in Uint32 /\ Call1.block_start \in Nat /\ ~ In(Special)
  BY <1>1 DEF Frames, Uint32, In, Special
<1> HIDE DEF f
<1>4. pos[crt] = Call1.block_start /\ pos[crt] # Off
  BY <1>3 DEF IInv, Locals, Walking, Off
<1>5. /\ Views /\ Ext[crt] = node[crt].size /\ Aft[crt] = node[crt].next
      /\ pos[crt] \in Nat /\ node[crt].size \in Nat /\ node[crt].size > 0
      /\ pos[crt] + node[crt].size <= Total
  BY <1>3, <1>4, ListBlock
<1>6. node[crt].next = NULL => pos[crt] + node[crt].size = Total
  BY <1>3, <1>4, <1>5, TiledOne DEF IInv, Tiling
<1>7. Plus(Call1.block_start, node[crt].size) = pos[crt] + node[crt].size
  BY <1>4, <1>5, KallocAssumption DEF Plus
<1>8. ASSUME NEW b \in Uint32 \ {crt}, pos[b] # Off, pos[b] >= pos[crt]
      PROVE  pos[b] >= pos[crt] + node[crt].size
  <2>1. Clear(pos[crt], Ext[crt], pos[b], Ext[b])
    BY <1>3, <1>4, <1>8, TiledPair DEF IInv, Tiling
  <2>2. Ext[b] = node[b].size /\ node[b].size > 0 /\ pos[b] \in Nat /\ node[b].size \in Nat
    BY <1>3, <1>8, ListBlock
  <2> QED BY <1>5, <1>8, <2>1, <2>2 DEF Clear
<1> QED BY <1>2, <1>3, <1>4, <1>5, <1>6, <1>7, <1>8

-----------------------------------------------------------------------------
(* The number of allocations, at every step: an extent given up is counted *)
(* until free_block is done, because kfree finds its block.                *)

Holders == {i \in Ids : held[i].ptr # NULL}
Freeing == depth = 1 /\ \/ Call1.pc = "merge"
                        \/ Call1.pc = "find" /\ Call1.target < Total

Counted ==
  allocations = IF allocator_map = NULL \/ Initing THEN 0
                ELSE IF Freeing THEN Cardinality(Holders) + 2
                ELSE Cardinality(Holders) + 1

AheadOfWalk ==
  depth = 1 /\ Call1.pc = "find" =>
    /\ Call1.crt_block = NULL => Call1.block_start = Total
    /\ Call1.target < Total =>
         \E b \in Uint32 : /\ pos[b] = Call1.target /\ node[b].used = 1
                           /\ Call1.block_start <= pos[b]

CountInv == Counted /\ AheadOfWalk

(* Every client holds a block of its own, so there are not too many.       *)
LEMMA FewHolders ==
  ASSUME IInv
  PROVE  /\ IsFiniteSet(Holders) /\ Cardinality(Holders) \in Nat
         /\ Cardinality(Holders) + 2 < Word
<1> DEFINE f == [i \in Holders |-> held[i].ptr]
           T == MemStart + PageSize .. MemStart + Total
<1>1. Exclusive
  BY ExclusiveFollows
<1>2. held \in [Ids -> [ptr : Uint32, len : Uint32, align : Uint32]]
  BY VarTypes DEF IInv
<1>3. {MemStart, PageSize, Total, Word} \subseteq Nat
  BY KallocAssumption
<1>4. ASSUME NEW i \in Holders PROVE f[i] \in T
  <2>1. i \in Ids /\ held[i].ptr # NULL /\ held[i].ptr \in Nat /\ held[i].len \in Nat
    BY <1>2 DEF Holders, Uint32
  <2>2. MemStart + PageSize <= held[i].ptr /\ held[i].ptr + held[i].len <= MemStart + Total
    BY <1>1, <2>1 DEF Exclusive
  <2> QED BY <1>3, <2>1, <2>2
<1>5. \A i, j \in Holders : f[i] = f[j] => i = j
  BY DEF Holders, IInv, Holdings
<1>6. f \in Injection(Holders, T)
  BY <1>4, <1>5 DEF Injection, IsInjective
<1>7. IsFiniteSet(T) /\ Cardinality(T) <= Total
  <2> DEFINE a == MemStart + PageSize
             b == MemStart + Total
  <2>1. a \in Int /\ b \in Int
    BY <1>3
  <2>2. a < b + 1 /\ b - a + 1 <= Total
    BY <1>3, KallocAssumption
  <2> HIDE DEF a, b
  <2>3. IsFiniteSet(a .. b) /\ Cardinality(a .. b) = IF a > b THEN 0 ELSE b - a + 1
    BY <2>1, FS_Interval
  <2>4. Cardinality(a .. b) <= Total
    BY <1>3, <2>1, <2>2, <2>3
  <2> QED BY <2>3, <2>4 DEF a, b
<1> HIDE DEF f, T
<1>8. IsFiniteSet(Holders) /\ Cardinality(Holders) <= Cardinality(T)
  BY <1>6, <1>7, FS_Injection
<1>9. Cardinality(Holders) \in Nat /\ Cardinality(T) \in Nat
  BY <1>7, <1>8, FS_CardinalityType
<1> QED BY <1>3, <1>7, <1>8, <1>9, KallocAssumption

LEMMA CountInit ==
  ASSUME Init PROVE CountInv
  BY DEF Init, CountInv, Counted, AheadOfWalk, NULL

LEMMA CountStep ==
  ASSUME Reserved = {}, IInv, IInv', AlignInv, CountInv, [Next]_vars
  PROVE  CountInv'
<1>0. /\ held \in [Ids -> [ptr : Uint32, len : Uint32, align : Uint32]]
      /\ IsFiniteSet(Holders) /\ Cardinality(Holders) \in Nat
      /\ Cardinality(Holders) + 2 < Word
  BY VarTypes, FewHolders DEF IInv
<1>1. CASE InitKallocator
  <2>1. /\ depth = 0 /\ allocator_map = NULL /\ allocations' = allocations
        /\ Push([Request("init", 0, PageSize, 0, 3) EXCEPT !.crt_block = MemStart])
    BY <1>1 DEF InitKallocator, IInv, Layout
  <2>2. depth' = 1 /\ Call1' = [Request("init", 0, PageSize, 0, 3) EXCEPT !.crt_block = MemStart]
    BY <2>1, FirstFrame DEF IInv
  <2>3. Call1'.ret = "init" /\ Call1'.pc = "scan"
    BY <2>2 DEF Request, NoFrame
  <2> QED BY <2>1, <2>2, <2>3 DEF CountInv, Counted, AheadOfWalk, Initing
<1>2. ASSUME NEW n \in Sizes, NEW a \in Aligns, Kamalloc(n, a)
      PROVE  CountInv'
  <2>1. /\ depth = 0 /\ UNCHANGED memory /\ allocator_map # NULL
        /\ \E i \in Ids : Push(Request("client", i, n, a, 1))
    BY <1>2 DEF Kamalloc, Call, Booted
  <2>2. PICK i \in Ids : Push(Request("client", i, n, a, 1))
    BY <2>1
  <2>3. depth' = 1 /\ Call1' = Request("client", i, n, a, 1)
    BY <2>1, <2>2, FirstFrame DEF IInv
  <2>4. Call1'.pc = "scan" /\ Call1'.ret = "client"
    BY <2>3 DEF Request, NoFrame
  <2>5. allocations' = allocations /\ allocator_map' = allocator_map /\ Holders' = Holders
    BY <2>1, MemSame DEF memory, ledger, Holders
  <2> QED BY <2>1, <2>3, <2>4, <2>5 DEF CountInv, Counted, AheadOfWalk, Initing, Freeing
<1>3. ASSUME NEW ptr, Kfree(ptr)
      PROVE  /\ depth = 0 /\ depth' = 1 /\ Call1'.pc = "find" /\ Call1'.ret = "client"
             /\ Call1'.target = Minus(ptr, MemStart)
             /\ Call1'.crt_block = allocator_map /\ Call1'.block_start = 0
             /\ allocator_map # NULL /\ allocator_map' = allocator_map
             /\ allocations' = allocations /\ node' = node /\ pos' = pos
  <2>1. depth = 0 /\ allocator_map # NULL
        /\ Push([Request("client", 0, 0, 0, 0) EXCEPT
             !.pc = "find", !.target = Minus(ptr, MemStart)])
    BY <1>3 DEF Kfree, Booted
  <2>2. depth' = 1 /\ Call1' = [Request("client", 0, 0, 0, 0) EXCEPT
             !.pc = "find", !.target = Minus(ptr, MemStart)]
    BY <2>1, FirstFrame DEF IInv
  <2>3. /\ allocator_map' = allocator_map /\ allocations' = allocations
        /\ node' = node /\ pos' = pos
    BY <1>3 DEF Kfree, ledger
  <2> QED BY <2>1, <2>2, <2>3 DEF Request, NoFrame
<1>4. CASE FreeNull
  <2>1. Kfree(NULL) /\ held' = held
    BY <1>4 DEF FreeNull
  <2>2. Minus(NULL, MemStart) > Total
    BY KallocAssumption DEF Minus, NULL
  <2>3. Holders' = Holders
    BY <2>1 DEF Holders
  <2>4. ~ (Call1'.target < Total)
    BY <1>3, <2>1, <2>2, KallocAssumption DEF Minus, NULL
  <2> QED BY <1>3, <2>1, <2>3, <2>4 DEF CountInv, Counted, AheadOfWalk, Initing, Freeing
<1>5. ASSUME NEW i \in Ids, Free(i)
      PROVE  CountInv'
  <2>1. held' = [held EXCEPT ![i] = NoExtent] /\ held[i].ptr # NULL /\ Kfree(held[i].ptr)
    BY <1>5 DEF Free
  <2>2. PICK b \in Uint32 : HeldBlock(i, b)
    BY <2>1 DEF IInv, Holdings
  <2>3. /\ pos[b] \in Nat /\ held[i].ptr = MemStart + pos[b] /\ node[b].used = 1
        /\ node[b].size \in Nat /\ node[b].size > 0 /\ pos[b] + node[b].size <= Total
    BY <1>3, <2>1, <2>2, ListBlock DEF HeldBlock, In
  <2>4. Minus(held[i].ptr, MemStart) = pos[b] /\ pos[b] < Total
    BY <2>3, KallocAssumption DEF Minus
  <2>5. Holders' = Holders \ {i} /\ i \in Holders
    BY <1>0, <2>1 DEF Holders, NoExtent
  <2>6. Cardinality(Holders') = Cardinality(Holders) - 1
    BY <1>0, <2>5, FS_RemoveElement
  <2>7. Freeing' /\ ~ Initing' /\ ~ Freeing /\ ~ Initing
    BY <1>3, <2>1, <2>4 DEF Freeing, Initing
  <2>8. Counted'
    BY <1>0, <1>3, <2>1, <2>6, <2>7 DEF CountInv, Counted
  <2>9. AheadOfWalk'
    BY <1>3, <2>1, <2>3, <2>4 DEF AheadOfWalk
  <2> QED BY <2>8, <2>9 DEF CountInv
<1>6. CASE Run /\ depth = 1 /\ depth' \in {0, 1}
  <2>0. Kind /\ Call1 \in Frames /\ allocator_map # NULL
    BY <1>6, OneRuns, Ready, KallocAssumption DEF NULL
  <2>1. CASE Occupied \/ FirstFree \/ PassOver
    <3>1. /\ depth' = 1 /\ SameRequest /\ held' = held /\ allocations' = allocations
          /\ allocator_map' = allocator_map /\ Call1.pc \in {"scan", "test"}
          /\ Call1'.pc \in {"scan", "test"}
      BY <1>6, <2>1, SearchShape
    <3> QED BY <1>6, <2>0, <3>1
            DEF SameRequest, CountInv, Counted, AheadOfWalk, Initing, Freeing, Holders
  <2>2. CASE TakeFree \/ Carve \/ InsertRight \/ InsertLeft
    BY <1>6, <2>0, <2>2, CutShape
            DEF SameRequest, CountInv, Counted, AheadOfWalk, Initing, Freeing, Holders
  <2>3. CASE Choose
    BY <1>6, <2>0, <2>3, ChooseShape
            DEF SameRequest, CountInv, Counted, AheadOfWalk, Initing, Freeing, Holders
  <2>4. CASE FindNext
    <3> DEFINE crt == Call1.crt_block
    <3>1. /\ depth' = 1 /\ SameRequest /\ held' = held /\ allocations' = allocations
          /\ allocator_map' = allocator_map /\ node' = node /\ pos' = pos
          /\ Call1.pc = "find" /\ Call1'.pc = "find"
      <4>1. ~ Occupied /\ ~ FirstFree /\ ~ PassOver
        BY <1>6, <2>4, OneFrame DEF IInv, FindNext, Occupied, FirstFree, PassOver
      <4> QED BY <1>6, <2>4, <4>1, SearchShape
    <3>2. crt # NULL /\ Advance("find") /\ ~ (node[crt].used = 1 /\ Call1.target = Call1.block_start)
      BY <1>6, <2>4, OneFrame DEF IInv, FindNext, Sought
    <3>3. /\ crt \in Uint32 /\ pos[crt] = Call1.block_start /\ pos[crt] # Off
          /\ Call1'.crt_block = node[crt].next
          /\ Call1'.block_start = pos[crt] + node[crt].size
          /\ node[crt].next = NULL => pos[crt] + node[crt].size = Total
          /\ \A b \in Uint32 \ {crt} : pos[b] # Off /\ pos[b] >= pos[crt] =>
               pos[b] >= pos[crt] + node[crt].size
          /\ pos[crt] \in Nat /\ node[crt].size \in Nat
      BY <1>6, <3>1, <3>2, WalkOn
    <3>4. Call1.target \in Nat
      BY <2>0 DEF Frames, Uint32
    <3> HIDE DEF crt
    <3>5. ASSUME Call1.target < Total
          PROVE  \E b \in Uint32 : /\ pos[b] = Call1.target /\ node[b].used = 1
                                   /\ Call1'.block_start <= pos[b]
      <4>1. PICK b \in Uint32 : /\ pos[b] = Call1.target /\ node[b].used = 1
                                /\ Call1.block_start <= pos[b]
        BY <1>6, <3>1, <3>5 DEF CountInv, AheadOfWalk
      <4>2. b # crt
        BY <3>2, <3>3, <4>1
      <4> QED BY <3>3, <3>4, <4>1, <4>2 DEF Off
    <3>6. AheadOfWalk'
      BY <3>1, <3>3, <3>5 DEF AheadOfWalk, SameRequest
    <3>7. Counted'
      BY <1>6, <3>1 DEF CountInv, Counted, SameRequest, Initing, Freeing, Holders
    <3> QED BY <3>6, <3>7 DEF CountInv
  <2>5. CASE FreeFound \/ Merge
    <3>1. /\ depth' = 1 /\ SameRequest /\ held' = held /\ allocations' = allocations
          /\ allocator_map' = allocator_map
          /\ Call1.pc \in {"find", "merge"} /\ Call1'.pc = "merge"
      BY <1>6, <2>5, FreeShape
    <3>2. Freeing
      <4>1. CASE Call1.pc = "merge"
        BY <1>6, <4>1 DEF Freeing
      <4>2. CASE Call1.pc = "find"
        <5>1. Call1.crt_block # NULL /\ Call1.target = Call1.block_start
          BY <1>6, <2>5, <4>2, OneFrame DEF IInv, FreeFound, Merge, Sought
        <5>2. Call1.crt_block \in Uint32 /\ Call1.block_start \in Nat /\ ~ In(Special)
          BY <2>0, <4>2 DEF Frames, Uint32, In, Special
        <5>3. pos[Call1.crt_block] = Call1.block_start /\ pos[Call1.crt_block] # Off
          BY <1>6, <4>2, <5>1, <5>2 DEF IInv, Locals, Walking, Off
        <5>4. Call1.block_start < Total
          <6>1. /\ node[Call1.crt_block].size \in Nat /\ node[Call1.crt_block].size > 0
                /\ pos[Call1.crt_block] + node[Call1.crt_block].size <= Total
            BY <5>2, <5>3, ListBlock
          <6> QED BY <5>2, <5>3, <6>1, KallocAssumption
        <5> QED BY <1>6, <4>2, <5>1, <5>4 DEF Freeing
      <4> QED BY <3>1, <4>1, <4>2
    <3>3. ~ Initing
      BY <1>6, <2>0, <3>1 DEF Kind, Initing
    <3> QED BY <1>6, <3>1, <3>2, <3>3
            DEF SameRequest, CountInv, Counted, AheadOfWalk, Initing, Freeing, Holders
  <2>6. CASE OutOfMemory \/ FindMiss
    <3>1. /\ depth' = 0 /\ held' = held /\ allocator_map' = allocator_map
          /\ OutOfMemory => Call1.pc = "scan" /\ Call1.ret = "client"
          /\ FindMiss => Call1.pc = "find" /\ Call1.crt_block = NULL
          /\ FreeDone => Call1.pc = "merge"
          /\ allocations' = IF FreeDone THEN Minus(allocations, 1) ELSE allocations
      BY <1>6, <2>6, ReturnShape
    <3>2. ~ Freeing
      <4>1. CASE OutOfMemory
        BY <3>1, <4>1 DEF Freeing
      <4>2. CASE FindMiss
        <5>1. Call1.target < Total => \E b \in Uint32 : pos[b] = Call1.target /\ Total <= pos[b]
          BY <1>6, <3>1, <4>2 DEF CountInv, AheadOfWalk
        <5>2. Call1.target \in Nat
          BY <2>0 DEF Frames, Uint32
        <5> QED BY <3>1, <4>2, <5>1, <5>2, KallocAssumption DEF Freeing
      <4> QED BY <2>6, <4>1, <4>2
    <3>3. ~ Initing /\ ~ FreeDone
      BY <2>0, <2>6, <3>1 DEF Initing, Kind
    <3>4. Holders' = Holders
      BY <3>1 DEF Holders
    <3> QED BY <2>0, <3>1, <3>2, <3>3, <3>4 DEF CountInv, Counted, AheadOfWalk, Initing, Freeing
  <2>7. CASE FreeDone
    <3>1. /\ depth' = 0 /\ held' = held /\ allocator_map' = allocator_map
          /\ Call1.pc = "merge" /\ allocations' = Minus(allocations, 1)
      BY <1>6, <2>7, ReturnShape
    <3>2. Freeing /\ ~ Initing
      BY <1>6, <2>0, <3>1 DEF Freeing, Initing, Kind
    <3>3. allocations = Cardinality(Holders) + 2 /\ Holders' = Holders
      BY <2>0, <3>1, <3>2 DEF CountInv, Counted, Holders
    <3>4. allocations' = Cardinality(Holders) + 1
      BY <1>0, <3>1, <3>3 DEF Minus
    <3> QED BY <2>0, <3>1, <3>3, <3>4 DEF CountInv, Counted, AheadOfWalk, Initing, Freeing
  <2>8. CASE Claim
    <3>1. /\ depth' = 0 /\ Call1.pc = "cut" /\ Call1.result # NULL
          /\ allocations' = Plus(allocations, 1) /\ allocator_map' = allocator_map
          /\ Call1.ret \in {"init", "client"}
          /\ Call1.ret = "init" => Call1.id = 0 /\ \A i \in Ids : held[i].ptr = NULL
          /\ Call1.id # 0 => held[Call1.id].ptr = NULL
          /\ held' = IF Call1.id = 0 THEN held
                     ELSE [held EXCEPT ![Call1.id] = [ptr |-> Call1.result,
                             len |-> Call1.nbytes, align |-> Call1.align]]
      BY <1>6, <2>8, ClaimShape
    <3>2. ~ Freeing /\ ~ Freeing' /\ ~ Initing'
      BY <3>1 DEF Freeing, Initing
    <3>3. AheadOfWalk'
      BY <3>1 DEF AheadOfWalk
    <3>4. CASE Call1.ret = "init"
      <4>1. Holders = {} /\ Holders' = {}
        BY <3>1, <3>4 DEF Holders
      <4>2. Cardinality(Holders') = 0
        BY <4>1, FS_EmptySet
      <4>3. allocations = 0
        BY <1>6, <3>4 DEF CountInv, Counted, Initing
      <4>4. Plus(0, 1) = 1
        BY KallocAssumption DEF Plus
      <4> QED BY <2>0, <3>1, <3>2, <3>3, <4>2, <4>3, <4>4 DEF CountInv, Counted
    <3>5. CASE Call1.ret = "client"
      <4>1. allocations = Cardinality(Holders) + 1
        BY <2>0, <3>2, <3>5 DEF CountInv, Counted, Initing
      <4>2. Call1.id \in Ids
        BY <1>6, <3>1, <3>5 DEF AlignInv, AskedFor, Asks
      <4>3. Holders' = Holders \cup {Call1.id} /\ Call1.id \notin Holders
        BY <1>0, <3>1, <4>2, KallocAssumption DEF Holders, Ids
      <4>4. Cardinality(Holders') = Cardinality(Holders) + 1
        BY <1>0, <4>3, FS_AddElement
      <4>5. allocations' = Cardinality(Holders) + 2
        BY <1>0, <3>1, <4>1, KallocAssumption DEF Plus
      <4> QED BY <1>0, <2>0, <3>1, <3>2, <3>3, <4>4, <4>5 DEF CountInv, Counted
    <3> QED BY <3>1, <3>4, <3>5
  <2> QED BY <1>6, <2>1, <2>2, <2>3, <2>4, <2>5, <2>6, <2>7, <2>8, RunIs
<1>7. CASE UNCHANGED vars
  <2>1. /\ held' = held /\ depth' = depth /\ frame' = frame /\ allocator_map' = allocator_map
        /\ allocations' = allocations /\ node' = node /\ pos' = pos
    BY <1>7, MemSame DEF vars, memory, ledger
  <2> QED BY <2>1 DEF CountInv, Counted, AheadOfWalk, Initing, Freeing, Holders, Call1
<1> QED BY <1>1, <1>2, <1>4, <1>5, <1>6, <1>7, NextIs

(* Between calls allocations counts the allocator's page and one extent    *)
(* for each that is held: kfree finds the block of every extent given up,  *)
(* and kfree(NULL) finds none.                                             *)
THEOREM Accounted ==
  ASSUME Reserved = {}, FreeDiscipline # "any"
  PROVE  Spec /\ [](depth <= 1) => []AccountedAllocations
<1>1. Init => AlignInv /\ CountInv
  BY AlignInit, CountInit
<1>2. IInv /\ IInv' /\ AlignInv /\ CountInv /\ [Next]_vars => AlignInv' /\ CountInv'
  BY AlignStep, CountStep
<1>3. IInv /\ CountInv => AccountedAllocations
  <2> SUFFICES ASSUME IInv, CountInv, depth = 0, allocator_map # NULL
               PROVE  allocations = 1 + Cardinality(Holders)
    BY DEF AccountedAllocations, Holders
  <2> QED BY FewHolders DEF CountInv, Counted, Initing, Freeing
<1> QED BY <1>1, <1>2, <1>3, Holds, PTL DEF Spec

-----------------------------------------------------------------------------
(* ksmalloc gives up only when no free block fits, at any offset in it.    *)

NoPlace(b) ==
  \A p \in pos[b] .. pos[b] + node[b].size - Call1.nbytes :
    Call1.align # 0 /\ p % Call1.align # 0

PassedInv ==
  depth = 1 /\ Call1.pc \in {"scan", "test"} =>
    /\ Call1.crt_block = NULL => Call1.block_start = Total
    /\ \A b \in Uint32 :
         pos[b] # Off /\ pos[b] < Call1.block_start /\ node[b].used = 0 => NoPlace(b)

(* OffsetRequired is the least offset that aligns.                         *)
LEMMA NoneBefore ==
  ASSUME NEW a \in Nat, NEW s \in Nat, NEW p \in Nat,
         s <= p, p < s + OffsetRequired(a, s)
  PROVE  a # 0 /\ p % a # 0
<1>1. a # 0 /\ s % a # 0
  BY DEF OffsetRequired
<1>2. OffsetRequired(a, s) = a - (s % a)
  BY <1>1 DEF OffsetRequired
<1> DEFINE q == s \div a
           r == s % a
<1>3. s = a * q + r /\ q \in Nat /\ r \in 1 .. a - 1
  BY <1>1
<1>4. p - s + r \in 1 .. a - 1 /\ p = a * q + (p - s + r)
  <2>1. p < s + (a - r)
    BY <1>2
  <2>2. a * q \in Nat
    BY <1>3
  <2> HIDE DEF q, r
  <2> QED BY <1>3, <2>1, <2>2
<1> HIDE DEF q, r
<1>5. ASSUME NEW x \in 1 .. a - 1 PROVE (a * q + x) % a = x
  BY <1>1, <1>3
<1> QED BY <1>1, <1>4, <1>5

LEMMA PassedStep ==
  ASSUME Reserved = {}, IInv, IInv', PassedInv, [Next]_vars
  PROVE  PassedInv'
<1>1. CASE InitKallocator
  <2>1. /\ depth = 0 /\ MemStart \in Uint32
        /\ pos' = [pos EXCEPT ![MemStart] = 0] /\ \A b \in Uint32 : pos[b] = Off
        /\ Push([Request("init", 0, PageSize, 0, 3) EXCEPT !.crt_block = MemStart])
    BY <1>1, ConstType DEF InitKallocator, IInv, Layout
  <2>2. depth' = 1 /\ Call1' = [Request("init", 0, PageSize, 0, 3) EXCEPT !.crt_block = MemStart]
    BY <2>1, FirstFrame DEF IInv
  <2>3. Call1'.crt_block # NULL /\ Call1'.block_start = 0
    BY <2>2, KallocAssumption DEF Request, NoFrame, NULL
  <2>4. \A b \in Uint32 : pos'[b] = Off \/ pos'[b] = 0
    BY <2>1, VarTypes DEF IInv
  <2> QED BY <2>3, <2>4 DEF PassedInv
<1>2. ASSUME NEW n \in Sizes, NEW a \in Aligns, Kamalloc(n, a)
      PROVE  PassedInv'
  <2>1. /\ depth = 0 /\ UNCHANGED memory /\ allocator_map # NULL
        /\ \E i \in Ids : Push(Request("client", i, n, a, 1))
    BY <1>2 DEF Kamalloc, Call, Booted
  <2>2. PICK i \in Ids : Push(Request("client", i, n, a, 1))
    BY <2>1
  <2>3. depth' = 1 /\ Call1' = Request("client", i, n, a, 1)
    BY <2>1, <2>2, FirstFrame DEF IInv
  <2>4. Call1'.crt_block # NULL /\ Call1'.block_start = 0
    BY <2>1, <2>3 DEF Request, NoFrame
  <2>5. \A b \in Uint32 : pos'[b] \in Nat \cup {Off}
    BY <2>1, MemSame, VarTypes DEF IInv, Uint32
  <2> QED BY <2>4, <2>5 DEF PassedInv
<1>3. ASSUME NEW ptr, Kfree(ptr)
      PROVE  PassedInv'
  <2>1. depth = 0 /\ Push([Request("client", 0, 0, 0, 0) EXCEPT
             !.pc = "find", !.target = Minus(ptr, MemStart)])
    BY <1>3 DEF Kfree
  <2>2. depth' = 1 /\ Call1' = [Request("client", 0, 0, 0, 0) EXCEPT
             !.pc = "find", !.target = Minus(ptr, MemStart)]
    BY <2>1, FirstFrame DEF IInv
  <2>3. Call1'.pc = "find"
    BY <2>2 DEF Request, NoFrame
  <2> QED BY <2>3 DEF PassedInv
<1>4. CASE Run /\ depth = 1 /\ depth' \in {0, 1}
  <2>0. Call1 \in Frames
    BY <1>4, OneRuns
  <2>1. CASE Occupied \/ FirstFree
    <3>1. /\ SameRequest /\ node' = node /\ pos' = pos /\ Call1.pc = "scan"
          /\ Call1'.crt_block = Call1.crt_block /\ Call1'.block_start = Call1.block_start
      BY <1>4, <2>1, SearchShape
    <3> QED BY <1>4, <3>1 DEF PassedInv, NoPlace, SameRequest
  <2>2. CASE PassOver
    <3> DEFINE crt == Call1.crt_block
    <3>1. /\ SameRequest /\ node' = node /\ pos' = pos /\ Call1.pc = "test"
      <4>1. ~ Occupied /\ ~ FirstFree
        BY <1>4, <2>2, OneFrame DEF IInv, Occupied, FirstFree, PassOver
      <4> QED BY <1>4, <2>2, <4>1, SearchShape
    <3>2. /\ Advance("scan") /\ crt # NULL
          /\ ~ Fits(node[crt], Call1.block_start, Call1.nbytes, Call1.align)
      BY <1>4, <2>2, <3>1, OneFrame DEF IInv, PassOver, Locals, Walking
    <3>3. /\ crt \in Uint32 /\ pos[crt] = Call1.block_start /\ pos[crt] # Off
          /\ Call1'.crt_block = node[crt].next
          /\ Call1'.block_start = pos[crt] + node[crt].size
          /\ node[crt].next = NULL => pos[crt] + node[crt].size = Total
          /\ \A b \in Uint32 \ {crt} : pos[b] # Off /\ pos[b] >= pos[crt] =>
               pos[b] >= pos[crt] + node[crt].size
          /\ pos[crt] \in Nat /\ node[crt].size \in Nat
      BY <1>4, <3>1, <3>2, WalkOn
    <3> HIDE DEF crt
    <3>4. ASSUME node[crt].used = 0
          PROVE  NoPlace(crt)
      <4> DEFINE s == Call1.block_start
                 off == OffsetRequired(Call1.align, s)
      <4>1. Call1.nbytes \in Nat /\ Call1.align \in Nat /\ s \in Nat
        BY <2>0 DEF Frames, Uint32
      <4>2. off \in 0 .. Call1.align /\ Call1.nbytes + Call1.align < Word
        BY <1>4, <3>1, <4>1, NoOffsetAtStart DEF IInv, Locals, Asking
      <4>3. ~ (node[crt].size >= Plus(Call1.nbytes, off))
        BY <3>2, <3>4 DEF Fits
      <4> HIDE DEF off, s
      <4>4. node[crt].size < Call1.nbytes + off
        BY <3>3, <4>1, <4>2, <4>3, KallocAssumption DEF Plus
      <4>5. ASSUME NEW p \in pos[crt] .. pos[crt] + node[crt].size - Call1.nbytes
            PROVE  Call1.align # 0 /\ p % Call1.align # 0
        <5>1. pos[crt] = s
          BY <3>3 DEF s
        <5>2. p \in Nat /\ s <= p /\ p < s + off
          BY <3>3, <4>1, <4>2, <4>4, <5>1
        <5> QED BY <4>1, <5>2, NoneBefore DEF off
      <4> QED BY <4>5 DEF NoPlace
    <3>5. ASSUME NEW b \in Uint32, pos[b] # Off, pos[b] < Call1'.block_start,
                 node[b].used = 0
          PROVE  NoPlace(b)
      <4>1. CASE b = crt
        BY <3>4, <3>5, <4>1
      <4>2. CASE b # crt
        <5>1. pos[b] \in Nat
          BY <3>5, VarTypes DEF IInv, Uint32
        <5>2. pos[b] < Call1.block_start
          BY <3>3, <3>5, <4>2, <5>1
        <5> QED BY <1>4, <3>1, <3>5, <5>2 DEF PassedInv
      <4> QED BY <4>1, <4>2
    <3> QED BY <3>1, <3>3, <3>5 DEF PassedInv, NoPlace, SameRequest
  <2>3. CASE ~ (Occupied \/ FirstFree \/ PassOver)
    <3>1. depth' = 1 => Call1'.pc \notin {"scan", "test"}
      <4>1. CASE FindNext
        BY <1>4, <2>3, <4>1, SearchShape
      <4> QED BY <1>4, <2>3, <4>1, RunIs, CutShape, FreeShape, ReturnShape, ChooseShape, ClaimShape
    <3> QED BY <3>1 DEF PassedInv
  <2> QED BY <2>1, <2>2, <2>3
<1>5. CASE UNCHANGED vars
  <2>1. depth' = depth /\ frame' = frame /\ node' = node /\ pos' = pos
    BY <1>5, MemSame DEF vars
  <2> QED BY <2>1 DEF PassedInv, NoPlace, Call1
<1> QED BY <1>1, <1>2, <1>3, <1>4, <1>5, NextIs DEF FreeNull, Free

(* ksmalloc returns 0 only if no free block has room at an aligned offset, *)
(* where no walk has to merge free blocks on its way.                      *)
THEOREM Honest ==
  ASSUME Reserved = {}, FreeDiscipline # "any"
  PROVE  Spec /\ [](depth <= 1) => []HonestFailure
<1>1. Init => PassedInv
  BY DEF Init, PassedInv
<1>2. IInv /\ IInv' /\ PassedInv /\ [Next]_vars => PassedInv'
  BY PassedStep
<1>3. IInv /\ PassedInv => HonestFailure
  <2> SUFFICES ASSUME IInv, PassedInv, Failing PROVE HonestFailure
    BY DEF HonestFailure
  <2>1. depth = 1
    BY DEF IInv, Failing, At
  <2>2. Top = Call1 /\ Call1.pc = "scan" /\ Call1.crt_block = NULL
    BY <2>1, OneFrame DEF IInv, Failing
  <2>3. ASSUME NEW b \in Listed, node[b].used = 0
        PROVE  NoPlace(b)
    <3>1. b \in Uint32 /\ pos[b] # Off /\ ~ In(Special)
      BY <2>2 DEF Listed, In, Special
    <3>2. pos[b] \in Nat /\ node[b].size \in Nat /\ node[b].size > 0 /\ pos[b] + node[b].size <= Total
      BY <3>1, ListBlock
    <3>3. pos[b] < Total
      BY <3>2, KallocAssumption
    <3> QED BY <2>1, <2>2, <2>3, <3>1, <3>3 DEF PassedInv
  <2> QED BY <2>2, <2>3 DEF HonestFailure, NoPlace
<1> QED BY <1>1, <1>2, <1>3, Holds, PTL DEF Spec

-----------------------------------------------------------------------------
(* The spare structs S, each exactly once, along n from h.                 *)

Runs(S, n, h, k, c) ==
  /\ c \in [0 .. k -> Nat] /\ c[0] = h /\ c[k] = NULL
  /\ \A i \in 0 .. k - 1 : c[i] \in S /\ c[i + 1] = n[c[i]]
  /\ \A b \in S : \E i \in 0 .. k - 1 : c[i] = b
  /\ \A i, j \in 0 .. k - 1 : c[i] = c[j] => i = j

Linked(S, n, h) == \E k \in Nat : \E c : Runs(S, n, h, k, c)

LEMMA LinkedPop ==
  ASSUME NEW S, S \subseteq Nat \ {NULL}, NEW n, NEW h, Linked(S, n, h), h # NULL
  PROVE  Linked(S \ {h}, n, n[h])
<1>1. PICK k \in Nat : \E c : Runs(S, n, h, k, c)
  BY DEF Linked
<1>2. PICK c : Runs(S, n, h, k, c)
  BY <1>1
<1>3. k # 0
  BY <1>2 DEF Runs
<1> DEFINE d == [i \in 0 .. k - 1 |-> c[i + 1]]
           m == k - 1
<1>4. m \in Nat /\ d \in [0 .. m -> Nat] /\ d[0] = c[1] /\ d[m] = c[k]
  BY <1>2, <1>3 DEF Runs
<1>5. \A i \in 0 .. m - 1 : d[i] = c[i + 1] /\ d[i + 1] = c[i + 2]
                            /\ i + 1 \in 0 .. k - 1 /\ i + 1 # 0 /\ i + 2 = (i + 1) + 1
  BY <1>3
<1>6. c[0] = h /\ h \in S /\ c[1] = n[h] /\ 0 \in 0 .. k - 1
  BY <1>2, <1>3 DEF Runs
<1>7. \A i \in 0 .. m - 1 : d[i] \in S \ {h} /\ d[i + 1] = n[d[i]]
  BY <1>2, <1>5, <1>6, SMTT(40) DEF Runs
<1>8. ASSUME NEW b \in S \ {h} PROVE \E i \in 0 .. m - 1 : d[i] = b
  <2>1. PICK i \in 0 .. k - 1 : c[i] = b
    BY <1>2 DEF Runs
  <2>2. i # 0
    BY <1>6, <2>1
  <2>3. i - 1 \in 0 .. m - 1
    BY <2>2
  <2>4. d[i - 1] = b
    BY <1>5, <2>1, <2>3
  <2> QED BY <2>3, <2>4
<1>9. \A i, j \in 0 .. m - 1 : d[i] = d[j] => i = j
  BY <1>2, <1>5 DEF Runs
<1> HIDE DEF d, m
<1>10. Runs(S \ {h}, n, n[h], m, d)
  BY <1>2, <1>4, <1>6, <1>7, <1>8, <1>9 DEF Runs
<1> QED BY <1>4, <1>10 DEF Linked

LEMMA LinkedPush ==
  ASSUME NEW S, S \subseteq Nat \ {NULL}, NEW n, NEW h, Linked(S, n, h),
         NEW x \in Nat \ {NULL}, x \notin S, NEW n2, n2[x] = h, \A b \in S : n2[b] = n[b]
  PROVE  Linked(S \cup {x}, n2, x)
<1>1. PICK k \in Nat : \E c : Runs(S, n, h, k, c)
  BY DEF Linked
<1>2. PICK c : Runs(S, n, h, k, c)
  BY <1>1
<1> DEFINE d == [i \in 0 .. k + 1 |-> IF i = 0 THEN x ELSE c[i - 1]]
           m == k + 1
<1>3. /\ m \in Nat /\ d \in [0 .. m -> Nat] /\ d[0] = x /\ d[m] = c[k]
      /\ d[1] = h
  BY <1>2 DEF Runs
<1>4. \A i \in 0 .. m - 1 : i # 0 => d[i] = c[i - 1] /\ d[i + 1] = c[(i - 1) + 1]
                                     /\ i - 1 \in 0 .. k - 1
  OBVIOUS
<1>5. \A i \in 0 .. m - 1 : d[i] \in S \cup {x} /\ d[i + 1] = n2[d[i]]
  <2> HIDE DEF d, m
  <2>1. m - 1 = k
    BY DEF m
  <2>2. ASSUME NEW i \in 0 .. m - 1, i # 0
        PROVE  d[i] \in S /\ d[i + 1] = n[d[i]]
    BY <1>2, <1>4, <2>2 DEF Runs
  <2>3. d[0] = x /\ d[0 + 1] = n2[x]
    BY <1>3
  <2> QED BY <2>2, <2>3
<1>6. ASSUME NEW b \in S \cup {x} PROVE \E i \in 0 .. m - 1 : d[i] = b
  <2>1. CASE b = x
    BY <1>3, <2>1
  <2>2. CASE b # x
    <3>1. PICK i \in 0 .. k - 1 : c[i] = b
      BY <1>2, <2>2 DEF Runs
    <3>2. i + 1 \in 0 .. m - 1 /\ i + 1 # 0 /\ (i + 1) - 1 = i
      OBVIOUS
    <3>3. d[i + 1] = b
      BY <1>4, <3>1, <3>2
    <3> QED BY <3>2, <3>3
  <2> QED BY <2>1, <2>2
<1>7. ASSUME NEW i \in 0 .. m - 1, NEW j \in 0 .. m - 1, d[i] = d[j]
      PROVE  i = j
  <2>1. \A l \in 0 .. m - 1 : l # 0 => d[l] \in S
    BY <1>2, <1>4 DEF Runs
  <2>2. CASE i = 0 \/ j = 0
    BY <1>3, <1>7, <2>1, <2>2
  <2>3. CASE i # 0 /\ j # 0
    <3>1. c[i - 1] = c[j - 1] /\ i - 1 \in 0 .. k - 1 /\ j - 1 \in 0 .. k - 1
      BY <1>4, <1>7, <2>3
    <3>2. i - 1 = j - 1
      BY <1>2, <3>1 DEF Runs
    <3> QED BY <3>2
  <2> QED BY <2>2, <2>3
<1> HIDE DEF d, m
<1>8. Runs(S \cup {x}, n2, x, m, d)
  BY <1>2, <1>3, <1>5, <1>6, <1>7 DEF Runs
<1> QED BY <1>3, <1>8 DEF Linked

LEMMA LinkedSame ==
  ASSUME NEW S, NEW n, NEW h, Linked(S, n, h), NEW n2, \A b \in S : n2[b] = n[b]
  PROVE  Linked(S, n2, h)
<1>1. ASSUME NEW k \in Nat, NEW c, Runs(S, n, h, k, c)
      PROVE  Runs(S, n2, h, k, c)
  BY <1>1 DEF Runs
<1> QED BY <1>1 DEF Linked

(* The structs taken from the table that are not in use are on the chain.  *)
AllSpare == Linked(SpareSet, Link, free_blocks)

LEMMA SpareAddress ==
  /\ SpareSet \subseteq Nat \ {NULL} /\ SpareSet \subseteq Uint32
  /\ \A b \in Uint32 : Link[b] = node[b].next
  /\ \A b : b \in SpareSet <=> b \in Uint32 /\ MemStart <= b /\ b < next_memblock_addr
                                /\ pos[b] = Off /\ ~ (In({"insert"}) /\ b = Call1.newblock)
  BY KallocAssumption DEF SpareSet, Spare, InTable, NULL, Uint32, Link

(* A step that neither takes nor gives back a struct.                      *)
LEMMA SpareSame ==
  ASSUME IInv, AllSpare, free_blocks' = free_blocks, SpareSet' = SpareSet,
         \A b \in SpareSet : node'[b].next = node[b].next
  PROVE  AllSpare'
<1>1. \A b \in SpareSet : Link'[b] = Link[b]
  BY SpareAddress DEF Link
<1> QED BY <1>1, LinkedSame DEF AllSpare

LEMMA SpareStill ==
  ASSUME IInv, AllSpare, free_blocks' = free_blocks, pos' = pos, node' = node,
         next_memblock_addr' = next_memblock_addr, ~ In({"insert"}), ~ In({"insert"})'
  PROVE  AllSpare'
<1>1. SpareSet' = SpareSet
  BY DEF SpareSet, Spare, InTable
<1> QED BY <1>1, SpareSame

LEMMA TakeFreeSpare ==
  ASSUME IInv, depth = 1, AllSpare, TakeFree
  PROVE  AllSpare'
<1> DEFINE f == [Call1 EXCEPT !.pc = "insert", !.newblock = free_blocks]
<1>1. /\ Call1.pc = "cut" /\ free_blocks # NULL /\ free_blocks' = node[free_blocks].next
      /\ Continue(f) /\ node' = node /\ pos' = pos
      /\ Call1 \in Frames /\ next_memblock_addr' = next_memblock_addr
  BY OneFrame, MemSame DEF IInv, TakeFree, NextSpare, bump
<1>2. f.pc = "insert" /\ f.newblock = free_blocks
  BY <1>1 DEF Frames
<1> HIDE DEF f
<1>3. depth' = 1 /\ Call1' = f
  BY <1>1, OneFrame DEF IInv
<1>4. ~ In({"insert"}) /\ In({"insert"})' /\ Call1'.newblock = free_blocks
  BY <1>1, <1>2, <1>3 DEF In
<1>5. SpareSet' = SpareSet \ {free_blocks}
  BY <1>1, <1>4 DEF SpareSet, Spare, InTable
<1>6. Linked(SpareSet \ {free_blocks}, Link, Link[free_blocks])
  BY <1>1, SpareAddress, LinkedPop DEF AllSpare
<1>7. Link' = Link /\ Link[free_blocks] = node[free_blocks].next
  BY <1>1, VarTypes DEF Link, IInv
<1> QED BY <1>1, <1>5, <1>6, <1>7 DEF AllSpare

LEMMA CarveSpare ==
  ASSUME IInv, depth = 1, AllSpare, Carve
  PROVE  AllSpare'
<1> DEFINE f == [Call1 EXCEPT !.pc = "insert", !.newblock = next_memblock_addr]
<1>1. /\ Call1.pc = "cut" /\ free_blocks' = free_blocks
      /\ Continue(f) /\ node' = node /\ pos' = pos /\ ~ TableFull
      /\ Call1 \in Frames /\ next_memblock_addr' = Plus(next_memblock_addr, 1)
  BY OneFrame DEF IInv, Carve, Locals, Kind
<1>2. f.pc = "insert" /\ f.newblock = next_memblock_addr
  BY <1>1 DEF Frames
<1> HIDE DEF f
<1>3. depth' = 1 /\ Call1' = f
  BY <1>1, OneFrame DEF IInv
<1>4. ~ In({"insert"}) /\ In({"insert"})' /\ Call1'.newblock = next_memblock_addr
  BY <1>1, <1>2, <1>3 DEF In
<1>5. next_memblock_addr' = next_memblock_addr + 1 /\ next_memblock_addr \in Nat
  <2>1. next_memblock_addr = MemStart + page_depletion /\ page_depletion \in 0 .. MEMBLOCKS_PER_PAGE
    BY Ready, VarTypes DEF IInv
  <2> QED BY <1>1, <2>1, KallocAssumption DEF Plus
<1>6. SpareSet' = SpareSet
  <2>1. \A b \in Uint32 : b < next_memblock_addr' /\ b # next_memblock_addr <=> b < next_memblock_addr
    BY <1>5 DEF Uint32
  <2> QED BY <1>1, <1>4, <2>1 DEF SpareSet, Spare, InTable
<1> QED BY <1>1, <1>6, SpareSame

LEMMA InsertSpare ==
  ASSUME IInv, depth = 1, AllSpare, InsertRight \/ InsertLeft
  PROVE  AllSpare'
<1> DEFINE crt  == Call1.crt_block
           new  == Call1.newblock
           prev == Call1.prev_block
<1>1. /\ Call1 \in Frames /\ Call1.pc = "insert" /\ free_blocks' = free_blocks
      /\ next_memblock_addr' = next_memblock_addr
      /\ Top = Call1 /\ \A f : Continue(f) => depth' = 1 /\ Call1' = f
  BY OneFrame, MemSame DEF IInv, InsertRight, InsertLeft, bump
<1>2. /\ crt \in Uint32 /\ new \in Uint32 /\ prev \in Uint32
      /\ node \in [Uint32 -> Blocks] /\ pos \in [Uint32 -> Uint32 \cup {Off}]
      /\ pos[crt] # Off /\ pos[crt] \in Uint32 /\ pos[new] = Off /\ new # crt
      /\ Call1.left \in Uint32 /\ Call1.keep \in Uint32
  <2>1. /\ crt \in Uint32 /\ new \in Uint32 /\ prev \in Uint32
        /\ node \in [Uint32 -> Blocks] /\ pos \in [Uint32 -> Uint32 \cup {Off}]
        /\ pos[crt] # Off /\ pos[new] = Off /\ new # crt
    BY <1>1, InsertBlocks
  <2> QED BY <1>1, <2>1 DEF Frames
<1>3. \A x \in Uint32 : x # Off
  BY DEF Uint32, Off
<1> HIDE DEF crt, new, prev
<1>4. In({"insert"}) /\ Call1.newblock = new
  BY <1>1 DEF In, new
<1>5. CASE InsertRight
  <2>1. /\ node' = [node EXCEPT
             ![new] = [size |-> Call1.right, used |-> 0, next |-> node[crt].next],
             ![crt].next = new]
        /\ pos' = [pos EXCEPT ![new] = Plus(Plus(pos[crt], Call1.left), Call1.keep)]
        /\ Continue([Call1 EXCEPT !.pc = "cut", !.right = 0])
    BY <1>1, <1>5, OneFrame DEF IInv, InsertRight, crt, new
  <2>2. Call1' = [Call1 EXCEPT !.pc = "cut", !.right = 0]
    BY <1>1, <2>1
  <2>3. ~ In({"insert"})'
    BY <1>1, <2>2 DEF In, Frames
  <2>4. Plus(Plus(pos[crt], Call1.left), Call1.keep) # Off
    BY <1>2, <1>3, ArithType
  <2>5. SpareSet' = SpareSet
    BY <1>1, <1>2, <1>4, <2>1, <2>3, <2>4 DEF SpareSet, Spare, InTable
  <2>6. \A b \in SpareSet : node'[b].next = node[b].next
    BY <1>2, <1>4, <2>1, SpareAddress
  <2> QED BY <1>1, <2>5, <2>6, SpareSame
<1>6. CASE InsertLeft
  <2>1. /\ node' = [node EXCEPT
             ![new] = [size |-> Call1.left, used |-> 0, next |-> crt],
             ![prev].next = new]
        /\ pos' = [pos EXCEPT ![new] = pos[crt], ![crt] = Plus(pos[crt], Call1.left)]
        /\ Call1.right = 0
        /\ Continue([Call1 EXCEPT !.pc = "cut", !.left = 0])
    BY <1>1, <1>6, OneFrame DEF IInv, InsertLeft, crt, new, prev
  <2>2. Call1' = [Call1 EXCEPT !.pc = "cut", !.left = 0]
    BY <1>1, <2>1
  <2>3. ~ In({"insert"})'
    BY <1>1, <2>2 DEF In, Frames
  <2>4. Plus(pos[crt], Call1.left) # Off
    BY <1>2, <1>3, ArithType
  <2>5. SpareSet' = SpareSet
    BY <1>1, <1>2, <1>4, <2>1, <2>3, <2>4 DEF SpareSet, Spare, InTable
  <2>6. pos[prev] # Off
    BY <1>1, <2>1 DEF IInv, Locals, Cutting, prev
  <2>7. \A b \in SpareSet : node'[b].next = node[b].next
    BY <1>2, <1>4, <2>1, <2>6, SpareAddress
  <2> QED BY <1>1, <2>5, <2>7, SpareSame
<1> QED BY <1>5, <1>6

LEMMA MergeSpare ==
  ASSUME IInv, depth = 1, AllSpare, Merge
  PROVE  AllSpare'
<1> DEFINE crt == Call1.crt_block
           nxt == Call1.nextblk
<1>1. /\ Call1.pc = "merge" /\ nxt # NULL
      /\ node' = [node EXCEPT ![crt].size = Plus(@, node[nxt].size),
                              ![nxt].next = free_blocks]
      /\ free_blocks' = nxt /\ pos' = [pos EXCEPT ![nxt] = Off]
      /\ next_memblock_addr' = next_memblock_addr
  BY OneFrame, MemSame DEF IInv, Merge, MergeEnds, bump
<1>2. /\ crt \in Uint32 /\ nxt \in Uint32 /\ Aft[crt] = nxt
      /\ node \in [Uint32 -> Blocks] /\ pos[crt] # Off /\ ~ In({"insert"})
      /\ pos \in [Uint32 -> Uint32 \cup {Off}] /\ Views
  BY <1>1, MergeBlocks, VarTypes DEF IInv
<1>3. depth' = 1 /\ Call1'.pc = "merge"
  BY FreeShape
<1>4. ~ In({"insert"})'
  BY <1>3 DEF In
<1>5. pos[nxt] # Off /\ nxt # crt
  BY <1>1, <1>2, OneBlockAt DEF IInv, Tiling, Views
<1>6. InTable(nxt)
  BY <1>2, <1>5, TiledOne DEF IInv, Tiling, InTable
<1> HIDE DEF crt, nxt
<1>7. SpareSet' = SpareSet \cup {nxt} /\ nxt \notin SpareSet
  BY <1>1, <1>2, <1>4, <1>5, <1>6 DEF SpareSet, Spare, InTable
<1>8. Link'[nxt] = free_blocks /\ \A b \in SpareSet : Link'[b] = Link[b]
  BY <1>1, <1>2, <1>5, <1>7, SpareAddress DEF Link
<1>9. nxt \in Nat \ {NULL}
  BY <1>1, <1>2 DEF Uint32, nxt
<1> QED BY <1>1, <1>7, <1>8, <1>9, SpareAddress, LinkedPush DEF AllSpare

LEMMA ClaimSpare ==
  ASSUME IInv, depth = 1, AllSpare, Claim
  PROVE  AllSpare'
<1>1. /\ Call1.pc = "cut" /\ pos[Call1.crt_block] # Off
      /\ \A b \in Uint32 : InTable(b) /\ b # Call1.crt_block => node'[b] = node[b]
  BY ClaimNode
<1>2. depth' = 0
  BY ClaimShape
<1>3. /\ pos' = pos /\ free_blocks' = free_blocks
  BY DEF Claim
<1>4. next_memblock_addr' = next_memblock_addr
  <2>1. Top = Call1 /\ Kind
    BY OneFrame DEF IInv, Locals
  <2>2. UNCHANGED bump
    BY <2>1 DEF Claim, Return, Kind
  <2> QED BY <2>2 DEF bump
<1>5. ~ In({"insert"}) /\ ~ In({"insert"})'
  BY <1>1, <1>2 DEF In
<1>6. SpareSet' = SpareSet
  BY <1>3, <1>4, <1>5 DEF SpareSet, Spare, InTable
<1>7. \A b \in SpareSet : node'[b].next = node[b].next
  BY <1>1 DEF SpareSet, Spare
<1> QED BY <1>3, <1>6, <1>7, SpareSame

LEMMA FreeSpare ==
  ASSUME IInv, depth = 1, AllSpare, FreeFound \/ FreeDone
  PROVE  AllSpare'
<1> DEFINE crt == Call1.crt_block
<1>1. /\ pos' = pos /\ free_blocks' = free_blocks /\ next_memblock_addr' = next_memblock_addr
      /\ Call1.pc \in {"find", "merge"}
  BY OneFrame DEF IInv, FreeFound, FreeDone, bump
<1>2. ~ In({"insert"}) /\ ~ In({"insert"})'
  <2>1. depth' = 0 \/ Call1'.pc = "merge"
    BY FreeShape, ReturnShape
  <2> QED BY <1>1, <2>1 DEF In
<1>3. SpareSet' = SpareSet
  BY <1>1, <1>2 DEF SpareSet, Spare, InTable
<1>4. \/ node' = [node EXCEPT ![crt].used = 0]
      \/ node' = [node EXCEPT ![crt].next = Call1.nextblk] /\ Call1.pc = "merge"
  BY OneFrame DEF IInv, FreeFound, FreeDone
<1>5. Call1.pc = "merge" => pos[crt] # Off
  BY DEF IInv, Locals, Merging
<1>6. node \in [Uint32 -> Blocks]
  BY VarTypes DEF IInv
<1> HIDE DEF crt
<1>7. ASSUME NEW b \in SpareSet PROVE node'[b].next = node[b].next
  <2>1. b \in Uint32 /\ pos[b] = Off /\ node[b] \in Blocks
    BY <1>6, SpareAddress
  <2>2. CASE node' = [node EXCEPT ![crt].used = 0]
    BY <1>6, <2>1, <2>2 DEF Blocks
  <2>3. CASE node' = [node EXCEPT ![crt].next = Call1.nextblk] /\ Call1.pc = "merge"
    BY <1>5, <1>6, <2>1, <2>3
  <2> QED BY <1>4, <2>2, <2>3
<1> QED BY <1>1, <1>3, <1>7, SpareSame

LEMMA SpareStep ==
  ASSUME Reserved = {}, IInv, IInv', AllSpare, [Next]_vars
  PROVE  AllSpare'
<1>1. CASE InitKallocator
  <2>1. /\ allocator_map = NULL /\ free_blocks' = NULL /\ next_memblock_addr' = MemStart + 1
        /\ pos' = [pos EXCEPT ![MemStart] = 0]
        /\ depth' = 1 /\ Call1' = [Request("init", 0, PageSize, 0, 3) EXCEPT !.crt_block = MemStart]
    BY <1>1, FirstFrame DEF InitKallocator, IInv, Layout
  <2>2. ~ In({"insert"})'
    BY <2>1 DEF In, Request, NoFrame
  <2>3. pos \in [Uint32 -> Uint32 \cup {Off}] /\ MemStart \in Uint32 /\ MemStart \in Nat
    BY ConstType, VarTypes, KallocAssumption DEF IInv
  <2>4. pos'[MemStart] # Off
    BY <2>1, <2>3 DEF Off
  <2>5. \A b \in Uint32 : MemStart <= b /\ b < MemStart + 1 => b = MemStart
    BY <2>3 DEF Uint32
  <2>6. SpareSet' = {}
    BY <2>1, <2>4, <2>5 DEF SpareSet, Spare, InTable
  <2> DEFINE c == [i \in 0 .. 0 |-> NULL]
  <2>7. Runs({}, Link', NULL, 0, c)
    BY DEF Runs, NULL
  <2> HIDE DEF c
  <2> QED BY <2>1, <2>6, <2>7 DEF AllSpare, Linked
<1>2. CASE \/ \E n \in Sizes, a \in Aligns : Kamalloc(n, a)
           \/ \E i \in Ids : Free(i)
           \/ FreeNull
  <2>1. depth = 0
    BY <1>2 DEF Kamalloc, Free, FreeNull, Kfree
  <2>2. /\ free_blocks' = free_blocks /\ pos' = pos /\ node' = node
        /\ next_memblock_addr' = next_memblock_addr
    BY <1>2, MemSame DEF Kamalloc, Call, Free, FreeNull, Kfree, bump
  <2>3. Call1'.pc \in {"scan", "find"}
    <3>1. ASSUME NEW i, NEW n, NEW a, Push(Request("client", i, n, a, 1))
          PROVE  Call1'.pc = "scan"
      <4>1. Call1' = Request("client", i, n, a, 1)
        BY <2>1, <3>1, FirstFrame DEF IInv
      <4> QED BY <4>1 DEF Request, NoFrame
    <3>2. ASSUME NEW ptr, Kfree(ptr)
          PROVE  Call1'.pc = "find"
      <4>1. Call1' = [Request("client", 0, 0, 0, 0) EXCEPT
                        !.pc = "find", !.target = Minus(ptr, MemStart)]
        BY <2>1, <3>2, FirstFrame DEF IInv, Kfree
      <4> QED BY <4>1 DEF Request, NoFrame
    <3> QED BY <1>2, <3>1, <3>2 DEF Kamalloc, Call, Free, FreeNull
  <2>4. ~ In({"insert"}) /\ ~ In({"insert"})'
    BY <2>1, <2>3 DEF In
  <2> QED BY <2>2, <2>4, SpareStill
<1>3. CASE Run /\ depth = 1 /\ depth' \in {0, 1}
  <2>1. CASE Occupied \/ FirstFree \/ PassOver \/ FindNext \/ Choose \/ OutOfMemory \/ FindMiss
    <3>1. UNCHANGED memory \/ OutOfMemory
      BY <2>1 DEF Occupied, FirstFree, PassOver, FindNext, Choose, FindMiss
    <3>2. /\ free_blocks' = free_blocks /\ pos' = pos /\ node' = node
          /\ next_memblock_addr' = next_memblock_addr
      <4>1. CASE OutOfMemory
        <5>1. Call1.pc = "scan" /\ Call1.crt_block = NULL /\ Return(NULL) /\ Top = Call1
          BY <1>3, <4>1, OneFrame DEF IInv, OutOfMemory
        <5>2. Call1.ret = "client"
          BY <1>3, <4>1, ReturnShape
        <5>3. UNCHANGED bump
          BY <5>1, <5>2 DEF Return
        <5> QED BY <4>1, <5>3 DEF OutOfMemory, bump
      <4> QED BY <3>1, <4>1, MemSame
    <3>3. ~ In({"insert"}) /\ ~ In({"insert"})'
      BY <1>3, <2>1, SearchShape, ChooseShape, ReturnShape DEF In
    <3> QED BY <3>2, <3>3, SpareStill
  <2>2. CASE ~ (Occupied \/ FirstFree \/ PassOver \/ FindNext \/ Choose \/ OutOfMemory \/ FindMiss)
    BY <1>3, <2>2, RunIs, TakeFreeSpare, CarveSpare, InsertSpare, MergeSpare, ClaimSpare, FreeSpare
  <2> QED BY <2>1, <2>2
<1>4. CASE UNCHANGED vars
  <2>1. /\ free_blocks' = free_blocks /\ pos' = pos /\ node' = node /\ depth' = depth /\ frame' = frame
        /\ next_memblock_addr' = next_memblock_addr
    BY <1>4, MemSame DEF vars
  <2>2. SpareSet' = SpareSet
    BY <2>1 DEF SpareSet, Spare, InTable, In, Call1
  <2> QED BY <2>1, <2>2, SpareSame
<1> QED BY <1>1, <1>2, <1>3, <1>4, NextIs

LEMMA SpareInit ==
  ASSUME Reserved = {}, Init PROVE AllSpare
<1>1. \A b \in Uint32 : ~ InTable(b)
  BY KallocAssumption DEF Init, InTable, Uint32, NULL
<1>2. SpareSet = {} /\ free_blocks = NULL
  BY <1>1 DEF Init, SpareSet, Spare
<1> DEFINE c == [i \in 0 .. 0 |-> NULL]
<1>3. Runs({}, Link, NULL, 0, c)
  BY DEF Runs, NULL
<1> HIDE DEF c
<1> QED BY <1>2, <1>3 DEF AllSpare, Linked

-----------------------------------------------------------------------------
(* From the chain to the link function of FreeChain.                       *)

LinkStep == [i \in Nat |-> [b \in Uint32 |->
               IF b = NULL THEN free_blocks ELSE node[b].next]]

LEMMA LinkIs ==
  ASSUME TypeInv, NEW link,
         link = CHOOSE f : f = [n \in Nat |-> IF n = 0 \/ f[n - 1] = NULL THEN free_blocks
                                              ELSE node[f[n - 1]].next]
  PROVE  /\ link[0] = free_blocks
         /\ \A n \in Nat : link[n] # NULL => link[n + 1] = node[link[n]].next
<1>1. free_blocks \in Uint32 /\ LinkStep \in [Nat -> [Uint32 -> Uint32]]
  BY VarTypes DEF LinkStep, Blocks
<1>2. PICK f : /\ f \in [Nat -> Uint32] /\ f[0] = free_blocks
               /\ \A n \in Nat : f[n + 1] = LinkStep[n][f[n]]
  <2>1. IsStep(Uint32, LinkStep)
    BY <1>1 DEF IsStep
  <2>2. \E f : Iterates(Uint32, free_blocks, LinkStep, f)
    BY <1>1, <2>1, IterationExists
  <2> QED BY <2>2 DEF Iterates
<1>3. ASSUME NEW n \in Nat
      PROVE  f[n] = IF n = 0 \/ f[n - 1] = NULL THEN free_blocks ELSE node[f[n - 1]].next
  <2>1. CASE n = 0
    BY <1>2, <2>1
  <2>2. CASE n # 0
    <3>1. n - 1 \in Nat /\ (n - 1) + 1 = n
      BY <2>2
    <3>2. f[n] = LinkStep[n - 1][f[n - 1]] /\ f[n - 1] \in Uint32
      BY <1>2, <3>1
    <3> QED BY <2>2, <3>1, <3>2 DEF LinkStep
  <2> QED BY <2>1, <2>2
<1>4. f = [n \in Nat |-> IF n = 0 \/ f[n - 1] = NULL THEN free_blocks ELSE node[f[n - 1]].next]
  BY <1>2, <1>3
<1>5. link = [n \in Nat |-> IF n = 0 \/ link[n - 1] = NULL THEN free_blocks
                            ELSE node[link[n - 1]].next]
  BY <1>4, Zenon
<1>6. link[0] = free_blocks
  BY <1>5
<1>7. ASSUME NEW n \in Nat, link[n] # NULL PROVE link[n + 1] = node[link[n]].next
  <2>1. n + 1 \in Nat /\ (n + 1) - 1 = n /\ n + 1 # 0
    OBVIOUS
  <2> QED BY <1>5, <1>7, <2>1
<1> QED BY <1>6, <1>7

(* A chain of k different structs is what link goes through.               *)
Follows(S, n, h, link) ==
  link[0] = h /\ \A i \in Nat : link[i] \in S => link[i + 1] = n[link[i]]

Agree(k, f, g) == \A i \in 0 .. k : f[i] = g[i]

LEMMA ChainIsLink ==
  ASSUME NEW S, S \subseteq Nat \ {NULL}, NEW n, NEW h, NEW k \in Nat, NEW c, Runs(S, n, h, k, c),
         NEW link, Follows(S, n, h, link)
  PROVE  Cardinality(S) = k /\ Agree(k, link, c)
<1>0. link[0] = h /\ \A i \in Nat : link[i] \in S => link[i + 1] = n[link[i]]
  BY DEF Follows
<1>1. \A i \in 0 .. k : link[i] = c[i]
  <2> DEFINE T == {i \in Nat : i <= k => link[i] = c[i]}
  <2>1. 0 \in T
    BY <1>0 DEF Runs
  <2>2. ASSUME NEW i \in Nat, i \in T PROVE i + 1 \in T
    <3> SUFFICES ASSUME i + 1 <= k PROVE link[i + 1] = c[i + 1]
      OBVIOUS
    <3>1. i \in 0 .. k - 1 /\ link[i] = c[i]
      BY <2>2
    <3>2. c[i] \in S /\ c[i + 1] = n[c[i]]
      BY <3>1 DEF Runs
    <3> QED BY <1>0, <3>1, <3>2
  <2>3. Nat \subseteq T
    <3> HIDE DEF T
    <3> QED BY <2>1, <2>2, NatInd
  <2> QED BY <2>3
<1>3. Cardinality(S) = k
  <2> DEFINE f == [i \in 1 .. k |-> c[i - 1]]
  <2>1. \A i \in 1 .. k : i - 1 \in 0 .. k - 1 /\ f[i] = c[i - 1] /\ f[i] \in S
    BY DEF Runs
  <2>2. \A i, j \in 1 .. k : f[i] = f[j] => i = j
    BY <2>1 DEF Runs
  <2>3. ASSUME NEW b \in S PROVE \E i \in 1 .. k : f[i] = b
    <3>1. PICK i \in 0 .. k - 1 : c[i] = b
      BY DEF Runs
    <3>2. i + 1 \in 1 .. k /\ (i + 1) - 1 = i
      OBVIOUS
    <3> QED BY <2>1, <3>1, <3>2
  <2>4. f \in [1 .. k -> S]
    BY <2>1
  <2> HIDE DEF f
  <2>5. f \in Bijection(1 .. k, S)
    BY <2>2, <2>3, <2>4 DEF Bijection, Injection, Surjection, IsInjective
  <2>6. ExistsBijection(1 .. k, S)
    BY <2>5 DEF ExistsBijection
  <2>7. IsFiniteSet(1 .. k) /\ Cardinality(1 .. k) = k
    <3>1. 1 \in Int /\ k \in Int
      OBVIOUS
    <3>2. Cardinality(1 .. k) = IF 1 > k THEN 0 ELSE k - 1 + 1
      BY <3>1, FS_Interval
    <3> QED BY <3>1, <3>2, FS_Interval
  <2> QED BY <2>6, <2>7, FS_Bijection
<1> QED BY <1>1, <1>3 DEF Agree

LEMMA FreeChainFollows ==
  ASSUME IInv, AllSpare PROVE FreeChain
<1> SUFFICES ASSUME allocator_map # NULL PROVE FreeChain
  BY DEF FreeChain
<1> DEFINE taken  == MemStart .. next_memblock_addr - 1
           inhand == IF At("insert") THEN {Top.newblock} ELSE {}
           Sp     == {b \in taken : pos[b] = Off} \ inhand
           link[n \in Nat] == IF n = 0 \/ link[n - 1] = NULL THEN free_blocks
                              ELSE node[link[n - 1]].next
           k      == Cardinality(Sp)
<1>1. inhand = IF In({"insert"}) THEN {Call1.newblock} ELSE {}
  <2>1. CASE depth = 1
    BY <2>1, OneFrame DEF IInv, In
  <2>2. CASE depth # 1
    BY <2>2 DEF IInv, In, At
  <2> QED BY <2>1, <2>2
<1>2. next_memblock_addr \in Uint32 /\ MemStart \in Nat
  BY VarTypes, KallocAssumption DEF IInv
<1>3. \A b : b \in taken <=> b \in Uint32 /\ MemStart <= b /\ b < next_memblock_addr
  <2> HIDE DEF link
  <2> QED BY <1>2, KallocAssumption DEF Uint32
<1>4. Sp = SpareSet
  BY <1>1, <1>3, SpareAddress
<1>5. Listed \subseteq taken
  BY <1>3, TiledOne DEF IInv, Tiling, Listed
<1>6. inhand \subseteq taken /\ inhand \cap Listed = {}
  <2>1. CASE In({"insert"})
    <3>1. Cutting /\ Call1.pc = "insert" /\ Call1 \in Frames
      BY <2>1, OneFrame DEF In, IInv, Locals
    <3>2. InTable(Call1.newblock) /\ pos[Call1.newblock] = Off /\ Call1.newblock \in Uint32
      BY <3>1 DEF Cutting, Frames
    <3> QED BY <1>1, <1>3, <3>2 DEF InTable, Listed
  <2>2. CASE ~ In({"insert"})
    BY <1>1, <2>2
  <2> QED BY <2>1, <2>2
<1>7. /\ link[0] = free_blocks
      /\ \A n \in Nat : link[n] # NULL => link[n + 1] = node[link[n]].next
  BY LinkIs DEF IInv
<1>8. PICK m \in Nat : \E c : Runs(SpareSet, Link, free_blocks, m, c)
  BY DEF AllSpare, Linked
<1>9. PICK c : Runs(SpareSet, Link, free_blocks, m, c)
  BY <1>8
<1> HIDE DEF link
<1>10. Cardinality(SpareSet) = m /\ (\A i \in 0 .. m : link[i] = c[i])
       /\ \A b \in SpareSet : \E i \in 0 .. m - 1 : link[i] = b
  <2>1. SpareSet \subseteq Nat \ {NULL}
    BY SpareAddress
  <2>2. Follows(SpareSet, Link, free_blocks, link)
    BY <1>7, SpareAddress DEF Follows
  <2> HIDE DEF taken, inhand, k, Sp
  <2>3. Cardinality(SpareSet) = m /\ Agree(m, link, c)
    BY <1>9, <2>1, <2>2, ChainIsLink
  <2>4. \A i \in 0 .. m : link[i] = c[i]
    BY <2>3 DEF Agree
  <2>5. \A i \in 0 .. m - 1 : i \in 0 .. m
    OBVIOUS
  <2>6. \A b \in SpareSet : \E i \in 0 .. m - 1 : c[i] = b
    BY <1>9 DEF Runs
  <2>7. \A b \in SpareSet : \E i \in 0 .. m - 1 : link[i] = b
    BY <2>4, <2>5, <2>6, Zenon
  <2> QED BY <2>3, <2>4, <2>7
<1>11. (IF k = 0 THEN free_blocks ELSE node[link[k - 1]].next) = NULL
  <2>1. k = m
    BY <1>4, <1>10
  <2>2. CASE m = 0
    BY <1>9, <2>1, <2>2 DEF Runs
  <2>3. CASE m # 0
    <3>1. m - 1 \in 0 .. m - 1 /\ (m - 1) + 1 = m
      BY <2>3
    <3>2. c[m - 1] \in SpareSet /\ c[m] = Link[c[m - 1]] /\ c[m] = NULL
      BY <1>9, <3>1 DEF Runs
    <3>3. link[m - 1] = c[m - 1]
      BY <1>10, <3>1
    <3> QED BY <2>1, <2>3, <3>2, <3>3, SpareAddress
  <2> QED BY <2>2, <2>3
<1>12. {link[n] : n \in 0 .. k - 1} = Sp
  <2>1. k = m
    BY <1>4, <1>10
  <2>2. ASSUME NEW i \in 0 .. k - 1 PROVE link[i] \in Sp
    <3>1. link[i] = c[i] /\ c[i] \in SpareSet
      <4> HIDE DEF Sp, k, taken, inhand
      <4>1. i \in 0 .. m - 1 /\ i \in 0 .. m
        BY <2>1
      <4>2. c[i] \in SpareSet
        BY <1>9, <4>1 DEF Runs
      <4> QED BY <1>10, <4>1, <4>2
    <3> QED BY <1>4, <3>1
  <2>3. ASSUME NEW b \in Sp PROVE \E i \in 0 .. k - 1 : b = link[i]
    BY <1>4, <1>10, <2>1
  <2> HIDE DEF Sp, k
  <2> QED BY <2>2, <2>3, Zenon
<1> HIDE DEF taken, inhand, k
<1>13. Listed \cup inhand \subseteq taken
  BY <1>5, <1>6
<1> QED BY <1>6, <1>11, <1>12, <1>13, Zenon DEF FreeChain, link, taken, inhand, k

(* mkblock, cut_block and free_block neither leak a struct nor hand one    *)
(* out twice, as long as calls do not nest.                                *)
THEOREM NoStructLost ==
  ASSUME Reserved = {}, FreeDiscipline # "any"
  PROVE  Spec /\ [](depth <= 1) => []FreeChain
<1>1. Init => AllSpare
  BY SpareInit
<1>2. IInv /\ IInv' /\ AllSpare /\ [Next]_vars => AllSpare'
  BY SpareStep
<1>3. IInv /\ AllSpare => FreeChain
  BY FreeChainFollows
<1> QED BY <1>1, <1>2, <1>3, Holds, PTL DEF Spec

=============================================================================
