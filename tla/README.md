# A TLA+ model of WolfOS

WolfOS is a small 32-bit x86 kernel: one processor, one stack, no processes. The
hard parts are not in scheduling but in state that is shared between the line of
code that runs and the interrupt handlers, in lists threaded through raw memory,
in unsigned arithmetic, and in sequences of allocator calls that no test in the
repository drives. This directory holds modules for TLC and proofs for TLAPS
about them. All paths below are relative to the repository.

## 1. Inventory

| Part | Source | State | Operations | Hard behaviour | What makes it correct |
|---|---|---|---|---|---|
| Physical allocator | `mm/kalloc.c` | list of `struct memory_block` in the memory it manages, `free_blocks`, `next_memblock_addr`, `page_depletion`, counters | `init_kallocator`, `kmalloc`, `kamalloc`, `kfree`, `kmarkunusable` | re-entry by itself (`mkblock` calls `kmalloc`) and by interrupts; lazy merging during a walk; structs inside managed memory | grants are disjoint, aligned and inside the region; the list tiles the region; no struct is leaked or used twice; calls return |
| Memory manager | `mm/mem.c` | none of its own | `init_memory_manager` | 64-bit to 32-bit truncation; clipping of entries | the best region is chosen and what is not available is marked |
| Boot information | `boot/bootscheme.c` | `bootdata` | `init_boot` | walk over tags with sizes given by the loader | every tag is seen once, the walk ends |
| Interrupts, timer | `interrupts/idt.c`, `util/earlyutil.c` | `ticks`, PIC masks | `init_idt_and_keyboard`, three handlers, `wait` | handlers at any instruction; a wait that depends on them | every handled interrupt is acknowledged; `wait` ends, not too early |
| Console | `console/console.c` | list of entries, cursor, mode | `putchar`, `printf`, `redraw`, `switch_console`, `kswitch_graphics_driver` | handlers print into a print; scrolling copies, copying prints; unsigned cursor | no character is lost from the log; the cursor stays on the screen; the list is sound |
| ELF loader | `progman/elf.c` | passports | `load_driver_bin`, `process_relocations`, `get_elf_symbol` | one step of several fails | a driver is usable or absent, nothing in between |
| Driver model | `drivers/drivermodel.c` | driver list, device list | `register_driver`, `find_driver`, `device_from_pci`, `init_devices` | retry with falling priority | the bind loop ends; the best driver that binds is assigned |
| PCI access | `drivers/pci.c` | device registers | reads, read-modify-write | bits cleared by writing 1 | a write changes what it says |
| IDE, EHCI, framebuffer drivers | `drivers/*/main.c` | device registers, buffers | `init`, `bind_device_pci`, `kvshift` | polling without timeouts, unchecked allocation | probing ends if the device answers |
| Library | `util/strings.c`, `util/earlyutil.c`, `util/gdt.c` | none | `memset`, `memcpy`, `memmove`, `udivmod64`, `make_gdt_entry` | block loops at the edges | equal to the textbook definitions |

How they interact: `kernel_main` (`main.c`) calls the parts once, in order. The
console, the loader, the driver model and the drivers all call the allocator.
The keyboard handler calls `printf`, hence the console, hence (every time a
console entry is full) `kmalloc`; this is the one place where two activities meet
in the allocator. The memory manager feeds the allocator the region and the
extents it must not hand out. The console calls a driver to scroll, and `memcpy`
to scroll in text mode, which prints. `wait` depends on the timer handler.

Not modelled: the font and the PCI name tables (data); the GDT and CPUID (straight-line
code that loads registers once); `start.S` and the linker scripts (a stack and
addresses); `OBSOLETE_int86` (not in the build); the parsing of `printf`'s format
(wording; the number printers are modelled); the instructions of port I/O (the registers
behind them are); build files.

## 2. Plan

1. `Kalloc`, `PhysMem`: the allocator, what it promises, and the proofs of it
   in `KallocProof`; `LazyMerge`: frees in any order (done).
2. `MemoryManager`: the choice of the region and the marking of entries, whose
   outcome is what the boot actions of `Kalloc` start from, with the proofs
   `Region`, `Marking` and `Largest` (done).
3. `Interrupts`: PIC, stubs, handlers, ticks, `wait`, with the proofs `Handled`,
   `Clean` and `NotEarly` (done).
4. `ConsoleLog` and `Screen`: the log with the handler that prints into a print,
   which implements the abstract log `TextLog`, with `ConsoleLogProof`; what is seen
   of it, with `ScreenProof` (done).
5. `ElfLoader`, `DriverModel`: loading, registration, find and bind, with drivers as
   nondeterministic partners, with `DriversProof` (done).
6. `Ide`, `Ehci`, composed in `Devices`: the probes against abstract hardware, with
   `DriversProof` (done).
7. `BootInfo`, `Library`, composed in `Early`: the tag walk, and the pure functions
   against reference definitions, with `EarlyProof` (done).
8. `Recursion`: induction, and functions defined by a first value and a step, for the
   proofs about lists and loops (done).

Theorems, done: those of sections 3 to 10, one for every safety property the
runs check except two: section 12 says which, and what stays with TLC.

## 3. Kalloc

### Correspondence

| Model | Code |
|---|---|
| `node` | memory read as `struct memory_block`, by address |
| `allocator_map` ... `allocations` | the statics of the same names (`kalloc.c:16-24`) |
| `frame`, `depth` | the C stack: one record of locals per call in progress |
| `InitKallocator` | `init_kallocator` up to its call of `ksmalloc` |
| `Kamalloc`, `Interrupt`, `Grow` | the three ways `ksmalloc` is entered: a client, a handler, `mkblock` |
| `Occupied`, `FirstFree`, `Housekeep` | lines 90-106, one iteration's first half |
| `PassOver`, `Choose`, `OutOfMemory` | lines 108-126, its second half and the exit |
| `TakeFree`, `Carve`, `Grow` | `mkblock` |
| `InsertRight`, `InsertLeft`, `Claim`, `MarkClose` | `cut_block`; `Claim` also does the counters, the zeroing and the return |
| `Kfree`, `Free`, `FreeNull`, `FindNext`, `FindMiss`, `FreeFound`, `Merge`, `FreeDone` | `kfree` and `free_block` |
| `Kmarkunusable`, `Mark...` | `kmarkunusable`, called once for each extent of `Reserved` |
| `held` | what callers were given and have not given back |
| `pos`, `page` | auxiliary: where a listed block starts, which page structs come from; no action reads them to decide a step of the code |

One action is one loop iteration, one call or one return: every place where the
nested call of `mkblock`, or a handler, can see the shared variables in a
different state. Handlers run between actions, which is coarser than one
instruction, so what `kalloc_irq` shows holds between these points; the overlap a
handler causes (section 11) is a real order of instructions.

Abstractions. Sizes and addresses are counted in units of
`sizeof(struct memory_block)` (12 bytes), so a struct is one unit and a page of
`PageSize` units holds at most that many structs. Arithmetic is modulo `Word`.
What clients store in their memory is not modelled; what the allocator's own
zeroing does to structs is (`Erase`). Messages are left out. `kmarkunusable`
overlapping nothing is not called, as in `mem.c:96`.

`FreeDiscipline` says what clients free: `"never"` (the kernel as it stands: no
caller of `kfree` in the tree, the symbol is exported to drivers, `elf.c:39`),
`"above_used"` (a client frees an extent only if the block before it is in use,
so two free blocks are never neighbours and `ksmalloc` never has to merge), and
`"any"`.

`LazyMerge` is `Kalloc` with frees in any order and a history variable, `intact`. The
lazy merge leaves two locals wrong: `block_start` (`kalloc.c:96`), unless the two blocks
have one size, and `prev_block`, which becomes the merged block itself (`kalloc.c:99`).
`intact` is true until the first is about to be subtracted from wrongly
(`MisplacesStart`) or the second to be linked through (`LinksToItself`); a behaviour ends
there. What follows is shown by `kalloc_free_overlap` and, for the second, with the
constants in section 11.

### Abstract specification

`PhysMem` has one variable, `held`, and two actions: `Grant` gives a request an
extent that lies in the region past the first page, is aligned relative to the
region's start, and is disjoint from every other; `Release` gives one up.
`kalloc_reuse` checks that `Kalloc` implements it (`MemorySpec`, with `held`
mapped to itself and the region's bounds computed from the constants).

### Runs

| Run | Expect | Question | Bounds |
|---|---|---|---|
| `kalloc_reuse` | pass | does the allocator keep its promise while frees leave no two free neighbours? is no struct leaked, a failure honest? does each call return? | 5 units past the page, 3 extents, sizes 1 and 4, alignments none and 4: right cuts, left cuts, both, exact fits and failures all occur |
| `kalloc_anyfree` | pass | with frees in any order, is everything sound until one of the two wrong locals is used? | 12 units past the page, 4 extents of 1, 2 or 9 units, aligned to 2 or not, 8 calls |
| `kalloc_irq` | pass | two reserved extents are marked at boot, then handlers allocate in the middle of calls and a table of 4 structs per page is outgrown: are the extents kept, do structs come from inside their page, can growth recurse? | 31 units past the page, 3 extents, up to 4 frames deep |
| `kalloc_free_overlap` | violation of `Exclusive` | lazy merge of unequal blocks (`kalloc.c:96`) | |
| `kalloc_reserved_lost` | violation of `ReservedKept` | address compared with offset (`kalloc.c:137`) | |

Five more disagreements of the allocator with its promise are in section 11, with the
constants that show them.

In `kalloc_anyfree` the extents are large enough, and the region long enough, that a
wrong address reaches listed and spare structs and an aligned request can miss a block:
without the stop at `intact` the same bounds violate each of the four parts of
`SoundWhileIntact` (`BlockTiling`, `FreeChain`, `Exclusive`, `HonestFailure`). Lazy merges
of blocks of one size go on, and cuts of a merged block that leave nothing in front of the
result.

In `kalloc_irq` a page has room for 3 structs more than
the 4 that are taken before the table grows, since `page_depletion` is reset while the
page is still in use and every allocation until the new page is there takes one more;
the code has room for 309 more than 32, and recursion would need some thirty
handlers to allocate during one call of `kmalloc`. `MaxHeld` keeps the model's
handlers below the 4 of its table, as theirs are below 32. Nobody frees in it. That
`free_block` merges with any block that is not marked 1 (`kalloc.c:72`) therefore shows
nowhere: `kmarkunusable` marks from the beginning of a free block, and the page of structs
is the first block, so no client's extent lies in front of either while offsets are right.

The bounds are small because the code is insensitive to scale: a walk looks at a
block, its predecessor and the free block it remembers, and a cut makes at most
two structs, so lists of five to eight blocks show every shape. Deadlock is not
checked: the model stops when its clients hold all they can and free nothing.

The properties: `BlockTiling` and `FreeChain` tie the list, the auxiliary
positions and the spare structs together at every step, also in the middle of a
cut or a merge; `Exclusive` and `Aligned` are about clients; `HonestFailure`
about a return of 0; `AccountedAllocations` and `FreeMemoryExact` about the
counters between calls; `GrowthNestsOnce` and `BumpInPage` about `mkblock` as long as it
is given a page, `StructsInRegion` about when it is not;
`ReservedKept` about the memory map; `Terminates` about every call.

Fairness: `FairSpec` adds `WF_vars(Run)`, where `Run` is every step of a call in
progress. It says the processor keeps executing the call; nothing is assumed of
clients or handlers. Interrupt storms are outside it: no handler runs in the run
that checks `Terminates`.

### Proofs

`KallocProof` is in two parts. The first assumes that no handler allocates
(`IsrSizes = {}`), and lets `mkblock` grow the table; the second lets nothing nest,
and says what the list and the clients have.

**Types and growth** (`IsrSizes = {}`): `Typing` (`TypeOK`), `NestsOnce`
(`GrowthNestsOnce`) and `InPage` (`BumpInPage`, which is about the structs taken while
there is a page to take them from), for all constants that satisfy `KallocAssumption`.
`TypeOK` alone is not inductive: a struct's `next`, a frame's
`crt_block` and the return address of a nested call are needed to know that the
arithmetic stays within a word and that the stack stays within its levels. The
invariant `TypeInv` adds the shape of the stack (`GrowthFrame`, `Nesting`): a
frame for growth is on top of a frame in `"cut"` with something pending, it asks
for a page without alignment, and `page_depletion` was reset before it was
pushed, so it never finds the table full: at most two structs fit between. `BumpInv`
counts the structs taken from the page against `page_depletion`: while the table grows
the old page gives at most one struct more than `MEMBLOCKS_PER_PAGE` and what was taken
since the reset. There is a lemma per action and a step per conjunct; the arithmetic
modulo `Word` is in `ArithType`.

**Safety** (`Reserved = {}`, `FreeDiscipline # "any"`): seven theorems of the form

    Spec /\ [](depth <= 1) => []P

for every region, page and table size, every set of sizes and alignments and any
number of requests. `depth <= 1` says that calls do not nest: the table of structs
has not been outgrown and no handler allocates in the middle of a call. The
conditions are not for the proof's convenience; each one excludes a behaviour in
which the code breaks `Exclusive` or `ReservedKept`: growth and handlers nest calls
(section 11),
`kalloc_free_overlap` frees behind a free block, `kalloc_reserved_lost` reserves memory.

| Theorem | Property | Invariant |
|---|---|---|
| `TilesAlways` | `BlockTiling` | `IInv` |
| `HeldApart` | `Exclusive` | `IInv` |
| `AlignedAlways` | `Aligned` | `IInv`, `AlignInv` |
| `Implements` | `MemorySpec`, the refinement of `PhysMem` | `IInv`, `AlignInv` |
| `Accounted` | `AccountedAllocations` | `IInv`, `AlignInv`, `CountInv` |
| `Honest` | `HonestFailure` | `IInv`, `PassedInv` |
| `NoStructLost` | `FreeChain` | `IInv`, `AllSpare` |

`BlockTiling` is far from inductive. The invariant `IInv` has these parts:

- `Layout`: the first block is the page of structs, marked 3, and structs are
  taken from it one after the other, so zeroing a client's memory spares them;
- `Tiling`: `BlockTiling` with structs below `next_memblock_addr`, where the block
  being cut counts with the parts it has not given up yet (`Ext`, `Mrk`) and the
  block being freed ends where `nextblk` starts (`Aft`);
- `Spares`: the structs of the page that are not listed form a chain from
  `free_blocks` in which nobody is reached from two places (`Chain`), which is as
  much of "no struct is handed out twice" as a step preserves by itself;
- `Marks`: no free block follows a free one, which is why the lazy merge of
  `ksmalloc` (`Housekeep`) is never enabled (`HousekeepNever`) and `block_start`
  stays right;
- `Locals`: what the locals of the call in progress mean, by program counter: the
  walk knows where it is (`Walking`, `Scanning`), the cut has parts that add up and
  neighbours that are in use (`Cutting`), the block to be freed has no free block
  before it (`Finding`, `Merging`);
- `Holdings`: every extent held is a block marked 1 of the same start and length,
  and different requests hold different blocks.

The geometry is in four lemmas about any three functions: `SplitRight`,
`SplitLeft` and `Join` say that cutting a block in two and joining two keeps a
tiling, `OneBlockAt` that positions are unique; they know nothing of frames.
`View` relates the program's state to these functions. Then there is one lemma
per action (`OccupiedSafe` to `FreeDoneSafe`) with a step per part of `IInv`.

The other theorems add to `IInv` what they need:

- `AlignInv`: an extent held is aligned as it was asked for, and so is the place the
  call in progress has chosen for its client;
- `CountInv`: the counter is one more than the number of holders, two more while a free
  has taken its extent from `held` and has not decremented yet, and a walk of `kfree`
  that will free something has the block it looks for still ahead (`AheadOfWalk`);
- `PassedInv`: no free block that the walk has passed has a place for the request at
  any offset, since `OffsetRequired` is the least offset that aligns;
- `AllSpare`: the spare structs are the values of a function on `0..k` that starts at
  `free_blocks`, follows `next`, ends at `NULL`, has all of them and none twice
  (`Linked`). A struct is taken from and returned to its front (`LinkedPop`), and what
  `FreeChain` says of its recursive walk follows by induction along it.

`Implements` maps every step to a step of `PhysMem` or a stutter: `Claim` for a client
is a `Grant`, a call of `kfree` a `Release`, and all others leave `held` alone.

TLC first checked each invariant on the constants of `kalloc_reuse`.

Only model-checked: `Terminates` (liveness), everything under frees of any order or with
nested calls that is not in the first part (`kalloc_anyfree`, `kalloc_irq`), and
`ReservedKept`, which is true for the extents and the region of its run and false in
general (`kalloc_reserved_lost`).

## 4. MemoryManager

`init_memory_manager` (`mm/mem.c`) reads the boot loader's map twice: once to choose
the region the allocator gets, and once more, after `init_kallocator`, to report to
`kmarkunusable` what is not available in it.

### Correspondence

| Model | Code |
|---|---|
| `mmap`, `mmap_base` | the map the boot loader made, and its address (`mbd->mmap_base`) |
| `pc`, `p` | the loop and its cursor |
| `best_start`, `best_size` | the locals of the same names |
| `marks` | the arguments of the calls of `kmarkunusable` |
| `Prefer`, `PassOver` | one iteration of lines 20-70: the entry offers a larger region or not |
| `Panic`, `StartAllocator` | lines 72-79 |
| `Mark`, `Skip`, `Done` | one iteration of lines 80-104, and its end |
| `End`, `AboveKernel`, `Offer` | lines 37-64: clipped to 4 GiB, truncated, moved past the kernel, rounded to pages |
| `Clip`, `ToMark` | lines 87-96 |
| `Read` | line 81: the map is in memory, and the page at `alloc_start` now holds the allocator's structs |

The link to `Kalloc`: `RegionUsable` is what `Kalloc` assumes of its region (at least a
page, page-aligned, within a word), and `marks` is what `Kalloc` has as `Reserved`.

Abstractions. An address counts units of one `memory_map_t`, so that an entry is one
unit. Bases and lengths have no width: a sum that overflows 64 bits is left out. Only
the first page of the region is taken as written to during the second pass; an entry
of the map in that page reads as any entry, also as the one it was, which covers what
its partial overwriting may leave.

### Runs and bounds

`mem_map` enumerates every map of up to three entries of 40 kinds (below, across and
above the end of the kernel, unaligned, empty, overlapping, reaching 2^32 exactly, past
it, and starting beyond it), at two places, one of which may be in the region. Two
entries compete for the best region and a third makes a part of it unavailable; more
entries add no shape. It checks `RegionUsable`, `RegionLargest` and `MarksExact`.
Two properties say where the map is not respected; section 11 has the constants with
which they fail. `MapRespected`: a map across the start of the region is overwritten where
the first struct goes, a reserved entry there is not found again, and the kernel keeps no
part of the boot information out of the region (`mem.c:79`). `TopRespected`: an entry that
ends at 2^32 or beyond has its end truncated to 0 (`mem.c:42`, `91`), is never chosen, and
if it is reserved never marked.

So `RegionLargest` and `MarksExact` speak of entries that end below 2^32 (`Whole`), and
`MarksExact` of a map that is not overwritten (`MapKept`). One limit more is in the proofs:
an available entry that starts in the last page makes `ceil_page` wrap to 0,
and then the kernel panics; `Largest` assumes there is none.

### Proofs

`MemoryManagerProof` proves four theorems for every word, page, kernel, map and place
that satisfy `MapAssumption`: `Typing` (`TypeOK`), `Region` (`RegionUsable`), `Marking`
(`MarksExact`) and, under `NoLastPage`, `Largest` (`RegionLargest`). The arithmetic of
pages is in five lemmas (`FloorPage`, `CeilPage` and what they rest on); `OfferUsable`
and `OfferAll` say that an entry offers nothing but, and no less than, its whole pages
above the kernel; `ClipExact` that what is marked for an entry is its part of the region.
The invariant `MemInv` says that the cursor is in the map, that the best region so far
is usable unless it starts at 0, and that what is marked is what the entries before the
cursor say (`MarkedSoFar`); `BestLargest` adds that these entries have nothing better.

## 5. Interrupts

The boot code of `interrupts/idt.c`, the 256 gates and their stubs, the three handlers
and `wait` of `util/earlyutil.c`, with the two PICs and the devices behind them.

| Model | Code |
|---|---|
| `pc` | the main line: `kernel_main` up to `sti`, then `wait` or what is between waits |
| `pic_remap`, `pit_set_frequency`, `init_idt_entries`, `Unmask` | `init_idt_and_keyboard`, in its order |
| `Stub`, `CpuStub`, `IrqStub`, `UnusedStub`, `Gate` | `GENERATE_STUB`, the generated stubs and the table `init_idt_entries` fills from them |
| `frames` | the stubs on the stack, innermost first, with the flag `iret` restores |
| `timer_handler`, `keyboard_handler`, `generic_handler` | the bodies; `EndOfInterrupt`, `Iret` their common ends |
| `wait`, `Check`, `Hlt` | the call, the test and the `hlt` of `wait` |
| `irr`, `isr`, `mask`, `offset` | the PIC: requests, lines in service, masks, vector of line 0 |
| `TimerPulse`, `KeyPress`, `Deliver`, `DeliverSpurious`, `Fault` | the hardware: external |
| `elapsed`, `since` | history and a bound: pulses since the call, device events between steps |

Abstractions. The keyboard handler's printing is in `ConsoleLog`, its allocation in
`Kalloc`: here it reads its scancode. The slave PIC never has a line in service, so its
end of interrupt does nothing; its lines are masked. An exception may strike anywhere
but in `hlt`, and inside handlers `Nesting` deep.

`interrupts` (ticks modulo 8, waits of 0 and 2 ticks, two device events between steps of
the main line, exceptions with and without error code, three stubs deep) checks
`InServiceHandled`, `IretClean`, `WaitNotEarly`, `WaitEnds` and `KeysServed`. A tick
counter of 8 wraps during a wait; two events let a pulse be lost, be withdrawn, and a key
come with it. The stubs drop no error code (`idtstubs.h`); `IretClean` says that it never
matters, since the handler of an exception does not return.

Fairness: the processor runs (`WF` of the main line and of handlers), the timer keeps
pulsing (`SF`: a pulse may be disabled by the bound `Burst` again and again), and the PIC's
requests are answered; a line that is always requested and never preferred is answered
because the timer's own end of interrupt lets it. `SF` of `Deliver(Timer)` says that not
every pulse is withdrawn before the processor looks.

Proofs (`InterruptsProof`), for every constant that satisfies `InterruptsAssumption`:
`Typing`, `Handled` (`InServiceHandled`), `Clean` (`IretClean`) and `NotEarly`
(`WaitNotEarly`). None of them is inductive. `Inv` adds: only the outermost stub can be an
interrupt's, those above it are exceptions' and never get past their bodies (`Stack`); the
flag is on only on an empty stack, and while the kernel boots no stub has saved it on
(`Phase`); a line in service is that of the outermost stub, before its `iret` (`Service`),
so the unspecific end of interrupt, which ends the highest line, ends the right one; and
during a wait the ticks counted, with a pulse that is latched or taken and not yet
counted, are at most one ahead of the pulses (`Progress`), which is the tick by which
`wait` may be short. The arithmetic of a counter that wraps is in `NextTick`.

## 6. ConsoleLog, TextLog

`putchar`'s store and `add_entry` (`console/console.c`), access by access: `tail` to
`store` are the places of `putchar`, `alloc` to `clear` those of `add_entry`, `loc` the
locals, once for the main line and once for the handler. `putchar` stores into an entry it
has just added without a test of its capacity, except into the console's first. `KeyPress`
lets the handler print `KeyLen` characters between any two accesses of the main line; it
runs to its end first, because interrupts are off in it. Before the console's first entry
no key is pressed (interrupts are off until long after).

`add_entry` calls `kmalloc`, which keeps no lock either. A line at `alloc` is about to call
it or inside it: the handler that comes then allocates before the main line's call, or
inside it (`Kmalloc`, `reentered`), and in that case the main line may be given what the
handler was given (`given`, `AllocateTwice`), zeroed again. Nothing finer of `kmalloc` is
distinguished here; what it does to the allocator is in section 11.

`console_log` (entries of 3 bytes, 4 entries, 2 key presses of 3 characters, so that a key
press fills an entry and needs another) checks `StoreInBounds` (the byte kept spare takes
the one character whose capacity test is out of date), `WalkEnds` (`redraw`'s walk ends
at the first entry even if the handler linked one in the middle of `add_entry`, unless a
`kmalloc` ran inside another: an entry given twice becomes its own `prev`, and the walk
never ends) and
`LogSpec`: for the main line, the log implements `TextLog`, an abstract log to which each
printed character is appended once, or refused, and from which nothing is lost, again
until a `kmalloc` runs inside another: then the two lines write into one entry and clear
each other's text. The text
of the handler may be lost or overwritten: that is what the races cost. `Kept` is what an
entry has of the main line's characters, `Text` that along `prev`, and `MainText` what
`redraw` would find from `last`; they are functions on the naturals, so that the proofs
can reason about them.

Proofs (`ConsoleLogProof`), for every capacity of an entry, every number of entries the
allocator has memory for, any number of key presses and characters: `NoOverrun`
(`StoreInBounds`), `WalkReachesFirst` (`WalkEnds`) and `NoTextLost` (`LogSpec`, the
refinement of `TextLog`), all three as long as no `kmalloc` ran inside another. TLC checks
`StoreInBounds` without this condition. The invariant, in the order in which the theorems need it:

- `Shape`: where each line is, and what its locals hold there; the handler moves only
  while the main line stands still, which is what makes the one spare byte enough;
- `Stored`: no character of the main line lies at or behind `charcount`, or at the byte the
  main line is about to store, so no store replaces one;
- `Chain(r)`: the entries linked are a tree by `prev`, with `r` the distance of each from
  the first: `redraw`'s walk is as long as `r` says. It is a tree and not a list because
  an entry that the handler linked in the middle of the main line's `add_entry` hangs
  beside the path from `last`;
- `TextOf(T)`: the text up to each entry, which `MainText` is at `last`;
- `Branch(D)`: what hangs on the entry the main line stores into is the handler's and has no
  character of the main line, so that a character stored there ends the text although
  the entry may not be the last any more.

`r`, `T` and `D` are quantified: each step shows that there are new ones, mostly the old
ones with one value changed. `NoTextLost` maps the store of a character to `Commit`, a
missing entry to `Refuse` and everything else to a stutter.

## 7. Screen

The cursor, drawing, scrolling, `redraw` and `kswitch_graphics_driver`. Interrupts are on
from `main.c:48`, before all of this but the first lines, and `keyboard_handler` prints.
So the main line's character takes three steps: it is in the log (`putchar`), `gr_renderchar`
has tested the cursor (`Test`), it has acted (`Act`), and a key may be pressed between any
two. In `redraw` a step is a character read back or a character of a flushed line; a key may
be pressed between these too. The handler prints a glyph and a line end, a character a
step (`KeyChar`), and the main line waits for it.

| Model | Code |
|---|---|
| `log` | the text of the entries, cut at `MIN_CAPACITY - 1` characters (`EntryBefore`) |
| `fresh` | the main line's character, once in the log, until it is drawn: a key's come behind it |
| `screen` | video memory, as pixel rows of cells; a character fills `Font` rows of its cell |
| `Branch`, `NewRow`, `Scrolls`, `Render` | `gr_renderchar`: its tests (80-81), and what it does for each outcome (82-95) |
| `Echoes`, `Full`, `Echo` | the `w` of `memcpy_sse` when the text screen scrolls |
| `KeyPress`, `KeyChar` | `keyboard_handler`'s `printf`, with interrupts off |
| `Switch`, `PrintMode` | `kswitch_graphics_driver` up to its `redraw`: new capacities, and a line printed with them on the old screen |
| `Redraw`, `ReadBack`, `ReadLast` | `redraw`: the framebuffer, blank at first, is on; the log is read backwards into `crtline` |
| `FlushChar`, `FlushDone`, `Redrawn` | `flushline` that paints the line, and what `redraw` does after it |
| `Lay` | where each character of the text is: its row, and the glyphs and colour codes before it in the row |
| `printed`, `redrawn`, `stray`, `disturbed` | history; `disturbed`: a key came not between two characters |

Coarser than the code: the assignments next to each other of one step (`cursor_y++` and
`cursor_x = 0`; a glyph and `cursor_x++`; the two capacities) are one access for a key
press, as is a scroll.

`console_screen` (a text screen of 2x2, a framebuffer of 4 columns and 7 pixel rows with
characters of 2, so that a rest of a row is left; up to 6 characters of the main line and 2
key presses) checks `CursorInside`, `StoresInside` and `ShownIsLog`. Six characters with those of
a key scroll the text screen, switch, redraw several entries and scroll the framebuffer;
two keys are one for the main line's test and act, and one more to drive the cursor
further down, which does not happen.

What holds with keys pressed anywhere is `CursorInside`: between its test and its act the
main line's `cursor_y` may grow by the key's line end and then once more, so the
cursor may be one row too low, but not two, since the next line end scrolls. It stays there,
and what is printed from then on is stored below the screen and not seen (section 11). `StoresInside` and
`ShownIsLog` are for keys pressed between two characters (`~disturbed`). Three more limits of
the code are in
`Fits`: a row longer than the screen loses the character at which it wraps; a redraw goes
wrong when the text has more rows than the framebuffer, where `break` leaves only the
inner loop; and each row, with its colour codes, must leave a column of the framebuffer
free for the line end. The line with the new resolution is one glyph and a line end here.
Colours are compared on the text screen only,
since `redraw` goes through the colour codes backwards. A last `cursor_x--` at column 0
(`console.c:142`, on an empty top row of a full screen) makes it 65535, and `flushline`
reads far behind its line: the model stops there (`"wild"`, a stray store). `SSE = FALSE`:
see section 11.

The framebuffer may be smaller than the text screen: `BootloaderFB/main.c:33` checks only
that it has 160 pixels in a row. That it is at least one row of characters high
(`ScreenAssumption`) is checked by nobody; with none `capacity_y - 1` is -1 in the test
of the cursor. The three properties have also been checked with framebuffers of 3x3 and of 1x1
characters against text screens of 3x4 and 2x2, and with `SSE = TRUE`.

### Proofs

`ScreenProof` proves the three properties for every size of the text screen of at least two
columns, the framebuffer (at least one row of characters high), the font and the entries,
every set of glyphs and colours, with and without SSE, any number of key presses, and
texts of any length. While no key has disturbed a character, the three steps of one, and a
key's characters, are steps of `OnceNext`, which does a character at once (`OnceStep`;
`Rendering` says where the main line is in it), and `CursorInv`, `StoresInv` and `ShowInv` are
invariants of that. `Drifting` bounds the cursor in all other cases: the main line about to
act on `"down"` has a cursor at most in the last row.

- `CursorStays` (`CursorInside`): from `Drifting`, and from `CursorInv`, which says which
  screen the capacities belong to
  (`Capacities`; while `kswitch_graphics_driver` prints, not the one that is on), and that
  in `flushline` the cursor stays at most `maxhere`, which is at most the capacity.
- `StoresStay` (`StoresInside`): `StoresInv` adds `TextSafe`, why printing with the wrong
  capacities stores nothing outside the text screen (the cursor is at the left, and what is
  printed is one glyph and a line end), and `Walking`, what `redraw` is doing: it has read
  the row that ends before character `k` (`RowEnd`) down to `chrid`, and the cursor is as
  many rows above the bottom as the text has rows after it. `RowWidth` counts the characters
  of a row, so that the line is long enough for it (`LineHolds`); `FlushRises` says that
  the top row is never flushed before the last, so that `break` is never reached.
- `ShownIsLogAlways` (`ShownIsLog`): `Shows` says that a screen shows a set of characters of
  a text, with a given row of the text at the top. Four lemmas say what keeps it:
  `DrawShows` (one glyph more, where the cursor is), `ShiftShows` (the row at the top is the
  next one; the pixel rows below the last row of characters stay blank), `LongerText` and
  `SameGlyphs`. `ShowInv` says with it what has been painted at each point of `redraw`
  (`Repainting`): everything from `k` on, while row `chrid` to `k` is flushed also its characters
  up to some `q`, and that `crtline` holds the row backwards (`LineIs`).

## 8. ElfLoader, DriverModel

`ElfLoader` is `load_driver_bin`, `process_relocations` and `get_elf_symbol`
(`progman/elf.c`); an image is which checks it passes, which sections it has, its
relocations and its exports. `DriverModel` adds `register_driver_i`, `find_driver`,
`device_from_pci` and its bind loop (`drivers/drivermodel.c`), and `kernel_main`'s loop over
images (`main.c:52-64`); it extends the loader, and `driver_model` checks both. Drivers are
external: `init` gives a result that belongs to the image, and `bind_device_pci` any result
of the image's set `binds`, at each call.

The recursion of `device_from_pci` over functions 1 to 7 is the list `agenda` of calls
still to make, of which the first is running. The copy of an image is one action, a
relocation is one action, and an allocation may fail wherever the code makes one, at most
`MaxFailures` times. After some failures the code goes on with a null pointer: without
paging that reads the words at address 0, which the BIOS filled (`low`). Where what they
hold decides, both outcomes are allowed, or the model stops (`"astray"`). The `next_drv` of
the first driver is never written (`drivermodel.c:87`), and `find_driver` follows it
whenever no driver in the list has the ids, in its search by priority too: `stray` says that the memory was not clear,
`Endless` that the search gets there.

`driver_model` takes three images out of the repository's three and eleven stand-ins with
one thing wrong each, on two slots with single and multi-function devices, with one
failing allocation: every failure of the loader meets every rank a driver may have. It
checks `DriversLinked`, `DevicesServed`, `DevicesOnce` and, under fairness of the one line
of code that runs (`WF_vars(Next)`), `BootEnds`; that property names the two ways the bind
loop has to repeat for ever (a driver without `bind_device_pci`, or one that knows the
device's ids and refuses it), which none of the built-in drivers takes. `DevicesServed`
speaks of priorities below `Highest` (65535): the search starts below that, so a driver
that has it is never asked by class.

Proofs (`DriversProof`), for every list of images with any relocations, results and
ids, every bus, every order of failing allocations and refusals: `LinkedAlways`
(`DriversLinked`), `ServedAlways` (`DevicesServed`) and `OnceAlways` (`DevicesOnce`).

- `BootInv` says which relocations are done: those before `rel` as they demand, the
  others untouched; `DriversInv` that a driver in the list has all of them done, and that
  the list is in the order of registration, newest first.
- `OfferInv` says of a driver about to be asked that it is one of those with the device's
  ids, if there are any, and otherwise of its class with a driver of each better priority
  among those that have refused (`Suits`, `Choice`). A recorded device inherits that
  (`ServedInv`).
- `AgendaInv` says that the calls still to make and the functions recorded are
  `Coherent`: no call is for a recorded function, no two for the same one, a call for
  function 0 that has not expanded stands for its whole slot, and each function that can
  be reached is recorded or has a call. The recursion replaces such a call by eight
  (`Widened`).

## 9. Ide, Ehci, Devices

`Ide` is the probe of the IDE driver (`drivers/IDE`): four sites, drives of six kinds that
answer IDENTIFY each in its way and time, the one buffer they share, and entries of
`ide_devices` that may be null. `Ehci` is `bind_device_pci` of the EHCI driver
(`drivers/USB_EHCI`): registers are sets of bit numbers, the controller obeys its command
register when it likes (`Obey`, `FinishReset`), and an allocation may be null, which is the
memory at address 0. The driver declares the port registers as a pointer, so that it looks
at words of low memory (`stores`); with port power control it reads 0 for the pointer and
sets bit 12 in the dwords at address 0, where a null block lies (`MayHitZero`: it may or may not
change what the block has there). It asks the BIOS through a dword that is not the
semaphore (`legacy`). `Devices` runs the one after the other, as `kernel_main` does.

`devices` checks `DrivesReported`, `RunsPrepared`, and under fairness `ProbeEnds` and
`BindReturns`. `report` is the function from the numbers of the entries `init` prints to
what it prints. Fairness: the processor runs the driver, and a drive or controller that
has been given a command finishes it. What the polling loops cannot survive is named in the
properties: a drive that is ready without data or error (`mute`), a dword that never shows
the bits awaited. Six sets of drives put a slow one, a packet device and an error before
and after a disk on the same and the other channel; two null entries would be the same
memory, so `DrivesReported` assumes at most one. A null entry that no drive was given has at
address 0 whatever the BIOS left, and `init` may print it as a drive (`main.c:105`;
`LowEntries` says what may lie there): `Listed` leaves it out. A packet device's buffer is
read before the device is ready (`main.c:81`): `Own` lets its data be noise, but not another
drive's. `RunsPrepared` says what the three blocks hold if none is null, and up to the ports
if one is; that the controller is given null addresses it accepts.

Proofs (`DriversProof`), for every set of attached drives and of null allocations that
satisfies `IdeAssumption`: `ProbeReports` (`DrivesReported`) and
`ControllerPrepared` (`RunsPrepared`). For the first, `Addressed` says what the drive at the
site may be doing at each place of the probe, and that its data is in the buffer when it
is recorded; `Kept` that the first `count` entries are the drives of the sites passed, in
their order, and the others free. A null entry is an entry like the others as long as
there is one. For the second, `Prepared` orders the registers by the steps of
`bind_device_pci`: the controller is halted from the reset to the start, and no reset that
is still going on can clear what was written after it; `Placed` and `Written` say where the
three blocks are and that each holds its own, unless two share address 0 or the ports have
been reached with one there.

## 10. BootInfo, Library, Early

`BootInfo` is `init_boot`'s walk over tags. `Library` is `memset`, `memcpy` and `memmove`
with and without SSE, byte by byte to a boundary, by blocks through `xmm0` and then the
rest, and the four number printers of the console: a call of `print_uint32` or
`print_uint64` for the quotient is a step (`Call32`, `Call64`), `owed` is the digits the
calls around it print on return (`Putchars`), and `udivmod64` divides one bit a step. A
word has `Bits` bits, and its shift wraps. `Early` composes them;
`early` checks every list of up to three tags (with sizes that are not multiples of 8),
every call on a memory of 14 bytes with blocks of 4, and every number of 6 bits in 4
bases. `CopyExact` compares with a definition that has no loop, `NumbersExact` reads the
printed digits back by multiplication (`Horner`).
`Supported` says for which calls a copy is exact: any `memset`; with SSE copies that
reach a whole block; `memcpy` unless the target overlaps the source from above; `memmove`
without SSE only towards lower addresses. The kernel makes no other calls. A call in which a
handler has used `xmm0` (`clobbered`) is left out too: what the handler writes is then
copied (`strings.c:80`).

`BootInfoAssumption` is what the loader promises: a tag has at least its 8 bytes of header,
the end tag is the last, and a memory map is as long as its entries. A tag of size 0 would
keep the walk where it is for ever.

Proofs (`EarlyProof`), for every length of a call, size of the memory and of the block
register, width of a word, base and list of tags: `CopiesExact` (`CopyExact`),
`NumbersRight` (`NumbersExact`) and `InfoKept` (`InfoExact`).

- `Going` is the invariant of a supported copy: the bytes still to go, by bytes and by blocks
  (`Pending`), give the number written (`Count`); the two pointers are that far from where
  they started, forward or backward (`Pointers`); and the memory is the old one but for
  the bytes written, which are the first of the target or the last (`Contents`, `Holds`).
  `Unread` is why overlapping is harmless: what is still to be read has not been
  written, in either direction. The block in `xmm0` holds what belongs at the target while it
  is between its load and its store.
- `NumInv` is the invariant of a printer. `Printing`: the value still to print with the
  digits owed behind it reads as the absolute value of the argument, and no digit is owed
  behind a 0, so no zero leads. `Dividing`: with `k` bits to go the quotient is a multiple
  of `Pow[k]`, and with the remainder it divides the bits above (`Halving`, `DividesOn`).
  The remainder stays below the base, and a base is at most half a word
  (`LibraryAssumption`; the code's are 10 and 16), so the shift does not wrap. Induction
  over the digits is only in `BehindMore`, which turns a digit in front into a step of
  `Horner`. The lowest number is its own negation modulo the word, which is its
  absolute value as an unsigned word.
- `InfoInv` says that the walk is at the address of tag `k` and has kept what the tags
  before it say (`KeptOf`). Addresses rise (`Rising`), so the header read there is that
  tag's (`TagHere`), and the walk finds the end tag before it runs past it. `EntriesExact`
  is the division of `bootscheme.c:33`.

## 11. Known deviations

What the code does and its documentation or hardware would not have it do. The first two
are runs; for the rest the definition, the constants or the change that show it are given.
Where constants are named, the others are those of the `.cfg` named with them.

| Where | What | Shown by |
|---|---|---|
| `kalloc.c:96` | after a lazy merge of unequal blocks addresses are wrong | run `kalloc_free_overlap` |
| `kalloc.c:137` | an offset is compared with an address, extents stay unmarked | run `kalloc_reserved_lost` |
| `kalloc.c:99` | a left cut of a merged block makes a circle, the next walk never ends | `FairSpec`, Total 11, Word 20, Sizes {1}, Aligns {0, 2}, MaxHeld 2 in `kalloc_free_overlap`: `Terminates` |
| `kalloc.c:38` | growth in the middle of a cut grants memory that is being cut | MemStart 4, Total 16, PageSize 4, MEMBLOCKS_PER_PAGE 3, Word 22, Sizes {1}, `"never"`, MaxHeld 5 in `kalloc_free_overlap`: `Exclusive` |
| `kalloc.c:38` | with no page left, structs are carved at address 0 | MemStart 4, Total 7, PageSize 4, MEMBLOCKS_PER_PAGE 3, Word 12, Sizes {1}, `"never"`, MaxHeld 5 in `kalloc_free_overlap`: `StructsInRegion` |
| `idt.c:71` | a key press in the middle of a call is given the same extent | Total 16, Word 25, Sizes {1}, IsrSizes {1}, `"never"`, MaxHeld 2 in `kalloc_free_overlap`: `Exclusive` |
| `kalloc.c:183` | `kfree` moves the two byte counters the wrong way | `"above_used"` in `kalloc_free_overlap`: `FreeMemoryExact` |
| `mem.c:79` | a memory map in the region is overwritten before it is read again | Entries <- FewEntries, MaxEntries 2, Places {7} in `mem_map`: `MapRespected` |
| `mem.c:91` | a reserved entry that reaches 4 GiB is not marked; an available one (`mem.c:42`) is not chosen | `TopRespected` in `mem_map` |
| `console.c:27` | a key press inside the main line's `kmalloc` is given the same entry: text is lost and `redraw`'s walk may not end | `WalkEnds` without `~reentered` in `console_log` |
| `console.c:84` | a key press between the test and the step of the cursor leaves it a row too low, for good: all that is printed afterwards is stored below the screen and not seen | `CursorInside` with `<` instead of `<=` in `console_screen` |
| `console.c:142` | `cursor_x--` at column 0: `flushline` reads 65535 characters from beyond its line | `pc = "wild"` |
| `console.c:133` | a row as wide as the screen overruns `crtline` by a byte | `StoresInside` without `Fits` |
| `BootloaderFB/main.c:33` | a framebuffer less high than a character is accepted | `ScreenAssumption` excludes it |
| `strings.c:77` | `memcpy_sse` prints a `w`; scrolling the text screen prints into it | SSE = TRUE in `console_screen`: `log` and `printed` differ |
| `strings.c:80` | the stubs save no `xmm` register, a handler's copy spoils the interrupted one | `CopyExact` without `~clobbered` in `early` |
| `strings.c:84` | a copy shorter than a block runs for 2^32 blocks | `Supported`, phase `"runaway"` |
| `strings.c:204` | `memmove` backward without SSE starts one byte too far | `Supported` |
| `drivermodel.c:115` | the byte at 0xC is taken for the header type at 0xE | `DevicesFound` in `driver_model` |
| `drivermodel.c:87` | the first driver's `next_drv` is never written, a search that finds nothing follows it | `stray`, `Endless` |
| `drivermodel.c:24` | of the drivers of one priority only one is ever asked | the wording of `DevicesServed` |
| `drivermodel.c:135` | the bind loop never ends for two kinds of drivers | `Stuck` in `BootEnds` |
| `drivermodel.c:135` | the last driver stays assigned after it refused a device, if its priority is 0 | `RefusedLast` |
| `main.c:59` | the result of a failed `register_driver` is used | `NullVideo`; a null passport is `NullPassport` |
| `elf.c:134` | images are aligned to 4098, not 4096 | nothing depends on it |
| `USB_EHCI/definitions.h:55` | the port registers are declared as a pointer, and low memory is changed instead | `PowerPorts`, `LookAtPort` |
| `USB_EHCI/main.c:116` | with port power control bit 12 is set in the dwords at address 0, in a block whose allocation failed | `MayHitZero`; `RunsPrepared` without its exception |
| `USB_EHCI/main.c:52` | null addresses are given to the controller | `Nulls` |
| `USB_EHCI/main.c:104` | bit numbers are used for masks: the schedules are never enabled | `ScheduleMask`, `RunMask` |
| `USB_EHCI/definitions.h:59` | 0x8E0 does not fit the offset: the BIOS is asked through another dword | `OwnedBeforeRun` in `devices` |
| `IDE/main.c:105` | a null entry no drive was given is printed as what lies at address 0 | `Listed` |
| `IDE/main.c:81` | a packet device's data is read before it is ready | `Own` |
| `IDE/main.c:48` | the control register is written two ports above where it is | `ControlPort`: `silenced` stays empty |
| `console.c:290` | the comment names `%lld`, the code knows one `l` | the format is not modelled |

## 12. Where the proofs stop

| Property | Run | Why it is only model-checked |
|---|---|---|
| `Terminates`, `WaitEnds`, `KeysServed`, `BootEnds`, `ProbeEnds`, `BindReturns` | `kalloc_reuse`, `interrupts`, `driver_model`, `devices` | liveness under fairness needs `ENABLED`, which the prover does not know |
| `ReservedKept` | `kalloc_irq` | false in general: `kalloc_reserved_lost` |
| `SoundWhileIntact` | `kalloc_anyfree` | the proofs of section 3 rest on no two free blocks being neighbours |
| `StoreInBounds` after a `kmalloc` inside another | `console_log` | the proof's `Shape` gives each entry one owner |

Induction over data is done with `NatInd` of `Recursion`: a set that has 0 and with each
number the next has all of them. It is the library's induction with a set in place of
the operator the provers cannot instantiate. `IterationExists` shows that a function
defined by a first value and a step exists, which is what the recursive functions of the
model (`Walk`, `Text`, `Address`, `Lay`, `Pow`, `Horner`) need before anything can be said of their values.

The theorems about `Kalloc` leave out what their hypotheses exclude (section 3), and that
is where the code breaks its promise. The link between
`MemoryManager` and `Kalloc` is by matching what one promises with what the other assumes;
it is not a module of its own, and neither is that between the log of `ConsoleLog` and
the log of `Screen`.
