------------------------------ MODULE BootInfo ------------------------------
(***************************************************************************)
(* init_boot (boot/bootscheme.c): the walk over the tags the boot loader   *)
(* left, from the first to the end tag, and what it keeps of them.  A tag  *)
(* has a type, a size in bytes and its fields; the next one starts at the  *)
(* next multiple of MULTIBOOT_TAG_ALIGN.                                   *)
(***************************************************************************)
EXTENDS Integers, Sequences

CONSTANTS
  TagLists,   \* what the boot loader may pass: sequences of tags
  MULTIBOOT_TAG_ALIGN   \* 8

(* What the loader promises: every tag has its header, the end tag is the  *)
(* last one, and a memory map is as long as its entries.                   *)
IsEnd(tag) == tag.type = "END" /\ tag.size = 8
AList(t) ==
  /\ Len(t) \in Nat \ {0} /\ DOMAIN t = 1..Len(t)
  /\ \A k \in DOMAIN t :
       /\ t[k].size \in Nat /\ t[k].size >= 8
       /\ IsEnd(t[k]) <=> k = Len(t)
       /\ t[k].type = "MMAP" => /\ t[k].entry_size \in Nat \ {0} /\ t[k].entries \in Nat
                               /\ t[k].size = 16 + t[k].entries * t[k].entry_size
ASSUME BootInfoAssumption == MULTIBOOT_TAG_ALIGN \in Nat \ {0} /\ \A t \in TagLists : AList(t)

VARIABLES
  tags,       \* the list
  stage, at,  \* the walk and the address it has reached
  bootdata

boot == <<tags, stage, at, bootdata>>

Header == 8
Up(a) == ((a + MULTIBOOT_TAG_ALIGN - 1) \div MULTIBOOT_TAG_ALIGN) * MULTIBOOT_TAG_ALIGN

(* Where the loader put each tag.                                          *)
Address[k \in DOMAIN tags] == IF k = 1 THEN Header ELSE Address[k - 1] + Up(tags[k - 1].size)
End == Address[Len(tags)] + tags[Len(tags)].size
Starts == {Address[k] : k \in DOMAIN tags}
TagAt(a) == tags[CHOOSE k \in DOMAIN tags : Address[k] = a]

Nothing == [mmap_base |-> 0, mmap_entries |-> 0, framebuffer |-> 0, boot_source |-> "BIOS"]
BootInit == tags \in TagLists /\ stage = "entry" /\ at = Header /\ bootdata = Nothing

INDEXED == 0

FramebufferAny(type) == TRUE

Framebuffer(type) == type # INDEXED

EntriesWithHeader(tag) == tag.size \div tag.entry_size

Entries(tag) == (tag.size - 16) \div tag.entry_size

Keep(b, tag) ==
  CASE tag.type = "MMAP" -> [b EXCEPT !.mmap_base = at + 16, !.mmap_entries = Entries(tag)]
    [] tag.type = "FRAMEBUFFER" /\ Framebuffer(tag.fbType) -> [b EXCEPT !.framebuffer = tag.addr]
    [] tag.type \in {"EFI_MMAP", "EFI32_IH"} -> [b EXCEPT !.boot_source = "UEFI"]
    [] OTHER -> b

(* A wrong magic number is a panic.                                        *)
Enter == stage = "entry" /\ stage' \in {"walk", "panic"} /\ UNCHANGED <<tags, at, bootdata>>

Walking == stage = "walk"

NextUnaligned(tag) == at + tag.size

NextTag(tag) == at + Up(tag.size)

(* A type-0 tag of another size is a tag like any other.                   *)
ReadTag ==
  /\ Walking /\ at < End
  /\ LET tag == TagAt(at) IN
     /\ ~IsEnd(tag)
     /\ bootdata' = Keep(bootdata, tag) /\ at' = NextTag(tag)
  /\ UNCHANGED <<tags, stage>>
Finish ==
  /\ Walking /\ (at < End => IsEnd(TagAt(at)))
  /\ stage' = "done"
  /\ UNCHANGED <<tags, at, bootdata>>

BootNext == Enter \/ ReadTag \/ Finish

-----------------------------------------------------------------------------
(* The walk reads headers only where the loader put tags, and what it      *)
(* keeps is what they say: the last memory map, with as many entries as it *)
(* has, the last framebuffer with direct colours, and UEFI exactly if one  *)
(* of the two tags is there.                                               *)
LastOf(ks) == IF ks = {} THEN 0 ELSE CHOOSE k \in ks : \A j \in ks : j <= k
Maps == {k \in DOMAIN tags : tags[k].type = "MMAP"}
Frames == {k \in DOMAIN tags : tags[k].type = "FRAMEBUFFER" /\ tags[k].fbType # INDEXED}
Uefi == {k \in DOMAIN tags : tags[k].type \in {"EFI_MMAP", "EFI32_IH"}}
InfoExact ==
  /\ Walking /\ at < End => at \in Starts
  /\ stage = "done" =>
       LET map == LastOf(Maps)
           fb  == LastOf(Frames) IN
       /\ bootdata.mmap_entries = IF map = 0 THEN 0 ELSE tags[map].entries
       /\ map # 0 => bootdata.mmap_base = Address[map] + 16
       /\ bootdata.framebuffer = IF fb = 0 THEN 0 ELSE tags[fb].addr
       /\ bootdata.boot_source = "UEFI" <=> Uefi # {}

=============================================================================
