------------------------------- MODULE MCEarly ------------------------------
(* The lists of tags a boot loader may leave: up to two of each kind, with *)
(* sizes that are not multiples of the alignment, then the end tag.        *)
EXTENDS Early

Mmap(n, entry_size) == [type |-> "MMAP", size |-> 16 + n * entry_size, entry_size |-> entry_size, entries |-> n]
Fb(type, addr) == [type |-> "FRAMEBUFFER", size |-> 31, fbType |-> type, addr |-> addr]
Plain(type, size) == [type |-> type, size |-> size]
EndTag == Plain("END", 8)
Tags == {Mmap(0, 24), Mmap(3, 24), Mmap(2, 40), Fb(0, 7), Fb(1, 8), Fb(2, 9), Plain("EFI_MMAP", 20), Plain("EFI32_IH", 12),
         Plain("CMDLINE", 9), Plain("MODULE", 17)}
MCTagLists ==
  {Append(t, EndTag) : t \in UNION {[1..n -> Tags] : n \in 0..3}}
=============================================================================
