--------------------------- MODULE MCMemoryManager ---------------------------
(* Entries of a memory map in a machine of 24 units with pages of 4, whose *)
(* kernel ends at 5: entries below, across and above the end of the        *)
(* kernel, unaligned ones, and ones that reach the last address, go beyond *)
(* it or start there.  FewEntries is for a map that lies in the region.    *)
EXTENDS MemoryManager

SomeEntries == [base_addr : {0, 3, 8, 14, 30}, length : {0, 3, 9, 16}, type : {1, 2}]
FewEntries  == [base_addr : {3, 14}, length : {3, 9}, type : {1, 2}]

=============================================================================
