------------------------------ MODULE MCKalloc ------------------------------
(* The values a .cfg cannot write: the non-available extents of the memory *)
(* map that reach into the region, for the runs that mark them at boot.    *)
EXTENDS Kalloc

(* Two adjacent extents well inside the region.                            *)
ReservedInside == {[ptr |-> 14, len |-> 1], [ptr |-> 15, len |-> 9]}

(* An extent near the end of the region.                                   *)
ReservedNearEnd == {[ptr |-> 18, len |-> 2]}

=============================================================================
