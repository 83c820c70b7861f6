------------------------------- MODULE Early --------------------------------
(***************************************************************************)
(* What kernel_main relies on first: init_boot, then calls of the library. *)
(* The calls read nothing of the boot information, so they are explored    *)
(* after the shortest list of tags only.                                   *)
(***************************************************************************)
EXTENDS BootInfo, Library

Init == BootInit /\ LibraryInit

init_boot == BootNext /\ UNCHANGED library
Shortest == Len(tags) = 1
Calls == stage = "done" /\ Shortest /\ LibraryNext /\ UNCHANGED boot
Next == init_boot \/ Calls
Spec == Init /\ [][Next]_<<boot, library>>

=============================================================================
