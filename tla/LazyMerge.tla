----------------------------- MODULE LazyMerge -----------------------------
(***************************************************************************)
(* Kalloc with clients that free in any order, so that ksmalloc merges     *)
(* free blocks on its walk (mm/kalloc.c:93-103).  The merge leaves two     *)
(* locals wrong: block_start, unless the two blocks have one size, and     *)
(* prev_block, which is the merged block itself.  The history variable     *)
(* `intact' is TRUE until one of them is put to use; a behaviour ends      *)
(* there.  kalloc_free_overlap and README.md show what follows.            *)
(***************************************************************************)
EXTENDS Kalloc

CONSTANT MaxCalls                 (* bound on the calls of the allocator *)
ASSUME LazyMergeAssumption == MaxCalls \in Nat

VARIABLES intact, calls

(* Line 96 is about to take the size of the current block off block_start, *)
(* which was moved by the size of the block before.                        *)
MisplacesStart ==
  /\ At("scan") /\ Top.crt_block # NULL /\ Crt.used = 0
  /\ Top.last_free_block # NULL
  /\ node[Top.last_free_block].size # Crt.size

(* cut_block is about to link the left part from the block that is cut.    *)
LinksToItself ==
  At("insert") /\ Top.right = 0 /\ Top.prev_block = Top.crt_block

LazyInit == Init /\ intact = TRUE /\ calls = 0
LazyNext ==
  /\ intact /\ (depth = 0 => calls < MaxCalls)
  /\ Next
  /\ intact' = (~ MisplacesStart /\ ~ LinksToItself)
  /\ calls' = IF depth = 0 THEN calls + 1 ELSE calls
LazySpec == LazyInit /\ [][LazyNext]_<<vars, intact, calls>>

(* In any order of frees, lazy merges of equal blocks included, and as     *)
(* long as neither local is used wrong: the list tiles the region, no      *)
(* struct is leaked or used twice, clients hold disjoint memory clear of   *)
(* the structs, and 0 is returned only when no block fits.                 *)
SoundWhileIntact ==
  intact => BlockTiling /\ FreeChain /\ Exclusive /\ HonestFailure

=============================================================================
