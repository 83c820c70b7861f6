------------------------------ MODULE PhysMem ------------------------------
(***************************************************************************)
(* What the users of mm/kalloc.h rely on, with no list and no structs: an  *)
(* extent is granted to a request only if it lies in the region, at the    *)
(* alignment asked for, clear of the extents of all other requests; it     *)
(* stays as it is until its holder gives it up.                            *)
(***************************************************************************)
EXTENDS Integers

CONSTANTS
  Base,                (* the address alignment is counted from            *)
  First, Last,         (* grants lie in First .. Last - 1                  *)
  Sizes, Aligns,       (* what is asked for; alignment 0 asks for none     *)
  Ids                  (* requests                                         *)

VARIABLE held          (* the extent of each request                       *)

None == [ptr |-> 0, len |-> 0, align |-> 0]

Disjoint(e, f) == e.ptr + e.len <= f.ptr \/ f.ptr + f.len <= e.ptr

Fit(e) ==
  /\ First <= e.ptr /\ e.ptr + e.len <= Last
  /\ e.align # 0 => (e.ptr - Base) % e.align = 0
  /\ \A j \in Ids : held[j] # None => Disjoint(e, held[j])

Init == held = [i \in Ids |-> None]

Grant(i, e) ==
  /\ held[i] = None /\ Fit(e)
  /\ held' = [held EXCEPT ![i] = e]

Release(i) ==
  /\ held[i] # None
  /\ held' = [held EXCEPT ![i] = None]

Requests == [ptr : First .. Last, len : Sizes, align : Aligns]

Next == \E i \in Ids : Release(i) \/ \E e \in Requests : Grant(i, e)

Spec == Init /\ [][Next]_held
=============================================================================
