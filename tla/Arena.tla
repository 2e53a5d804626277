--------------------------------- MODULE Arena ---------------------------------
(***************************************************************************)
(* The linear allocator of src/src/memory/arena.c, as operators on a value *)
(* of an arena: the labels of its allocations from the first to the last,  *)
(* and the length that arena_save noted.  A pointer into an arena is the   *)
(* index of the allocation it points to; sizes, alignment and the abort of *)
(* a full arena are left out.                                              *)
(***************************************************************************)
EXTENDS Integers, Sequences

NotSaved == -1  (* ~0, larger than any length *)

arena_create == [blocks |-> <<>>, saved |-> NotSaved]

length(a) == Len(a.blocks)

arena_allocate(a, label) == [a EXCEPT !.blocks = Append(@, label)]

(* Whether a pointer still points to what was allocated there *)
Holds(a, ptr, label) == ptr \in DOMAIN a.blocks /\ a.blocks[ptr] = label

(* arena_free_ptr gives back the allocation at ptr and all later ones, and *)
(* ignores a pointer behind the last one.                                  *)
arena_free_ptr(a, ptr) ==
    IF ptr \in DOMAIN a.blocks
    THEN [a EXCEPT !.blocks = SubSeq(@, 1, ptr - 1)]
    ELSE a

(* A second arena_save keeps the first one.                                *)
arena_save_Replace(a) == [a EXCEPT !.saved = length(a)]  (* Mutant: it replaces it. *)
arena_save(a) == IF a.saved # NotSaved THEN a ELSE [a EXCEPT !.saved = length(a)]

(* arena_restore gives back what was allocated since the save, and forgets *)
(* the save.  Without a save it does nothing.                              *)
arena_restore(a) ==
    [blocks |-> IF a.saved # NotSaved /\ length(a) >= a.saved
                THEN SubSeq(a.blocks, 1, a.saved)
                ELSE a.blocks,
     saved  |-> NotSaved]
=============================================================================
