-------------------------------- MODULE Vector --------------------------------
(***************************************************************************)
(* The growing array of src/src/containers/vector.c, as operators on a     *)
(* value: a list of blocks of which each new one is half as large as all   *)
(* before it together, the block that takes the next element, and the      *)
(* place of that element in it.  Pointers to elements are indices.         *)
(*                                                                         *)
(* "memory" is what a block holds before it is written.  "spoiled" says    *)
(* that an element was written behind the end of a block: the code does    *)
(* not check for it.  vect_insert, vect_remove and vect_clear have no user *)
(* but the string builder's inserts, which nothing calls.                  *)
(***************************************************************************)
EXTENDS Integers, Sequences, SequencesExt

alloc_block(capacity, memory) == [i \in 1 .. capacity |-> memory]

vect_init(capacity, memory) ==
    [blocks |-> <<alloc_block(capacity, memory)>>, current |-> 1, next_insert_index |-> 0,
     capacity |-> capacity, size |-> 0, dynamic |-> FALSE, memory |-> memory, spoiled |-> FALSE]

vect_init_dynamic(capacity, memory) == [vect_init(capacity, memory) EXCEPT !.dynamic = TRUE]

vect_size(v) == v.size
vect_cap(v) == v.capacity

(* The block that holds an index of the whole, and the place in it: the    *)
(* blocks are walked, and their capacities subtracted from the index,      *)
(* until it is smaller than the next one.                                  *)
Before(blocks, b) ==
    LET before[n \in 1 .. Len(blocks) + 1] ==
            IF n = 1 THEN 0 ELSE before[n - 1] + Len(blocks[n - 1])
    IN  before[b]
get_block_from_index(blocks, index) ==
    LET b == CHOOSE b \in DOMAIN blocks :
                 /\ Before(blocks, b) <= index
                 /\ index < Before(blocks, b + 1)
    IN  <<b, index - Before(blocks, b)>>

(* Whether there can be room for n elements *)
CanHold(v, n) == n <= vect_cap(v) \/ v.dynamic

ensure_capacity_Stay(v, n) ==  (* Mutant: the full block goes on taking elements. *)
    IF n <= vect_cap(v) \/ ~v.dynamic
    THEN v
    ELSE [v EXCEPT !.blocks = Append(@, alloc_block(vect_cap(v) \div 2, v.memory)),
                   !.capacity = @ + vect_cap(v) \div 2]
ensure_capacity(v, n) ==
    IF n <= vect_cap(v) \/ ~v.dynamic
    THEN v
    ELSE LET grown == [v EXCEPT !.blocks = Append(SubSeq(@, 1, v.current),
                                                  alloc_block(vect_cap(v) \div 2, v.memory)),
                                 !.capacity = @ + vect_cap(v) \div 2]
         IN  IF v.next_insert_index = Len(v.blocks[v.current])
             THEN [grown EXCEPT !.current = @ + 1, !.next_insert_index = 0]
             ELSE grown

register_addition(v) == [v EXCEPT !.size = @ + 1, !.next_insert_index = @ + 1]

register_removal(v) ==
    IF v.next_insert_index = 0
    THEN [v EXCEPT !.size = @ - 1, !.current = @ - 1,
                   !.next_insert_index = Len(v.blocks[v.current - 1]) - 1]
    ELSE [v EXCEPT !.size = @ - 1, !.next_insert_index = @ - 1]

Written(v, element) ==
    IF v.next_insert_index < Len(v.blocks[v.current])
    THEN [v EXCEPT !.blocks[v.current][v.next_insert_index + 1] = element]
    ELSE [v EXCEPT !.spoiled = TRUE]

(* vect_add does nothing for a static vector that is full. *)
vect_add(v, element) ==
    IF CanHold(v, v.size + 1)
    THEN register_addition(Written(ensure_capacity(v, v.size + 1), element))
    ELSE v

(* vect_reserve, and the caller's write through the pointer it gets *)
vect_reserve(v, element) == vect_add(v, element)

(* vect_ref: NULL is no index. *)
vect_has(v, index) == index \in 0 .. v.size - 1
vect_get(v, index) ==
    LET place == get_block_from_index(v.blocks, index) IN v.blocks[place[1]][place[2] + 1]

(* A write through the pointer that vect_ref returned *)
vect_set(v, index, element) ==
    LET place == get_block_from_index(v.blocks, index)
    IN  [v EXCEPT !.blocks[place[1]][place[2] + 1] = element]

(* What vect_peek and vect_pop read is the slot of the next insertion, and *)
(* not the last element.                                                   *)
vect_peek(v) ==
    IF v.next_insert_index < Len(v.blocks[v.current])
    THEN v.blocks[v.current][v.next_insert_index + 1]
    ELSE v.memory

vect_pop(v) == IF v.size = 0 THEN v ELSE register_removal(v)

(* The elements from the first to the last, as vect_get finds them *)
Elements(v) == [i \in 1 .. v.size |-> vect_get(v, i - 1)]
=============================================================================
