----------------------------- MODULE ObjectPool -----------------------------
(***************************************************************************)
(* The object pool of src/src/containers/object_pool.c: the table of       *)
(* connections (network_linux.c), of tracked arenas (memory_common.c) and  *)
(* of I/O multiplexers (iomux.c).  A slot is its index; the is_allocated   *)
(* flags are the set `allocated`; the object bytes are abstracted away.    *)
(*                                                                         *)
(* A pool never has more than one data block: objpool_init and             *)
(* objpool_init_dynamic both clear pool->arena, so objpool_is_dynamic is   *)
(* FALSE, ensure_capacity never grows, and PoolCapacity is a constant.     *)
(***************************************************************************)
EXTENDS Integers, FiniteSets

CONSTANTS PoolCapacity, (* ObjectPool.capacity                             *)
          StaleFlags,   (* the slots whose is_allocated byte is not zero   *)
                        (* in the memory alloc_block got: {} for zeroed    *)
                        (* memory                                          *)
          MaxSize       (* bound of the model on ObjectPool.size, which    *)
                        (* grows past the capacity when a live slot is     *)
                        (* handed out again                                *)

ASSUME PoolAssumption ==
    /\ PoolCapacity \in Nat \ {0}
    /\ MaxSize \in Nat
    /\ StaleFlags \subseteq 0 .. PoolCapacity - 1

VARIABLES allocated,  (* the slots whose is_allocated flag is set          *)
          next,       (* next_insert_index: where the next add writes      *)
          size,       (* the count returned by objpool_size                *)
          wasFull     (* history: every slot was allocated at once, since  *)
                      (* the pool was created or last cleared              *)

poolVars == <<allocated, next, size, wasFull>>

PoolSlots == 0 .. PoolCapacity - 1

(* objpool_init, objpool_init_dynamic: the block comes from arena_allocate, *)
(* which does not clear it, and nothing else clears the flags.              *)
PoolInit ==
    /\ allocated = StaleFlags
    /\ next = 0
    /\ size = 0
    /\ wasFull = FALSE

Free(from, alloc) == {i \in PoolSlots : i >= from /\ i \notin alloc}

(* Mutant: the scan stops at the index that was just taken. *)
update_next_available_NoScan(alloc) == UNCHANGED next

(* Mutant: the scan takes any free slot, not the first one. *)
update_next_available_AnyFree(alloc) ==
    \/ Free(next, alloc) = {} /\ UNCHANGED next
    \/ next' \in Free(next, alloc)

(* update_next_available: scan upwards from the current index, and leave   *)
(* the index where it is when everything from there on is allocated.       *)
update_next_available(alloc) ==
    \/ /\ Free(next, alloc) = {}
       /\ UNCHANGED next
    \/ \E i \in Free(next, alloc) :
          /\ \A j \in Free(next, alloc) : i <= j
          /\ next' = i

(* ensure_capacity(pool, next + 1) holds as long as next is a slot; the    *)
(* flag of the slot is set without looking at it.                          *)
objpool_add ==
    /\ size < MaxSize
    /\ next + 1 <= PoolCapacity
    /\ allocated' = allocated \union {next}
    /\ update_next_available(allocated')
    /\ size' = size + 1
    /\ wasFull' = (wasFull \/ allocated' = PoolSlots)

(* Mutant: the size is decremented even when nothing is removed. *)
objpool_remove_NoCheck(idx) ==
    /\ idx \in PoolSlots
    /\ allocated' = allocated \ {idx}
    /\ next' = IF idx < next THEN idx ELSE next
    /\ size' = size - 1
    /\ UNCHANGED wasFull

(* A removal of an index out of range or not allocated returns FALSE.     *)
objpool_remove(idx) ==
    \/ /\ idx \in allocated
       /\ allocated' = allocated \ {idx}
       /\ next' = IF idx < next THEN idx ELSE next
       /\ size' = size - 1
       /\ UNCHANGED wasFull
    \/ /\ idx \notin allocated
       /\ UNCHANGED poolVars

objpool_clear ==
    /\ allocated' = {}
    /\ size' = 0
    /\ next' = 0
    /\ wasFull' = FALSE

(* The indices objpool_foreach reaches: it stops after `size` objects. *)
Visited == {j \in allocated : Cardinality({i \in allocated : i < j}) < size}

PoolNext ==
    \/ objpool_add
    \/ \E idx \in -1 .. PoolCapacity : objpool_remove(idx)
    \/ objpool_clear

PoolSpec == PoolInit /\ [][PoolNext]_poolVars
-----------------------------------------------------------------------------
(* The type of the state; next stays a slot, so ensure_capacity never      *)
(* refuses and objpool_add never returns NULL.                             *)
PoolTypeOK ==
    /\ allocated \subseteq PoolSlots
    /\ next \in PoolSlots
    /\ size \in Nat
    /\ wasFull \in BOOLEAN

(* No hole below the insertion index: a removed slot is found again by the *)
(* upward-only scan of update_next_available.                              *)
NoHoleBelowNext == \A i \in PoolSlots : i < next => i \in allocated

(* The count is never below the number of allocated slots: the removal of  *)
(* a live object never takes the u32 below zero, and objpool_foreach, which *)
(* stops after `size` objects, reaches every one of them.                  *)
SizeCoversAllocated == size >= Cardinality(allocated)
ForeachVisitsAll == Visited = allocated

(* Until the pool has been full once, it is exact: the next add takes a    *)
(* free slot and the count is the number of live objects.                  *)
ExactUntilFull ==
    ~wasFull => next \notin allocated /\ size = Cardinality(allocated)
=============================================================================
