-------------------------- MODULE ObjectPoolProofs --------------------------
(***************************************************************************)
(* What holds of ObjectPool for every capacity: the insertion index stays  *)
(* a slot with no hole below it, the count never falls below the number of *)
(* live objects, and the pool is exact until it has been full once.        *)
(***************************************************************************)
EXTENDS ObjectPool, FiniteSetTheorems, TLAPS

(* ExactUntilFull needs no strengthening of its own beyond the other parts:*)
(* while a slot was always free, all slots below next are taken, so one    *)
(* from next upwards is free and the scan finds it.                        *)
IInv ==
    /\ PoolTypeOK
    /\ NoHoleBelowNext
    /\ SizeCoversAllocated
    /\ ExactUntilFull
    /\ ~wasFull => allocated # PoolSlots

LEMMA SlotsFinite ==
  ASSUME NEW S, S \subseteq PoolSlots
  PROVE  IsFiniteSet(S) /\ Cardinality(S) \in Nat
<1>1. IsFiniteSet(PoolSlots)
  BY FS_Interval, PoolAssumption DEF PoolSlots
<1>2. QED BY <1>1, FS_Subset, FS_CardinalityType

LEMMA InitIInv ==
  ASSUME StaleFlags = {}
  PROVE  PoolInit => IInv
<1> SUFFICES ASSUME PoolInit PROVE IInv
  OBVIOUS
<1>1. 0 \in PoolSlots
  BY PoolAssumption DEF PoolSlots
<1>2. allocated = {} /\ next = 0 /\ size = 0 /\ wasFull = FALSE
  BY DEF PoolInit
<1>3. Cardinality(allocated) = 0
  BY <1>2, FS_EmptySet
<1>4. PoolTypeOK
  BY <1>1, <1>2 DEF PoolTypeOK
<1>5. NoHoleBelowNext
  BY <1>2 DEF NoHoleBelowNext, PoolSlots
<1>6. SizeCoversAllocated
  BY <1>2, <1>3 DEF SizeCoversAllocated
<1>7. ExactUntilFull
  BY <1>2, <1>3 DEF ExactUntilFull
<1>8. QED
  BY <1>1, <1>2, <1>4, <1>5, <1>6, <1>7 DEF IInv

(* What the scan guarantees, whatever the flags: it never moves down, it   *)
(* jumps over allocated slots only, and it stops at a free slot if there   *)
(* is one.                                                                 *)
LEMMA ScanFindsFirstFree ==
  ASSUME NEW alloc, PoolTypeOK, update_next_available(alloc)
  PROVE  /\ next' \in PoolSlots
         /\ next <= next'
         /\ \A i \in PoolSlots : next <= i /\ i < next' => i \in alloc
         /\ (\E i \in PoolSlots : next <= i /\ i \notin alloc) => next' \notin alloc
<1>1. CASE Free(next, alloc) = {} /\ UNCHANGED next
  BY <1>1 DEF Free, PoolTypeOK, PoolSlots
<1>2. ASSUME NEW i \in Free(next, alloc),
             \A j \in Free(next, alloc) : i <= j, next' = i
      PROVE  /\ next' \in PoolSlots
             /\ next <= next'
             /\ \A k \in PoolSlots : next <= k /\ k < next' => k \in alloc
             /\ next' \notin alloc
  BY <1>2 DEF Free, PoolTypeOK, PoolSlots
<1>3. QED
  BY <1>1, <1>2 DEF update_next_available

LEMMA AddIInv == IInv /\ objpool_add => IInv'
<1> SUFFICES ASSUME IInv, objpool_add PROVE IInv'
  OBVIOUS
<1> USE DEF IInv
<1>1. /\ next' \in PoolSlots
      /\ next <= next'
      /\ \A i \in PoolSlots : next <= i /\ i < next' => i \in allocated'
      /\ (\E i \in PoolSlots : next <= i /\ i \notin allocated') => next' \notin allocated'
  BY ScanFindsFirstFree DEF objpool_add
<1>2. allocated' = allocated \union {next} /\ size' = size + 1
  BY DEF objpool_add
<1>3. Cardinality(allocated') =
        IF next \in allocated THEN Cardinality(allocated) ELSE Cardinality(allocated) + 1
  BY <1>2, SlotsFinite, FS_AddElement DEF PoolTypeOK
<1>4. PoolTypeOK'
  BY <1>1, <1>2 DEF PoolTypeOK, objpool_add
<1>5. NoHoleBelowNext'
  BY <1>1, <1>2 DEF NoHoleBelowNext, PoolTypeOK, PoolSlots
<1>6. SizeCoversAllocated'
  BY <1>2, <1>3, SlotsFinite DEF SizeCoversAllocated, PoolTypeOK
<1>7. ~wasFull' => allocated' # PoolSlots
  BY DEF objpool_add
<1>8. ExactUntilFull'
  <2> SUFFICES ASSUME ~wasFull' PROVE (next \notin allocated /\ size = Cardinality(allocated))'
    BY DEF ExactUntilFull
  <2>1. ~wasFull
    BY DEF objpool_add, PoolTypeOK
  <2>2. PICK i \in PoolSlots : i \notin allocated'
    BY <1>4, <1>7 DEF PoolTypeOK
  <2>3. next <= i
    BY <1>2, <2>2 DEF NoHoleBelowNext, PoolTypeOK, PoolSlots
  <2>4. next' \notin allocated'
    BY <1>1, <2>2, <2>3
  <2>5. size' = Cardinality(allocated')
    BY <1>2, <1>3, <2>1 DEF ExactUntilFull
  <2>6. QED BY <2>4, <2>5
<1>9. QED BY <1>4, <1>5, <1>6, <1>7, <1>8

LEMMA RemoveIInv ==
  ASSUME NEW idx \in -1 .. PoolCapacity
  PROVE  IInv /\ objpool_remove(idx) => IInv'
<1> SUFFICES ASSUME IInv, objpool_remove(idx) PROVE IInv'
  OBVIOUS
<1> USE DEF IInv
<1>1. CASE UNCHANGED poolVars
  BY <1>1
  DEF poolVars, PoolTypeOK, NoHoleBelowNext, SizeCoversAllocated, ExactUntilFull
<1>2. CASE idx \in allocated
  <2>1. /\ allocated' = allocated \ {idx} /\ size' = size - 1
        /\ next' = IF idx < next THEN idx ELSE next
        /\ wasFull' = wasFull
    BY <1>2 DEF objpool_remove
  <2>2. /\ Cardinality(allocated') = Cardinality(allocated) - 1
        /\ Cardinality(allocated') \in Nat
    BY <1>2, <2>1, SlotsFinite, FS_RemoveElement, FS_CardinalityType DEF PoolTypeOK
  <2>3. Cardinality(allocated) \in Nat
    BY SlotsFinite DEF PoolTypeOK
  <2>4. PoolTypeOK'
    BY <1>2, <2>1, <2>2, <2>3 DEF PoolTypeOK, SizeCoversAllocated
  <2>5. NoHoleBelowNext'
    BY <1>2, <2>1 DEF NoHoleBelowNext, PoolTypeOK, PoolSlots
  <2>6. SizeCoversAllocated'
    BY <2>1, <2>2, <2>3 DEF SizeCoversAllocated, PoolTypeOK
  <2>7. ExactUntilFull' /\ allocated' # PoolSlots
    BY <1>2, <2>1, <2>2, <2>3 DEF ExactUntilFull, PoolTypeOK
  <2>8. QED BY <2>4, <2>5, <2>6, <2>7
<1>3. QED
  BY <1>1, <1>2 DEF objpool_remove

LEMMA ClearIInv == objpool_clear => IInv'
<1> SUFFICES ASSUME objpool_clear PROVE IInv'
  OBVIOUS
<1>1. 0 \in PoolSlots
  BY PoolAssumption DEF PoolSlots
<1>2. allocated' = {} /\ next' = 0 /\ size' = 0 /\ wasFull' = FALSE
  BY DEF objpool_clear
<1>3. Cardinality(allocated') = 0
  BY <1>2, FS_EmptySet
<1>4. PoolTypeOK'
  BY <1>1, <1>2 DEF PoolTypeOK
<1>5. NoHoleBelowNext'
  BY <1>2 DEF NoHoleBelowNext, PoolSlots
<1>6. SizeCoversAllocated'
  BY <1>2, <1>3 DEF SizeCoversAllocated
<1>7. ExactUntilFull'
  BY <1>2, <1>3 DEF ExactUntilFull
<1>8. QED
  BY <1>1, <1>2, <1>4, <1>5, <1>6, <1>7 DEF IInv

LEMMA NextIInv == IInv /\ [PoolNext]_poolVars => IInv'
<1> SUFFICES ASSUME IInv, [PoolNext]_poolVars PROVE IInv'
  OBVIOUS
<1>1. CASE objpool_add
  BY <1>1, AddIInv
<1>2. ASSUME NEW idx \in -1 .. PoolCapacity, objpool_remove(idx)
      PROVE  IInv'
  BY <1>2, RemoveIInv
<1>3. CASE objpool_clear
  BY <1>3, ClearIInv
<1>4. CASE UNCHANGED poolVars
  BY <1>4
  DEF poolVars, IInv, PoolTypeOK, NoHoleBelowNext, SizeCoversAllocated, ExactUntilFull
<1>5. QED BY <1>1, <1>2, <1>3, <1>4 DEF PoolNext

LEMMA IInvHolds ==
  ASSUME StaleFlags = {}
  PROVE  PoolSpec => []IInv
<1>1. PoolInit => IInv
  BY InitIInv
<1>2. QED BY <1>1, NextIInv, PTL DEF PoolSpec

(* PoolTypeOK: in particular next_insert_index is always a slot, so the test   *)
(* ensure_capacity(pool, index + 1) of objpool_add never fails.            *)
THEOREM TypeCorrect ==
  ASSUME StaleFlags = {}
  PROVE  PoolSpec => []PoolTypeOK
<1>1. IInv => PoolTypeOK
  BY DEF IInv
<1>2. PoolSpec => []IInv
  BY IInvHolds
<1>3. QED BY <1>1, <1>2, PTL

(* NoHoleBelowNext: the upward scan never misses a freed slot below it.    *)
THEOREM NoHole ==
  ASSUME StaleFlags = {}
  PROVE  PoolSpec => []NoHoleBelowNext
<1>1. IInv => NoHoleBelowNext
  BY DEF IInv
<1>2. PoolSpec => []IInv
  BY IInvHolds
<1>3. QED BY <1>1, <1>2, PTL

(* SizeCoversAllocated: objpool_size never undercounts the live objects.   *)
THEOREM SizeNeverUndercounts ==
  ASSUME StaleFlags = {}
  PROVE  PoolSpec => []SizeCoversAllocated
<1>1. IInv => SizeCoversAllocated
  BY DEF IInv
<1>2. PoolSpec => []IInv
  BY IInvHolds
<1>3. QED BY <1>1, <1>2, PTL

(* ExactUntilFull: the pool is a correct allocator until it is full.       *)
THEOREM ExactUntilFullHolds ==
  ASSUME StaleFlags = {}
  PROVE  PoolSpec => []ExactUntilFull
<1>1. IInv => ExactUntilFull
  BY DEF IInv
<1>2. PoolSpec => []IInv
  BY IInvHolds
<1>3. QED BY <1>1, <1>2, PTL

(* Fewer objects lie below an object than there are: the scan of foreach   *)
(* has not counted them all when it gets there.                            *)
LEMMA CountedSoFar ==
  ASSUME PoolTypeOK, NEW j \in allocated
  PROVE  Cardinality({i \in allocated : i < j}) < Cardinality(allocated)
<1> DEFINE Below == {i \in allocated : i < j}
<1>1. IsFiniteSet(allocated)
  BY SlotsFinite DEF PoolTypeOK
<1>2. j \in Int /\ Below \subseteq allocated /\ j \notin Below
  BY DEF PoolTypeOK, PoolSlots
<1>3. Cardinality(Below) < Cardinality(allocated)
  BY <1>1, <1>2, FS_Subset, FS_CardinalityType
<1>4. QED BY <1>3

(* ForeachVisitsAll: objpool_foreach, which stops after as many objects as *)
(* the pool counts, leaves none of them out.                               *)
THEOREM ForeachLeavesNoneOut ==
  ASSUME StaleFlags = {}
  PROVE  PoolSpec => []ForeachVisitsAll
<1>1. IInv => ForeachVisitsAll
  <2> SUFFICES ASSUME IInv, NEW j \in allocated
               PROVE  Cardinality({i \in allocated : i < j}) < size
    BY DEF ForeachVisitsAll, Visited
  <2>1. Cardinality({i \in allocated : i < j}) < Cardinality(allocated)
    BY CountedSoFar DEF IInv
  <2>2. /\ Cardinality(allocated) \in Nat /\ size \in Nat /\ Cardinality(allocated) <= size
        /\ Cardinality({i \in allocated : i < j}) \in Nat
    BY SlotsFinite DEF IInv, PoolTypeOK, SizeCoversAllocated
  <2>3. QED BY <2>1, <2>2
<1>2. PoolSpec => []IInv
  BY IInvHolds
<1>3. QED BY <1>1, <1>2, PTL
=============================================================================
