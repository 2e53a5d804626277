----------------------------- MODULE RingQueue -----------------------------
(***************************************************************************)
(* The fixed-size ring queue of src/src/containers/ring_queue.c, the FIFO  *)
(* behind the event system.  One action per function; the element bytes of *)
(* a slot are one member of Values, and a slot nobody wrote yet holds      *)
(* Garbage, as the arena does not clear the memory it hands out.           *)
(*                                                                         *)
(* Capacity = 0 is allowed: it is the queue of a zero-initialised static   *)
(* EventContext, on which event_trigger can be called before               *)
(* event_system_init (see ServerLifecycle).                                *)
(***************************************************************************)
EXTENDS Naturals, Sequences

CONSTANTS Values,     (* what a slot can be made to hold                      *)
          Garbage,    (* the content of a slot that was never written         *)
          Capacity    (* RingQueue.capacity: the number of slots of the block *)

ASSUME CapacityAssumption == Capacity \in Nat

VARIABLES block,      (* the slots                                      *)
          start,      (* slot of the oldest element                     *)
          end,        (* slot the next element goes to                  *)
          length,     (* number of elements                             *)
          result      (* <<v>> for a call that returned v, <<>> for the *)
                      (* NULL or FALSE of a refused one                 *)

vars == <<block, start, end, length, result>>

Slots == 0 .. Capacity - 1
Content == Values \union {Garbage}

(* rqueue_create *)
Init ==
    /\ block = [i \in Slots |-> Garbage]
    /\ start = 0
    /\ end = 0
    /\ length = 0
    /\ result = <<>>

(* Both rqueue_enqueue and rqueue_reserve hand out the slot at end. *)
TakeEndSlot ==
    /\ end' = (end + 1) % Capacity
    /\ length' = length + 1
    /\ UNCHANGED start

Refuse ==
    /\ result' = <<>>
    /\ UNCHANGED <<block, start, end, length>>

(* Mutant: the test for a full queue is off by one. *)
rqueue_enqueue_OffByOne(v) ==
    \/ /\ length # Capacity + 1
       /\ block' = [block EXCEPT ![end] = v]
       /\ result' = <<v>>
       /\ TakeEndSlot
    \/ length = Capacity + 1 /\ Refuse

rqueue_enqueue(v) ==
    \/ /\ length # Capacity
       /\ block' = [block EXCEPT ![end] = v]
       /\ result' = <<v>>
       /\ TakeEndSlot
    \/ length = Capacity /\ Refuse

(* The slot returned still holds what was in it: the caller fills it later. *)
rqueue_reserve ==
    \/ /\ length # Capacity
       /\ result' = <<block[end]>>
       /\ UNCHANGED block
       /\ TakeEndSlot
    \/ length = Capacity /\ Refuse

(* Mutant: the dequeued element stays the first one of the queue. *)
rqueue_dequeue_NoAdvance ==
    \/ /\ length # 0
       /\ result' = <<block[start]>>
       /\ length' = length - 1
       /\ UNCHANGED <<block, start, end>>
    \/ length = 0 /\ Refuse

rqueue_dequeue ==
    \/ /\ length # 0
       /\ result' = <<block[start]>>
       /\ start' = (start + 1) % Capacity
       /\ length' = length - 1
       /\ UNCHANGED <<block, end>>
    \/ length = 0 /\ Refuse

rqueue_peek ==
    \/ /\ length # 0
       /\ result' = <<block[start]>>
       /\ UNCHANGED <<block, start, end, length>>
    \/ length = 0 /\ Refuse

Next ==
    \/ \E v \in Values : rqueue_enqueue(v)
    \/ rqueue_reserve
    \/ rqueue_dequeue
    \/ rqueue_peek

Spec == Init /\ [][Next]_vars
-----------------------------------------------------------------------------
(* The type of the state: three indices and a count kept by hand. *)
TypeOK ==
    /\ block \in [Slots -> Content]
    /\ start \in Nat /\ end \in Nat
    /\ length \in 0 .. Capacity
    /\ result \in {<<>>} \union {<<v>> : v \in Content}

(* start, end and length, which three functions update separately, stay    *)
(* redundant: end is always length slots after start, around the block, so *)
(* neither end of the queue can drift into the elements of the other.      *)
IndexInv ==
    Capacity > 0 => /\ start \in Slots
                    /\ end = (start + length) % Capacity

(* The elements, oldest first, read around the block from start. *)
Contents == [i \in 1 .. length |-> block[(start + i - 1) % Capacity]]

(* The ring behaves as a bounded FIFO: nothing is lost, duplicated,        *)
(* reordered or overwritten however the indices wrap, and a call is        *)
(* refused exactly when the queue is full (or empty).                      *)
Fifo == INSTANCE BoundedQueue
            WITH Values <- Content, queue <- Contents

ImplementsFifo == Fifo!Spec
=============================================================================
