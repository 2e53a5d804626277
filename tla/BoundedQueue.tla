---------------------------- MODULE BoundedQueue ----------------------------
(***************************************************************************)
(* What the ring queue of src/src/containers/ring_queue.h promises its     *)
(* callers: a first-in first-out queue of at most Capacity elements, whose *)
(* operations report whether they did something.  RingQueue implements     *)
(* this module, EventSystem uses its operators for the queue of triggered  *)
(* events.                                                                 *)
(***************************************************************************)
EXTENDS Naturals, Sequences

CONSTANTS Values,    (* what a slot of the queue can hold *)
          Capacity   (* how many elements fit             *)

VARIABLES queue,     (* the elements, oldest first                          *)
          result     (* what the last call returned: <<v>>, or <<>> for the *)
                     (* FALSE or NULL of a call that did nothing            *)

vars == <<queue, result>>

(* The queue after an enqueue of v, with room for c elements: a full queue *)
(* stays as it is.                                                         *)
Enqueued(q, v, c) == IF Len(q) < c THEN Append(q, v) ELSE q

Init == queue = <<>> /\ result = <<>>

Enqueue(v) ==
    /\ queue' = Enqueued(queue, v, Capacity)
    /\ result' = IF Len(queue) < Capacity THEN <<v>> ELSE <<>>

Dequeue ==
    \/ /\ queue # <<>>
       /\ queue' = Tail(queue)
       /\ result' = <<Head(queue)>>
    \/ /\ queue = <<>>
       /\ result' = <<>>
       /\ UNCHANGED queue

Peek ==
    /\ result' = IF queue = <<>> THEN <<>> ELSE <<Head(queue)>>
    /\ UNCHANGED queue

Next ==
    \/ \E v \in Values : Enqueue(v)
    \/ Dequeue
    \/ Peek

Spec == Init /\ [][Next]_vars
=============================================================================
