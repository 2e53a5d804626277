-------------------------- MODULE RingQueueProofs --------------------------
(***************************************************************************)
(* RingQueue implements BoundedQueue for every capacity and set of values. *)
(***************************************************************************)
EXTENDS RingQueue, SequenceTheorems, TLAPS

(* The three facts about a slot index that the operations rely on: moving  *)
(* an index by one stays in the block, and commutes with the wrap-around.  *)
LEMMA NextSlot ==
  ASSUME NEW C \in Nat \ {0}, NEW s \in 0 .. C - 1, NEW n \in 0 .. C
  PROVE  /\ (s + n) % C \in 0 .. C - 1
         /\ (((s + n) % C) + 1) % C = (s + (n + 1)) % C
         /\ n > 0 => (s + n) % C = (((s + 1) % C) + (n - 1)) % C
<1>1. CASE s + n + 1 < C
  <2>1. (s + n) % C = s + n /\ (s + n + 1) % C = s + n + 1
    BY <1>1
  <2>2. (s + 1) % C = s + 1
    BY <1>1
  <2>3. QED BY <1>1, <2>1, <2>2
<1>2. CASE s + n + 1 = C
  <2>1. (s + n) % C = s + n /\ (s + n + 1) % C = 0
    BY <1>2
  <2>2. n > 0 => (s + 1) % C = s + 1
    BY <1>2
  <2>3. QED BY <1>2, <2>1, <2>2
<1>3. CASE s + n + 1 > C /\ s + n + 1 < 2 * C
  <2>1. (s + n) % C = s + n - C /\ (s + n + 1) % C = s + n + 1 - C
    BY <1>3
  <2>2. (s + n - C + 1) % C = s + n - C + 1
    BY <1>3
  <2>3. (s + 1) % C = IF s + 1 < C THEN s + 1 ELSE 0
    <3>1. CASE s + 1 < C
      BY <3>1
    <3>2. CASE s + 1 = C
      BY <3>2
    <3>3. QED BY <3>1, <3>2
  <2>4. n > 0 => (((s + 1) % C) + (n - 1)) % C = s + n - C
    <3>1. CASE s + 1 < C
      BY <1>3, <2>1, <2>3, <3>1
    <3>2. CASE s + 1 = C
      <4>1. n > 0 => (n - 1) % C = n - 1
        OBVIOUS
      <4>2. QED BY <2>3, <3>2, <4>1
    <3>3. QED BY <3>1, <3>2
  <2>5. QED BY <1>3, <2>1, <2>2, <2>4
<1>4. CASE s + n + 1 = 2 * C
  <2>1. s = C - 1 /\ n = C
    BY <1>4
  <2>2. (2 * C - 1) % C = C - 1 /\ (2 * C) % C = 0 /\ C % C = 0 /\ (C - 1) % C = C - 1
    OBVIOUS
  <2>3. QED BY <1>4, <2>1, <2>2
<1>5. QED BY <1>1, <1>2, <1>3, <1>4
-----------------------------------------------------------------------------
(* The two conjuncts together are inductive: start stays a slot because    *)
(* the queue is not empty when it moves, end because it is start + length. *)
IInv == TypeOK /\ IndexInv

LEMMA InitIInv == Init => IInv
  BY CapacityAssumption DEF Init, IInv, TypeOK, IndexInv, Slots, Content

LEMMA RefuseIInv == IInv /\ Refuse => IInv'
  BY DEF Refuse, IInv, TypeOK, IndexInv, Slots, Content

LEMMA TakeEndSlotIInv ==
  ASSUME IInv, length # Capacity, TakeEndSlot,
         block' \in [Slots -> Content],
         result' \in {<<v>> : v \in Content}
  PROVE  IInv'
<1>1. Capacity \in Nat \ {0} /\ length + 1 \in 0 .. Capacity /\ start \in 0 .. Capacity - 1
  BY CapacityAssumption DEF IInv, TypeOK, IndexInv, Slots
<1>2. end' = (start + (length + 1)) % Capacity
  BY <1>1, NextSlot DEF IInv, TypeOK, IndexInv, TakeEndSlot
<1>3. end' \in 0 .. Capacity - 1
  BY <1>1, <1>2, NextSlot
<1>4. QED
  BY <1>1, <1>2, <1>3 DEF IInv, TypeOK, IndexInv, TakeEndSlot, Slots

LEMMA NextIInv == IInv /\ [Next]_vars => IInv'
<1> SUFFICES ASSUME IInv, [Next]_vars
             PROVE  IInv'
  OBVIOUS
<1>1. ASSUME NEW v \in Values, rqueue_enqueue(v)
      PROVE  IInv'
  <2>1. CASE length = Capacity /\ Refuse
    BY <2>1, RefuseIInv
  <2>2. CASE length # Capacity
    <3>1. end \in Slots
      BY <2>2, NextSlot, CapacityAssumption DEF IInv, TypeOK, IndexInv, Slots
    <3>2. block' \in [Slots -> Content] /\ result' = <<v>>
      BY <1>1, <2>2 DEF rqueue_enqueue, IInv, TypeOK, Content
    <3>3. QED
      BY <1>1, <2>2, <3>2, TakeEndSlotIInv DEF rqueue_enqueue, Content
  <2>3. QED
    BY <1>1, <2>1, <2>2 DEF rqueue_enqueue
<1>2. ASSUME rqueue_reserve
      PROVE  IInv'
  <2>1. CASE length = Capacity /\ Refuse
    BY <2>1, RefuseIInv
  <2>2. CASE length # Capacity
    <3>1. end \in Slots
      BY <2>2, NextSlot, CapacityAssumption DEF IInv, TypeOK, IndexInv, Slots
    <3>2. block' = block /\ result' = <<block[end]>> /\ block[end] \in Content
      BY <1>2, <2>2, <3>1 DEF rqueue_reserve, IInv, TypeOK
    <3>3. QED
      BY <1>2, <2>2, <3>2, TakeEndSlotIInv DEF rqueue_reserve, IInv, TypeOK
  <2>3. QED
    BY <1>2, <2>1, <2>2 DEF rqueue_reserve
<1>3. ASSUME rqueue_dequeue
      PROVE  IInv'
  <2>1. CASE length = 0 /\ Refuse
    BY <2>1, RefuseIInv
  <2>2. CASE length # 0
    <3>1. Capacity \in Nat \ {0} /\ start \in 0 .. Capacity - 1 /\ length \in 0 .. Capacity
      BY <2>2, CapacityAssumption DEF IInv, TypeOK, IndexInv, Slots
    <3>2. start' \in 0 .. Capacity - 1
      BY <1>3, <2>2, <3>1, NextSlot DEF rqueue_dequeue
    <3>3. end = (start' + (length - 1)) % Capacity
      BY <1>3, <2>2, <3>1, NextSlot DEF rqueue_dequeue, IInv, IndexInv
    <3>4. QED
      BY <1>3, <2>2, <3>1, <3>2, <3>3 DEF rqueue_dequeue, IInv, TypeOK, IndexInv, Slots
  <2>3. QED
    BY <1>3, <2>1, <2>2 DEF rqueue_dequeue
<1>4. ASSUME rqueue_peek
      PROVE  IInv'
  <2>1. CASE length = 0 /\ Refuse
    BY <2>1, RefuseIInv
  <2>2. CASE length # 0
    BY <1>4, <2>2, CapacityAssumption
    DEF rqueue_peek, IInv, TypeOK, IndexInv, Slots
  <2>3. QED
    BY <1>4, <2>1, <2>2 DEF rqueue_peek
<1>5. CASE UNCHANGED vars
  BY <1>5 DEF vars, IInv, TypeOK, IndexInv, Slots
<1>6. QED
  BY <1>1, <1>2, <1>3, <1>4, <1>5 DEF Next

(* TypeOK: every index and count of the ring keeps its range.              *)
THEOREM TypeCorrect == Spec => []TypeOK
<1>1. IInv => TypeOK
  BY DEF IInv
<1>2. QED
  BY <1>1, InitIInv, NextIInv, PTL DEF Spec

(* IndexInv: for every capacity, start, end and length agree for ever.     *)
THEOREM IndicesAgree == Spec => []IndexInv
<1>1. IInv => IndexInv
  BY DEF IInv
<1>2. QED
  BY <1>1, InitIInv, NextIInv, PTL DEF Spec
-----------------------------------------------------------------------------
(* Two offsets below the capacity never meet in the same slot. *)
LEMMA SlotsDistinct ==
  ASSUME NEW C \in Nat \ {0}, NEW s \in 0 .. C - 1,
         NEW n \in 0 .. C - 1, NEW k \in 0 .. n - 1
  PROVE  (s + k) % C # (s + n) % C
<1>1. CASE s + n < C
  <2>1. (s + k) % C = s + k /\ (s + n) % C = s + n
    BY <1>1
  <2>2. QED BY <2>1
<1>2. CASE ~(s + n < C)
  <2>1. (s + n) % C = s + n - C
    BY <1>2
  <2>2. CASE s + k < C
    <3>1. (s + k) % C = s + k
      BY <2>2
    <3>2. QED BY <2>1, <3>1
  <2>3. CASE ~(s + k < C)
    <3>1. (s + k) % C = s + k - C
      BY <2>3
    <3>2. QED BY <2>1, <3>1
  <2>4. QED BY <2>2, <2>3
<1>3. QED BY <1>1, <1>2

LEMMA ContentsSeq ==
  ASSUME IInv
  PROVE  /\ Contents \in Seq(Content)
         /\ Len(Contents) = length
         /\ length # 0 => Head(Contents) = block[start]
         /\ (length = 0) <=> (Contents = <<>>)
<1>1. length \in Nat /\ block \in [Slots -> Content]
  BY CapacityAssumption DEF IInv, TypeOK
<1>2. ASSUME NEW i \in 1 .. length
      PROVE  /\ (start + i - 1) % Capacity \in Slots
             /\ (start + 1 - 1) % Capacity = start
  <2>1. Capacity \in Nat \ {0} /\ start \in 0 .. Capacity - 1 /\ i - 1 \in 0 .. Capacity
    BY <1>2, CapacityAssumption DEF IInv, TypeOK, IndexInv, Slots
  <2>2. (start + (i - 1)) % Capacity \in 0 .. Capacity - 1
    BY <2>1, NextSlot
  <2>3. start + 1 - 1 = start /\ start % Capacity = start /\ start + (i - 1) = start + i - 1
    BY <2>1
  <2>4. QED BY <2>2, <2>3 DEF Slots
<1>3. Contents \in [1 .. length -> Content]
  BY <1>1, <1>2 DEF Contents
<1>4. Contents \in Seq(Content) /\ Len(Contents) = length
  BY <1>1, <1>3
<1>5. length # 0 => Head(Contents) = block[start]
  <2>1. ASSUME length # 0 PROVE Head(Contents) = Contents[1] /\ 1 \in 1 .. length
    BY <1>1, <1>4, <2>1
  <2>2. QED BY <1>2, <2>1 DEF Contents
<1>6. QED BY <1>1, <1>4, <1>5

(* Taking the end slot appends whatever that slot then holds. *)
LEMMA TakeEndAppends ==
  ASSUME IInv, length # Capacity, TakeEndSlot, NEW v \in Content,
         \/ block' = [block EXCEPT ![end] = v]
         \/ block' = block /\ block[end] = v
  PROVE  Contents' = Append(Contents, v)
<1>1. /\ Capacity \in Nat \ {0} /\ start \in 0 .. Capacity - 1
      /\ length \in 0 .. Capacity - 1 /\ block \in [Slots -> Content]
      /\ end = (start + length) % Capacity /\ end \in Slots
  BY CapacityAssumption, NextSlot DEF IInv, TypeOK, IndexInv, Slots
<1>2. length' = length + 1 /\ start' = start
  BY DEF TakeEndSlot
<1>3. Contents' = [i \in 1 .. length + 1 |-> block'[(start + i - 1) % Capacity]]
  BY <1>2 DEF Contents
<1>4. /\ Append(Contents, v) \in Seq(Content) /\ Len(Append(Contents, v)) = length + 1
      /\ \A i \in 1 .. length + 1 :
            Append(Contents, v)[i] = IF i = length + 1 THEN v ELSE Contents[i]
  BY <1>1, ContentsSeq, AppendProperties
<1>5. ASSUME NEW i \in 1 .. length + 1
      PROVE  block'[(start + i - 1) % Capacity] =
               IF i = length + 1 THEN v ELSE Contents[i]
  <2>1. CASE i = length + 1
    <3>1. start + i - 1 = start + length
      BY <1>1, <2>1
    <3>2. QED BY <1>1, <2>1, <3>1
  <2>2. CASE i # length + 1
    <3>1. i - 1 \in 0 .. length - 1 /\ start + i - 1 = start + (i - 1) /\ i \in 1 .. length
      BY <1>1, <2>2
    <3>2. (start + (i - 1)) % Capacity # end
      BY <1>1, <3>1, SlotsDistinct
    <3>3. Contents[i] = block[(start + i - 1) % Capacity]
      BY <3>1 DEF Contents
    <3>4. (start + i - 1) % Capacity # end /\ (start + i - 1) % Capacity \in Slots
      BY <1>1, <3>1, <3>2, NextSlot DEF Slots
    <3>5. block'[(start + i - 1) % Capacity] = block[(start + i - 1) % Capacity]
      BY <1>1, <3>4
    <3>6. QED BY <2>2, <3>3, <3>5
  <2>3. QED BY <2>1, <2>2
<1>6. length + 1 \in Nat /\ \A i \in 1 .. length + 1 : Append(Contents, v)[i] \in Content
  BY <1>1, <1>4, ElementOfSeq
<1>7. \A i \in 1 .. length + 1 : Contents'[i] = Append(Contents, v)[i]
  BY <1>3, <1>4, <1>5
<1>8. Contents' \in [1 .. length + 1 -> Content]
  BY <1>3, <1>6, <1>7
<1>9. Contents' \in Seq(Content) /\ Len(Contents') = length + 1
  BY <1>6, <1>8
<1>10. QED BY <1>4, <1>7, <1>9, SeqEqual

LEMMA DequeueDropsHead ==
  ASSUME IInv, length # 0, rqueue_dequeue
  PROVE  Contents' = Tail(Contents)
<1>1. /\ Capacity \in Nat \ {0} /\ start \in 0 .. Capacity - 1
      /\ length \in 1 .. Capacity
  BY CapacityAssumption DEF IInv, TypeOK, IndexInv, Slots
<1>2. start' = (start + 1) % Capacity /\ length' = length - 1 /\ block' = block
  BY DEF rqueue_dequeue
<1>3. Contents' = [i \in 1 .. length - 1 |-> block[(((start + 1) % Capacity) + i - 1) % Capacity]]
  BY <1>2 DEF Contents
<1>4. /\ Tail(Contents) \in Seq(Content) /\ Len(Tail(Contents)) = length - 1
      /\ \A i \in 1 .. length - 1 : Tail(Contents)[i] = Contents[i + 1]
  BY <1>1, ContentsSeq, HeadTailProperties
<1>5. ASSUME NEW i \in 1 .. length - 1
      PROVE  block[(((start + 1) % Capacity) + i - 1) % Capacity] = Contents[i + 1]
  <2>1. i \in 0 .. Capacity /\ i > 0 /\ i + 1 \in 1 .. length
    BY <1>1
  <2>2. (start + i) % Capacity = (((start + 1) % Capacity) + (i - 1)) % Capacity
    BY <1>1, <2>1, NextSlot
  <2>3. (start + 1) % Capacity \in Nat
    BY <1>1, NextSlot
  <2>4. ((start + 1) % Capacity) + i - 1 = ((start + 1) % Capacity) + (i - 1)
        /\ start + (i + 1) - 1 = start + i
    BY <1>1, <2>3
  <2>5. QED BY <2>1, <2>2, <2>4 DEF Contents
<1>6. length - 1 \in Nat /\ \A i \in 1 .. length - 1 : Tail(Contents)[i] \in Content
  BY <1>1, <1>4, ElementOfSeq
<1>7. \A i \in 1 .. length - 1 : Contents'[i] = Tail(Contents)[i]
  BY <1>3, <1>4, <1>5
<1>8. Contents' \in [1 .. length - 1 -> Content]
  BY <1>3, <1>6, <1>7
<1>9. Contents' \in Seq(Content) /\ Len(Contents') = length - 1
  BY <1>6, <1>8
<1>10. QED BY <1>4, <1>7, <1>9, SeqEqual

(* Every step of the ring is the same step of the FIFO. *)
LEMMA StepSimulation == IInv /\ [Next]_vars => [Fifo!Next]_(Fifo!vars)
<1> SUFFICES ASSUME IInv, [Next]_vars
             PROVE  [Fifo!Next]_(Fifo!vars)
  OBVIOUS
<1> USE DEF Fifo!Next, Fifo!vars
<1>1. ASSUME Refuse
      PROVE  Contents' = Contents /\ result' = <<>>
  BY <1>1 DEF Refuse, Contents
<1>2. ASSUME NEW v \in Values, rqueue_enqueue(v)
      PROVE  Fifo!Enqueue(v) /\ v \in Content
  <2>1. CASE length = Capacity /\ Refuse
    BY <1>1, <2>1, ContentsSeq, CapacityAssumption
    DEF Fifo!Enqueue, Fifo!Enqueued, Content
  <2>2. CASE length # Capacity
    <3>1. Contents' = Append(Contents, v) /\ result' = <<v>> /\ length < Capacity
      BY <1>2, <2>2, TakeEndAppends, CapacityAssumption
      DEF rqueue_enqueue, Content, IInv, TypeOK
    <3>2. QED
      BY <3>1, ContentsSeq DEF Fifo!Enqueue, Fifo!Enqueued, Content
  <2>3. QED BY <1>2, <2>1, <2>2 DEF rqueue_enqueue
<1>3. ASSUME rqueue_reserve
      PROVE  \E v \in Content : Fifo!Enqueue(v)
  <2>1. CASE length = Capacity /\ Refuse
    BY <1>1, <2>1, ContentsSeq, CapacityAssumption
    DEF Fifo!Enqueue, Fifo!Enqueued, Content
  <2>2. CASE length # Capacity
    <3>1. block[end] \in Content /\ length < Capacity
      BY <2>2, NextSlot, CapacityAssumption DEF IInv, TypeOK, IndexInv, Slots
    <3>2. Contents' = Append(Contents, block[end]) /\ result' = <<block[end]>>
      BY <1>3, <2>2, <3>1, TakeEndAppends DEF rqueue_reserve
    <3>3. QED
      BY <3>1, <3>2, ContentsSeq DEF Fifo!Enqueue, Fifo!Enqueued
  <2>3. QED BY <1>3, <2>1, <2>2 DEF rqueue_reserve
<1>4. ASSUME rqueue_dequeue
      PROVE  Fifo!Dequeue
  <2>1. CASE length = 0 /\ Refuse
    BY <1>1, <2>1, ContentsSeq DEF Fifo!Dequeue
  <2>2. CASE length # 0
    BY <1>4, <2>2, ContentsSeq, DequeueDropsHead DEF Fifo!Dequeue, rqueue_dequeue
  <2>3. QED BY <1>4, <2>1, <2>2 DEF rqueue_dequeue
<1>5. ASSUME rqueue_peek
      PROVE  Fifo!Peek
  <2>1. CASE length = 0 /\ Refuse
    BY <1>1, <2>1, ContentsSeq DEF Fifo!Peek
  <2>2. CASE length # 0
    BY <1>5, <2>2, ContentsSeq DEF Fifo!Peek, rqueue_peek, Contents
  <2>3. QED BY <1>5, <2>1, <2>2 DEF rqueue_peek
<1>6. CASE UNCHANGED vars
  BY <1>6 DEF vars, Contents
<1>7. QED
  BY <1>2, <1>3, <1>4, <1>5, <1>6 DEF Next

(* ImplementsFifo: for every capacity and every set of values the ring     *)
(* queue of ring_queue.c is a bounded FIFO queue, wrap-around included.    *)
THEOREM RingImplementsFifo == Spec => ImplementsFifo
<1>1. Init => Fifo!Init
  BY DEF Init, Fifo!Init, Contents
<1>2. QED
  BY <1>1, StepSimulation, InitIInv, NextIInv, PTL
  DEF Spec, ImplementsFifo, Fifo!Spec
=============================================================================
