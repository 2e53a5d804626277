--------------------------- MODULE ByteBufferProofs ---------------------------
(***************************************************************************)
(* ByteBuffer is ByteFifo for every capacity and size of a chunk, but for  *)
(* what it does at the end of the storage.                                 *)
(***************************************************************************)
EXTENDS ByteBuffer, FiniteSetTheorems, SequenceTheorems, TLAPS

TypeInv ==
    /\ buf \in [Slots -> Content]
    /\ read_head \in Slots /\ write_head \in Slots
    /\ size \in 0 .. Capacity
    /\ user \in Users
    /\ stage \in {"body", "prefixed", "complete", "copied"}

(* The write head is size bytes behind the read head.                      *)
HeadsInv == write_head = (read_head + size) % Capacity

(* The body of a packet starts at the start of the storage, its prefixes   *)
(* end at the end: neither is ever written across the end.                 *)
ScratchInv ==
    user = "scratch" =>
        IF stage = "body"
        THEN read_head = 0
        ELSE read_head + size = Capacity + write_head

IInv == TypeInv /\ HeadsInv /\ ScratchInv
-----------------------------------------------------------------------------
(* A position that ran over the end once goes on at the start.             *)
LEMMA Wrap ==
  ASSUME NEW C \in Nat \ {0}, NEW x \in Nat, x < 2 * C
  PROVE  x % C = (IF x < C THEN x ELSE x - C) /\ x % C \in 0 .. C - 1
<1>1. CASE x < C
  BY <1>1
<1>2. CASE x >= C
  <2>1. x - C \in Nat /\ x - C < C /\ x = C * 1 + (x - C)
    BY <1>2
  <2>2. x % C = x - C
    BY <2>1
  <2>3. QED BY <1>2, <2>1, <2>2
<1>3. QED BY <1>1, <1>2

(* The slot of the i-th byte behind a slot                                 *)
Behind(from, i) == (from + i - 1) % Capacity

LEMMA BehindIsSlot ==
  ASSUME NEW from \in Slots, NEW i \in 1 .. Capacity
  PROVE  /\ Behind(from, i) \in Slots
         /\ Behind(from, i) = IF from + i - 1 < Capacity THEN from + i - 1
                              ELSE from + i - 1 - Capacity
<1> DEFINE x == from + i - 1
<1>1. x \in Nat /\ x < 2 * Capacity /\ Capacity \in Nat \ {0}
  BY BufferAssumption DEF Slots
<1>2. (from + i - 1) % Capacity = x % Capacity
  OBVIOUS
<1> HIDE DEF x
<1>3. /\ x % Capacity = (IF x < Capacity THEN x ELSE x - Capacity)
      /\ x % Capacity \in 0 .. Capacity - 1
  BY <1>1, Wrap
<1>4. Behind(from, i) = x % Capacity /\ Slots = 0 .. Capacity - 1
  BY <1>2 DEF Behind, Slots
<1> HIDE DEF Behind
<1>5. QED BY <1>1, <1>3, <1>4 DEF x

(* The slot behind n bytes                                                 *)
LEMMA HeadIsSlot ==
  ASSUME NEW from \in Slots, NEW n \in 0 .. Capacity
  PROVE  /\ (from + n) % Capacity \in Slots
         /\ (from + n) % Capacity = IF from + n < Capacity THEN from + n
                                   ELSE from + n - Capacity
<1> DEFINE x == from + n
<1>1. x \in Nat /\ x < 2 * Capacity /\ Capacity \in Nat \ {0}
  BY BufferAssumption DEF Slots
<1>2. (from + n) % Capacity = x % Capacity
  OBVIOUS
<1> HIDE DEF x
<1>3. /\ x % Capacity = (IF x < Capacity THEN x ELSE x - Capacity)
      /\ x % Capacity \in 0 .. Capacity - 1
  BY <1>1, Wrap
<1>4. QED BY <1>1, <1>2, <1>3 DEF Slots, x

(* Different bytes of a buffer are in different slots.                     *)
LEMMA BehindDistinct ==
  ASSUME NEW from \in Slots, NEW i \in 1 .. Capacity, NEW j \in 1 .. Capacity,
         Behind(from, i) = Behind(from, j)
  PROVE  i = j
<1>1. from \in 0 .. Capacity - 1 /\ Capacity \in Nat \ {0}
  BY BufferAssumption DEF Slots
<1> HIDE DEF Behind
<1>2. QED BY <1>1, BehindIsSlot

(* The i-th byte behind the n-th is the n+i-th.                            *)
LEMMA BehindAdds ==
  ASSUME NEW from \in Slots, NEW n \in 0 .. Capacity, NEW i \in 1 .. Capacity, n + i <= Capacity
  PROVE  /\ (from + n) % Capacity \in Slots
         /\ Behind((from + n) % Capacity, i) = Behind(from, n + i)
<1>1. from \in 0 .. Capacity - 1 /\ Capacity \in Nat \ {0} /\ n + i \in 1 .. Capacity
  BY BufferAssumption DEF Slots
<1>2. /\ (from + n) % Capacity \in 0 .. Capacity - 1
      /\ (from + n) % Capacity = IF from + n < Capacity THEN from + n ELSE from + n - Capacity
  BY <1>1, HeadIsSlot DEF Slots
<1> HIDE DEF Behind
<1> DEFINE next == (from + n) % Capacity
<1>3. Behind(next, i) = IF next + i - 1 < Capacity THEN next + i - 1 ELSE next + i - 1 - Capacity
  BY <1>2, BehindIsSlot DEF Slots
<1>4. Behind(from, n + i) = IF from + (n + i) - 1 < Capacity THEN from + (n + i) - 1
                            ELSE from + (n + i) - 1 - Capacity
  BY <1>1, BehindIsSlot DEF Slots
<1> HIDE DEF next
<1>5. QED BY <1>1, <1>2, <1>3, <1>4 DEF next, Slots

(* The first total slots of the regions of total bytes are those behind    *)
(* from; there are others if the two heads are equal, but not at 0.        *)
LEMMA RegionsInOrder ==
  ASSUME NEW from \in Slots, NEW total \in 0 .. Capacity,
         NEW to, to = (from + total) % Capacity
  PROVE  LET slots == get_regions(from, to, total)
         IN  /\ slots \in Seq(Int)
             /\ Len(slots) >= total
             /\ total < Capacity \/ from = 0 => Len(slots) = total
             /\ total = Capacity /\ from # 0 => Len(slots) > total
             /\ \A i \in 1 .. total : slots[i] = Behind(from, i)
<1> DEFINE slots == get_regions(from, to, total)
           n == RegionSize(from, to, from)
           second == (from + n) % Capacity
           more == RegionSize(from, to, second)
<1>1. from \in 0 .. Capacity - 1 /\ Capacity \in Nat \ {0}
  BY BufferAssumption DEF Slots
<1>2. to = (IF from + total < Capacity THEN from + total ELSE from + total - Capacity)
  BY <1>1, HeadIsSlot
<1>3. ASSUME NEW i \in 1 .. total
      PROVE  Behind(from, i) = IF from + i - 1 < Capacity THEN from + i - 1
                               ELSE from + i - 1 - Capacity
  BY <1>1, BehindIsSlot DEF Slots
<1>4. CASE total = 0
  <2>1. n \in Nat
    BY <1>1, <1>2, <1>4 DEF RegionSize
  <2>2. slots = <<>>
    BY <1>4, <2>1 DEF get_regions
  <2> HIDE DEF slots
  <2>3. slots \in Seq(Int) /\ Len(slots) = 0 /\ 1 .. total = {}
    BY <1>4, <2>2
  <2>4. QED BY <1>1, <1>4, <2>3 DEF slots
<1>5. CASE total > 0 /\ from + total <= Capacity
  <2>1. n = total
    <3>1. CASE from + total < Capacity
      <4>1. to = from + total /\ from < to
        BY <1>1, <1>2, <1>5, <3>1
      <4>2. QED BY <1>1, <4>1 DEF RegionSize
    <3>2. CASE from + total = Capacity
      <4>1. to = 0 /\ (from = to \/ (from > to /\ from >= from))
        BY <1>1, <1>2, <3>2
      <4>2. n = Capacity - from
        BY <1>1, <4>1 DEF RegionSize
      <4>3. QED BY <1>1, <3>2, <4>2
    <3>3. QED BY <1>1, <1>5, <3>1, <3>2
  <2>2. slots = Region(from, total)
    BY <1>5, <2>1 DEF get_regions
  <2>3. QED BY <1>1, <1>3, <1>5, <2>2 DEF Region
<1>6. CASE total > 0 /\ from + total > Capacity
  <2>1. n = Capacity - from /\ n < total /\ n \in Nat
    BY <1>1, <1>2, <1>6 DEF RegionSize
  <2>2. second = 0
    BY <1>1, <2>1
  <2>3. /\ more \in Nat /\ more >= total - n
        /\ total < Capacity => more = total - n
        /\ total = Capacity => more = Capacity
    <3>1. CASE from = to
      <4>1. more = Capacity /\ total = Capacity
        BY <1>1, <1>2, <1>6, <2>2, <3>1 DEF RegionSize
      <4>2. QED BY <1>1, <2>1, <4>1
    <3>2. CASE from > to
      <4>1. more = to /\ to = from + total - Capacity /\ total < Capacity
        BY <1>1, <1>2, <1>6, <2>2, <3>2 DEF RegionSize
      <4>2. QED BY <1>1, <1>6, <2>1, <4>1
    <3>3. QED BY <1>1, <1>2, <1>6, <3>1, <3>2
  <2>4. slots = Region(from, n) \o Region(0, more)
    BY <1>6, <2>1, <2>2 DEF get_regions
  <2> HIDE DEF n, more, slots
  <2> DEFINE one == Region(from, n)
             two == Region(0, more)
  <2>5. /\ one \in Seq(Int) /\ Len(one) = n /\ \A i \in 1 .. n : one[i] = from + i - 1
        /\ two \in Seq(Int) /\ Len(two) = more /\ \A i \in 1 .. more : two[i] = i - 1
    BY <1>1, <2>1, <2>3 DEF Region
  <2> HIDE DEF one, two
  <2>6. /\ slots \in Seq(Int) /\ Len(slots) = n + more
        /\ \A i \in 1 .. n + more : slots[i] = IF i <= n THEN one[i] ELSE two[i - n]
    <3>1. /\ one \o two \in Seq(Int) /\ Len(one \o two) = n + more
          /\ \A i \in 1 .. n + more : (one \o two)[i] = IF i <= n THEN one[i] ELSE two[i - n]
      BY <2>5, ConcatProperties
    <3>2. slots = one \o two
      BY <2>4 DEF one, two
    <3>3. QED BY <3>1, <3>2
  <2>7. ASSUME NEW i \in 1 .. total
        PROVE  slots[i] = Behind(from, i)
    <3>1. CASE i <= n
      <4>1. i \in 1 .. n /\ i \in 1 .. n + more
        BY <2>1, <2>3, <3>1
      <4>2. slots[i] = one[i] /\ one[i] = from + i - 1
        BY <2>5, <2>6, <3>1, <4>1
      <4>3. from + i - 1 < Capacity
        BY <1>1, <2>1, <3>1
      <4>4. QED BY <1>3, <4>2, <4>3
    <3>2. CASE i > n
      <4>1. i - n \in 1 .. more /\ i \in 1 .. n + more
        BY <2>1, <2>3, <3>2
      <4>2. slots[i] = i - n - 1 /\ ~(from + i - 1 < Capacity)
        BY <1>1, <2>1, <2>5, <2>6, <3>2, <4>1
      <4>3. QED BY <1>1, <1>3, <2>1, <4>2
    <3>3. QED BY <2>1, <3>1, <3>2
  <2>8. QED BY <1>1, <1>6, <2>1, <2>3, <2>6, <2>7 DEF slots
<1>7. QED BY <1>1, <1>4, <1>5, <1>6
-----------------------------------------------------------------------------
(* What a write leaves in the storage: each slot written to holds its      *)
(* byte, the others are as they were.                                      *)
LEMMA ScatterWrites ==
  ASSUME NEW data \in Seq(Bytes), NEW slots,
         buf \in [Slots -> Content],
         \A i \in 1 .. Len(data) : slots[i] \in Slots,
         \A i, j \in 1 .. Len(data) : slots[i] = slots[j] => i = j
  PROVE  /\ Scatter(data, slots) \in [Slots -> Content]
         /\ \A i \in 1 .. Len(data) : Scatter(data, slots)[slots[i]] = <<data[i], 0>>
         /\ \A s \in Slots : (\A i \in 1 .. Len(data) : slots[i] # s) =>
               Scatter(data, slots)[s] = buf[s]
<1> DEFINE at(s) == CHOOSE i \in DOMAIN data : slots[i] = s
<1>1. DOMAIN data = 1 .. Len(data)
  OBVIOUS
<1>2. ASSUME NEW s \in Slots, \E i \in DOMAIN data : slots[i] = s
      PROVE  at(s) \in DOMAIN data /\ slots[at(s)] = s
  BY <1>2
<1>3. ASSUME NEW i \in 1 .. Len(data)
      PROVE  at(slots[i]) = i
  BY <1>1, <1>2, <1>3
<1>4. Scatter(data, slots) =
         [s \in Slots |-> IF \E i \in DOMAIN data : slots[i] = s
                          THEN <<data[at(s)], 0>> ELSE buf[s]]
  BY DEF Scatter
<1> HIDE DEF at
<1>5. \A i \in 1 .. Len(data) : Scatter(data, slots)[slots[i]] = <<data[i], 0>>
  BY <1>1, <1>3, <1>4
<1>6. \A s \in Slots : (\A i \in 1 .. Len(data) : slots[i] # s) =>
               Scatter(data, slots)[s] = buf[s]
  BY <1>1, <1>4
<1>7. ASSUME NEW s \in Slots
      PROVE  (IF \E i \in DOMAIN data : slots[i] = s
              THEN <<data[at(s)], 0>> ELSE buf[s]) \in Content
  BY <1>1, <1>2, <1>7 DEF Content
<1>8. QED BY <1>4, <1>5, <1>6, <1>7

(* b is what the storage c becomes when data is written behind a slot.     *)
Written(b, c, data, from) ==
    /\ \A i \in 1 .. Len(data) : b[Behind(from, i)] = <<data[i], 0>>
    /\ \A s \in Slots : (\A i \in 1 .. Len(data) : Behind(from, i) # s) => b[s] = c[s]

(* A write leaves as many bytes as it was given behind a slot, and up to   *)
(* the end of the storage it is those.                                     *)
LEMMA WriteLeaves ==
  ASSUME NEW data \in Seq(Bytes), NEW position \in Slots,
         buf \in [Slots -> Content], Len(data) <= Capacity
  PROVE  /\ write_at_position(data, position) \in [Slots -> Content]
         /\ \E left \in Seq(Bytes) :
               /\ Len(left) = Len(data)
               /\ \A i \in 1 .. Len(data) : i <= Capacity - position => left[i] = data[i]
               /\ Written(write_at_position(data, position), buf, left, position)
<1> DEFINE n == Len(data)
           writable == Capacity - position
           slots == [i \in 1 .. n |-> (position + i - 1) % Capacity]
           left == [i \in 1 .. n |-> IF i <= writable THEN data[i] ELSE data[i - writable]]
<1>1. /\ Capacity \in Nat \ {0} /\ position \in 0 .. Capacity - 1 /\ DOMAIN data = 1 .. n
      /\ n \in Nat /\ n <= Capacity /\ writable \in Nat \ {0}
  BY BufferAssumption DEF Slots
<1>2. write_at_position(data, position) = Scatter(left, slots)
  BY <1>1 DEF write_at_position
<1>3. \A i \in 1 .. n : left[i] \in Bytes
  <2>1. \A i \in 1 .. n : i > writable => i - writable \in 1 .. n
    BY <1>1
  <2> HIDE DEF writable, n
  <2>2. \A i \in 1 .. n : data[i] \in Bytes
    BY <1>1
  <2>3. \A i \in 1 .. n : i <= writable \/ i > writable
    BY <1>1
  <2>4. QED BY <2>1, <2>2, <2>3
<1>4. /\ left \in Seq(Bytes) /\ Len(left) = n
      /\ \A i \in 1 .. n : i <= writable => left[i] = data[i]
  BY <1>1, <1>3
<1>5. \A i \in 1 .. n : slots[i] = Behind(position, i) /\ i \in 1 .. Capacity
  BY <1>1 DEF Behind
<1> HIDE DEF slots, left, Behind, n
<1>6. \A i \in 1 .. n : slots[i] \in Slots
  BY <1>5, BehindIsSlot
<1>7. \A i, j \in 1 .. n : slots[i] = slots[j] => i = j
  BY <1>5, BehindDistinct
<1>8. /\ Scatter(left, slots) \in [Slots -> Content]
      /\ Written(Scatter(left, slots), buf, left, position)
  BY <1>4, <1>5, <1>6, <1>7, ScatterWrites DEF Written
<1>9. QED BY <1>2, <1>4, <1>8 DEF n

(* A write that does not straddle the end of the storage                   *)
LEMMA WriteInOnePiece ==
  ASSUME NEW data \in Seq(Bytes), NEW position \in Slots,
         buf \in [Slots -> Content],
         position + Len(data) <= Capacity
  PROVE  /\ write_at_position(data, position) \in [Slots -> Content]
         /\ Written(write_at_position(data, position), buf, data, position)
<1>1. /\ Capacity \in Nat \ {0} /\ position \in 0 .. Capacity - 1 /\ Len(data) \in Nat
      /\ Len(data) <= Capacity
      /\ \A i \in 1 .. Len(data) : i <= Capacity - position
  BY BufferAssumption DEF Slots
<1>2. PICK left \in Seq(Bytes) :
         /\ Len(left) = Len(data)
         /\ \A i \in 1 .. Len(data) : left[i] = data[i]
         /\ Written(write_at_position(data, position), buf, left, position)
  BY <1>1, WriteLeaves
<1>3. left = data
  BY <1>2, SeqEqual
<1>4. QED BY <1>1, <1>2, <1>3, WriteLeaves
-----------------------------------------------------------------------------
LEMMA Parameters ==
  Capacity \in Nat \ {0} /\ MaxChunk \in Nat \ {0} /\ MaxChunk <= Capacity
  BY BufferAssumption

LEMMA ChunkIsSequence ==
  ASSUME NEW data \in Chunks
  PROVE  data \in Seq(Bytes) /\ Len(data) \in Nat \ {0} /\ DOMAIN data = 1 .. Len(data)
  BY Parameters DEF Chunks

(* Moving a head twice is moving it once by the sum.                       *)
LEMMA HeadAdds ==
  ASSUME NEW from \in Slots, NEW n \in Nat, NEW m \in Nat, n + m <= Capacity
  PROVE  (((from + n) % Capacity) + m) % Capacity = (from + (n + m)) % Capacity
<1> DEFINE next == (from + n) % Capacity
<1>1. /\ n \in 0 .. Capacity /\ m \in 0 .. Capacity /\ n + m \in 0 .. Capacity
      /\ Capacity \in Nat \ {0} /\ from \in 0 .. Capacity - 1
  BY Parameters DEF Slots
<1>2. /\ next \in 0 .. Capacity - 1
      /\ next = IF from + n < Capacity THEN from + n ELSE from + n - Capacity
  BY <1>1, HeadIsSlot DEF Slots
<1> HIDE DEF next
<1>3. (next + m) % Capacity = IF next + m < Capacity THEN next + m ELSE next + m - Capacity
  BY <1>1, <1>2, HeadIsSlot DEF Slots
<1> DEFINE k == n + m
<1>4. k \in 0 .. Capacity /\ k = n + m
  BY <1>1
<1> HIDE DEF k
<1>5. (from + k) % Capacity = IF from + k < Capacity THEN from + k ELSE from + k - Capacity
  BY <1>4, HeadIsSlot
<1>6. (next + m) % Capacity = (from + k) % Capacity
  BY <1>1, <1>2, <1>3, <1>4, <1>5
<1>7. QED BY <1>6 DEF next, k

(* The n bytes that a storage holds behind a slot                          *)
Held(b, from, n) == [i \in 1 .. n |-> b[Behind(from, i)]]

LEMMA HeldIsSequence ==
  ASSUME NEW b \in [Slots -> Content], NEW from \in Slots, NEW n \in Nat, n <= Capacity
  PROVE  /\ Held(b, from, n) \in Seq(Content) /\ Len(Held(b, from, n)) = n
         /\ \A i \in 1 .. n : Held(b, from, n)[i] = b[Behind(from, i)]
<1>1. \A i \in 1 .. n : i \in 1 .. Capacity
  BY Parameters
<1> HIDE DEF Behind
<1>2. \A i \in 1 .. n : b[Behind(from, i)] \in Content
  BY <1>1, BehindIsSlot
<1>3. QED BY <1>2 DEF Held

(* Where a head is after n more bytes                                      *)
Ahead(from, n) == (from + n) % Capacity

(* A number of bytes of a buffer is cut in two.                            *)
Cut(total, n, m) == n \in Nat /\ m \in Nat /\ total = n + m /\ total <= Capacity

LEMMA AheadAdds ==
  ASSUME NEW from \in Slots, NEW total, NEW n, NEW m, Cut(total, n, m)
  PROVE  Ahead(Ahead(from, n), m) = Ahead(from, total)
  BY HeadAdds DEF Ahead, Cut

(* n+m bytes are n bytes and the m bytes behind them.                      *)
LEMMA HeldSplits ==
  ASSUME NEW b \in [Slots -> Content], NEW from \in Slots,
         NEW total, NEW n, NEW m, Cut(total, n, m)
  PROVE  Held(b, from, total) = Held(b, from, n) \o Held(b, Ahead(from, n), m)
<1> DEFINE next == Ahead(from, n)
           one == Held(b, from, n)
           two == Held(b, next, m)
           all == Held(b, from, total)
<1>1. /\ n \in 0 .. Capacity /\ n <= Capacity /\ m \in Nat /\ m <= Capacity
      /\ total \in Nat /\ total = n + m /\ total <= Capacity
      /\ next \in Slots
  BY Parameters, HeadIsSlot DEF Ahead, Cut
<1>2. /\ one \in Seq(Content) /\ Len(one) = n
      /\ \A i \in 1 .. n : one[i] = b[Behind(from, i)]
  BY <1>1, HeldIsSequence
<1>3. /\ two \in Seq(Content) /\ Len(two) = m
      /\ \A i \in 1 .. m : two[i] = b[Behind(next, i)]
  BY <1>1, HeldIsSequence
<1>4. /\ all \in Seq(Content) /\ Len(all) = n + m
      /\ \A i \in 1 .. n + m : all[i] = b[Behind(from, i)]
  BY <1>1, HeldIsSequence
<1> HIDE DEF one, two, all, Behind, next
<1>5. /\ one \o two \in Seq(Content) /\ Len(one \o two) = n + m
      /\ \A i \in 1 .. n + m : (one \o two)[i] = IF i <= n THEN one[i] ELSE two[i - n]
  BY <1>2, <1>3, ConcatProperties
<1>6. ASSUME NEW i \in 1 .. n + m
      PROVE  (one \o two)[i] = all[i]
  <2>1. CASE i <= n
    <3>1. i \in 1 .. n
      BY <2>1
    <3>2. QED BY <1>2, <1>4, <1>5, <2>1, <3>1
  <2>2. CASE i > n
    <3>1. i - n \in 1 .. m /\ i - n \in 1 .. Capacity /\ n + (i - n) <= Capacity /\ n + (i - n) = i
      BY <1>1, <2>2, Parameters
    <3>2. Behind(next, i - n) = Behind(from, n + (i - n))
      BY <1>1, <3>1, BehindAdds DEF Ahead, next
    <3>3. (one \o two)[i] = two[i - n]
      BY <1>1, <1>5, <2>2
    <3>4. QED BY <1>3, <1>4, <3>1, <3>2, <3>3
  <2>3. i <= n \/ i > n
    BY <1>1
  <2>4. QED BY <2>1, <2>2, <2>3
<1>7. one \o two = all
  BY <1>1, <1>4, <1>5, <1>6, SeqEqual
<1>8. QED BY <1>7 DEF one, two, all, next

(* n bytes and the m bytes behind them do not overlap.                     *)
LEMMA HeldApart ==
  ASSUME NEW from \in Slots, NEW n \in Nat, NEW m \in Nat, n + m <= Capacity,
         NEW next, next = Ahead(from, n),
         NEW i \in 1 .. n, NEW j \in 1 .. m
  PROVE  Behind(from, i) # Behind(next, j)
<1>1. /\ n \in 0 .. Capacity /\ i \in 1 .. Capacity /\ j \in 1 .. Capacity
      /\ n + j <= Capacity /\ n + j \in 1 .. Capacity /\ i # n + j
  BY Parameters
<1> HIDE DEF Behind
<1>2. Behind(next, j) = Behind(from, n + j)
  BY <1>1, BehindAdds DEF Ahead
<1> DEFINE k == n + j
<1>3. k \in 1 .. Capacity /\ i # k /\ Behind(next, j) = Behind(from, k)
  BY <1>1, <1>2
<1> HIDE DEF k
<1>4. QED BY <1>1, <1>3, BehindDistinct

LEMMA HeldIsWritten ==
  ASSUME NEW b, NEW c, NEW data \in Seq(Bytes), NEW from, Written(b, c, data, from)
  PROVE  Held(b, from, Len(data)) = Clear(data)
  BY DEF Held, Written, Clear
-----------------------------------------------------------------------------
LEMMA ContentsHeld == Contents = Held(buf, read_head, size)
  BY DEF Contents, Held, Behind

(* Bytes that were not written to                                          *)
LEMMA HeldIsKept ==
  ASSUME NEW b, NEW c, NEW data \in Seq(Bytes), NEW from \in Slots, NEW at \in Slots,
         NEW n \in Nat, n <= Capacity,
         Written(b, c, data, at),
         \A i \in 1 .. n : \A j \in 1 .. Len(data) : Behind(from, i) # Behind(at, j)
  PROVE  Held(b, from, n) = Held(c, from, n)
<1>1. \A i \in 1 .. n : i \in 1 .. Capacity
  BY Parameters
<1> HIDE DEF Behind
<1>2. \A i \in 1 .. n : b[Behind(from, i)] = c[Behind(from, i)]
  BY <1>1, BehindIsSlot DEF Written
<1>3. QED BY <1>2 DEF Held

(* Bytes written behind the last one                                       *)
LEMMA WriteAppends ==
  ASSUME TypeInv, HeadsInv, TypeInv',
         NEW data \in Seq(Bytes), size + Len(data) <= Capacity,
         Written(buf', buf, data, write_head),
         bytebuf_register_write(Len(data))
  PROVE  HeadsInv' /\ Contents' = Contents \o Clear(data) /\ Len(Contents) = size
<1> DEFINE n == Len(data)
<1>1. /\ size \in Nat /\ n \in Nat /\ size + n <= Capacity /\ size <= Capacity
      /\ read_head \in Slots /\ write_head \in Slots
      /\ buf \in [Slots -> Content] /\ buf' \in [Slots -> Content]
      /\ read_head' = read_head /\ size' = size + n
  BY Parameters DEF TypeInv, bytebuf_register_write
<1>2. write_head = Ahead(read_head, size)
  BY DEF HeadsInv, Ahead
<1>3. Held(buf', write_head, n) = Clear(data)
  BY HeldIsWritten
<1>4. Held(buf', read_head, size) = Held(buf, read_head, size)
  BY <1>1, <1>2, HeldApart, HeldIsKept
<1>5. Held(buf', read_head, size') = Held(buf', read_head, size) \o Held(buf', write_head, n)
  <2> HIDE DEF n
  <2>1. Cut(size', size, n)
    BY <1>1 DEF n, Cut
  <2>2. Held(buf', read_head, size') =
           Held(buf', read_head, size) \o Held(buf', Ahead(read_head, size), n)
    BY <1>1, <2>1, HeldSplits
  <2>3. QED BY <1>2, <2>2
<1>6. Contents' = Held(buf', read_head, size')
  BY <1>1 DEF Contents, Held, Behind
<1>7. Contents' = Contents \o Clear(data)
  BY <1>3, <1>4, <1>5, <1>6, ContentsHeld
<1>8. Len(Contents) = size
  BY <1>1, ContentsHeld, HeldIsSequence
<1>9. HeadsInv'
  BY <1>1, <1>2, HeadAdds DEF HeadsInv, Ahead, bytebuf_register_write
<1>10. QED BY <1>7, <1>8, <1>9

(* Bytes that were given are a write to the FIFO.                          *)
LEMMA WriteIsFifoWrite ==
  ASSUME TypeInv, HeadsInv, TypeInv',
         NEW data \in Seq(Bytes), size + Len(data) <= Capacity,
         Written(buf', buf, data, write_head),
         bytebuf_register_write(Len(data)),
         moved' = Clear(data)
  PROVE  HeadsInv' /\ Fifo!Write
<1> DEFINE n == Len(data)
<1>1. HeadsInv' /\ Contents' = Contents \o Clear(data) /\ Len(Contents) = size
  BY WriteAppends
<1>2. Clear(data) = Fifo!Clear(data)
  BY DEF Clear, Fifo!Clear
<1>3. n \in 0 .. Capacity /\ data \in [1 .. n -> Bytes] /\ Fifo!Fits(data)
  BY <1>1, Parameters DEF Fifo!Fits, TypeInv
<1>4. QED BY <1>1, <1>2, <1>3 DEF Fifo!Write

(* Bytes written in front of the first one                                 *)
LEMMA PrependPutsInFront ==
  ASSUME TypeInv, HeadsInv, TypeInv',
         NEW data \in Seq(Bytes), size + Len(data) <= Capacity,
         read_head = Ahead(read_head', Len(data)),
         Written(buf', buf, data, read_head'),
         size' = size + Len(data), write_head' = write_head,
         moved' = Clear(data)
  PROVE  HeadsInv' /\ Fifo!Prepend
<1> DEFINE n == Len(data)
<1>1. /\ size \in Nat /\ n \in Nat /\ n + size <= Capacity /\ size <= Capacity
      /\ size' = n + size
      /\ read_head \in Slots /\ read_head' \in Slots
      /\ buf \in [Slots -> Content] /\ buf' \in [Slots -> Content]
  BY Parameters DEF TypeInv
<1>2. Held(buf', read_head', n) = Clear(data)
  BY HeldIsWritten
<1>3. Held(buf', read_head, size) = Held(buf, read_head, size)
  BY <1>1, HeldApart, HeldIsKept
<1>4. Held(buf', read_head', size') = Held(buf', read_head', n) \o Held(buf', read_head, size)
  <2> HIDE DEF n
  <2>1. Cut(size', n, size) /\ read_head = Ahead(read_head', n)
    BY <1>1 DEF n, Cut
  <2>2. Held(buf', read_head', size') =
           Held(buf', read_head', n) \o Held(buf', Ahead(read_head', n), size)
    BY <1>1, <2>1, HeldSplits
  <2>3. QED BY <2>1, <2>2
<1>5. Contents' = Held(buf', read_head', size')
  BY <1>1 DEF Contents, Held, Behind
<1>6. Contents' = Clear(data) \o Contents
  BY <1>2, <1>3, <1>4, <1>5, ContentsHeld
<1>7. Fifo!Prepend
  <2>1. Clear(data) = Fifo!Clear(data)
    BY DEF Clear, Fifo!Clear
  <2>2. Len(Contents) = size
    BY <1>1, ContentsHeld, HeldIsSequence
  <2>3. n \in 0 .. Capacity /\ data \in [1 .. n -> Bytes] /\ Fifo!Fits(data)
    BY <1>1, <2>2, Parameters DEF Fifo!Fits
  <2>4. QED BY <1>6, <2>1, <2>3 DEF Fifo!Prepend
<1>8. HeadsInv'
  BY <1>1, HeadAdds DEF HeadsInv, Ahead
<1>9. QED BY <1>7, <1>8

(* What a sequence that is two is cut into                                 *)
LEMMA FrontAndRear ==
  ASSUME NEW S, NEW one \in Seq(S), NEW two \in Seq(S)
  PROVE  /\ SubSeq(one \o two, 1, Len(one)) = one
         /\ SubSeq(one \o two, Len(one) + 1, Len(one) + Len(two)) = two
<1> DEFINE n == Len(one)
           m == Len(two)
<1>1. n \in Nat /\ m \in Nat /\ n + 1 \in Int /\ n + m \in Int
  OBVIOUS
<1>2. SubSeq(one \o two, 1, n) = one
  <2>1. CASE n = 0
    BY <2>1, SubSeqEmpty, EmptySeq
  <2>2. CASE n > 0
    <3>1. 1 \in 1 .. n /\ n \in 1 .. n
      BY <2>2
    <3>2. QED BY <3>1, SubSeqOfConcat1, SubSeqFull
  <2>3. QED BY <2>1, <2>2
<1>3. SubSeq(one \o two, n + 1, n + m) = two
  <2>1. CASE m = 0
    BY <1>1, <2>1, SubSeqEmpty, EmptySeq
  <2>2. CASE m > 0
    <3>1. n + 1 \in n + 1 .. n + m /\ n + m \in n + 1 .. n + m /\ (n + 1) - n = 1 /\ (n + m) - n = m
      BY <1>1, <2>2
    <3>2. SubSeq(one \o two, n + 1, n + m) = SubSeq(two, (n + 1) - n, (n + m) - n)
      BY <3>1, SubSeqOfConcat2
    <3>3. QED BY <3>1, <3>2, SubSeqFull
  <2>3. QED BY <1>1, <2>1, <2>2
<1>4. QED BY <1>2, <1>3

LEMMA ReadMovesHead ==
  ASSUME TypeInv, HeadsInv, NEW n \in 0 .. size, bytebuf_register_read(n)
  PROVE  HeadsInv' /\ read_head' \in Slots /\ size' \in 0 .. Capacity
<1> DEFINE rest == size - n
<1>1. /\ size \in Nat /\ n \in Nat /\ rest \in Nat /\ n + rest = size /\ size <= Capacity
      /\ n \in 0 .. Capacity /\ rest \in 0 .. Capacity
      /\ size' = rest /\ read_head' = Ahead(read_head, n) /\ write_head' = write_head
      /\ read_head \in Slots
  BY Parameters DEF TypeInv, bytebuf_register_read, Ahead
<1>2. read_head' \in Slots
  BY <1>1, HeadIsSlot DEF Ahead
<1> HIDE DEF rest
<1>3. HeadsInv'
  BY <1>1, HeadAdds DEF HeadsInv, Ahead
<1>4. QED BY <1>1, <1>2, <1>3

(* Bytes taken from the front                                              *)
LEMMA ReadTakesFirst ==
  ASSUME TypeInv, HeadsInv,
         NEW n \in 0 .. size, bytebuf_register_read(n), buf' = buf,
         moved' = Held(buf, read_head, n)
  PROVE  HeadsInv' /\ Fifo!Read /\ read_head' \in Slots /\ size' \in 0 .. Capacity
<1> DEFINE rest == size - n
<1>1. /\ size \in Nat /\ n \in Nat /\ rest \in Nat /\ n + rest = size /\ size <= Capacity
      /\ n <= Capacity /\ rest <= Capacity /\ n \in 0 .. Capacity /\ n <= size
      /\ size' = rest /\ read_head' = Ahead(read_head, n) /\ write_head' = write_head
      /\ read_head \in Slots /\ buf \in [Slots -> Content]
  BY Parameters DEF TypeInv, bytebuf_register_read, Ahead
<1>2. read_head' \in Slots
  BY <1>1, HeadIsSlot DEF Ahead
<1> DEFINE one == Held(buf, read_head, n)
           two == Held(buf, read_head', rest)
<1>3. Held(buf, read_head, size) = one \o two
  <2> HIDE DEF rest
  <2>1. Cut(size, n, rest)
    BY <1>1 DEF Cut
  <2>2. read_head \in Slots /\ buf \in [Slots -> Content]
    BY <1>1
  <2>3. Held(buf, read_head, size) =
           Held(buf, read_head, n) \o Held(buf, Ahead(read_head, n), rest)
    BY ONLY <2>1, <2>2, HeldSplits
  <2>4. QED BY <1>1, <2>3
<1>4. Contents = one \o two
  BY <1>1, <1>3, ContentsHeld
<1>5. Contents' = two
  BY <1>1 DEF Contents, Held, Behind
<1>6. /\ one \in Seq(Content) /\ Len(one) = n /\ two \in Seq(Content) /\ Len(two) = rest
  BY <1>1, <1>2, HeldIsSequence
<1> HIDE DEF one, two, rest
<1>7. /\ one \o two \in Seq(Content) /\ Len(one \o two) = n + rest
      /\ \A i \in 1 .. n + rest : (one \o two)[i] = IF i <= n THEN one[i] ELSE two[i - n]
  BY <1>6, ConcatProperties
<1>8. SubSeq(one \o two, 1, n) = one /\ SubSeq(one \o two, n + 1, n + rest) = two
  BY <1>6, FrontAndRear
<1>9. Fifo!Read
  <2>1. Len(Contents) = n + rest /\ n \in 0 .. n + rest /\ moved' = one
    BY <1>1, <1>4, <1>7 DEF one
  <2>2. QED BY <1>4, <1>5, <1>8, <2>1 DEF Fifo!Read
<1>10. QED BY <1>9, ReadMovesHead
-----------------------------------------------------------------------------
(* Some bytes from the front                                               *)
LEMMA FirstBytes ==
  ASSUME TypeInv, NEW n \in 0 .. size
  PROVE  SubSeq(Contents, 1, n) = Held(buf, read_head, n)
<1> DEFINE rest == size - n
<1>1. /\ size <= Capacity /\ n \in Nat /\ rest \in Nat /\ n <= Capacity /\ rest <= Capacity
      /\ read_head \in Slots /\ buf \in [Slots -> Content] /\ n \in 0 .. Capacity
      /\ Cut(size, n, rest)
  BY Parameters DEF TypeInv, Cut
<1>2. Ahead(read_head, n) \in Slots
  BY <1>1, HeadIsSlot DEF Ahead
<1> HIDE DEF rest
<1> DEFINE one == Held(buf, read_head, n)
           two == Held(buf, Ahead(read_head, n), rest)
<1>3. Contents = one \o two
  BY <1>1, HeldSplits, ContentsHeld
<1>4. one \in Seq(Content) /\ Len(one) = n /\ two \in Seq(Content)
  BY <1>1, <1>2, HeldIsSequence
<1> HIDE DEF one, two
<1>5. SubSeq(one \o two, 1, n) = one
  BY <1>4, FrontAndRear
<1>6. QED BY <1>3, <1>5 DEF one

(* The read regions of a buffer that is not full, or is full from its      *)
(* first slot on, are its contents.                                        *)
LEMMA ReadRegionsHold ==
  ASSUME TypeInv, HeadsInv, size < Capacity \/ read_head = 0
  PROVE  /\ read_regions \in Seq(Int) /\ Len(read_regions) = size
         /\ \A i \in 1 .. size : read_regions[i] = Behind(read_head, i)
         /\ Gather(read_regions) = Contents
<1>1. /\ read_regions \in Seq(Int) /\ Len(read_regions) = size
      /\ \A i \in 1 .. size : read_regions[i] = Behind(read_head, i)
  <2>1. read_head \in Slots /\ size \in 0 .. Capacity /\ write_head = (read_head + size) % Capacity
    BY DEF TypeInv, HeadsInv
  <2>2. QED BY <2>1, RegionsInOrder, Parameters DEF read_regions
<1>2. DOMAIN read_regions = 1 .. size
  BY <1>1
<1> HIDE DEF Behind
<1>3. Gather(read_regions) = [i \in 1 .. size |-> buf[Behind(read_head, i)]]
  BY <1>1, <1>2 DEF Gather
<1>4. QED BY <1>1, <1>3, ContentsHeld DEF Held

(* Those of any other full buffer only begin with its contents.            *)
LEMMA ReadRegionsOverlap ==
  ASSUME TypeInv, HeadsInv, size = Capacity, read_head # 0
  PROVE  /\ read_regions \in Seq(Int) /\ Len(read_regions) > size
         /\ \A i \in 1 .. size : read_regions[i] = Behind(read_head, i)
         /\ Len(Gather(read_regions)) = Len(read_regions)
         /\ \A i \in 1 .. size : Gather(read_regions)[i] = Contents[i]
<1>1. /\ read_regions \in Seq(Int) /\ Len(read_regions) > size
      /\ \A i \in 1 .. size : read_regions[i] = Behind(read_head, i)
  <2>1. read_head \in Slots /\ size \in 0 .. Capacity /\ write_head = (read_head + size) % Capacity
    BY DEF TypeInv, HeadsInv
  <2>2. QED BY <2>1, RegionsInOrder, Parameters DEF read_regions
<1>2. /\ DOMAIN read_regions = 1 .. Len(read_regions) /\ size \in Nat
      /\ \A i \in 1 .. size : i \in 1 .. Len(read_regions)
  BY <1>1, Parameters DEF TypeInv
<1> DEFINE slots == read_regions
<1> HIDE DEF Behind, slots
<1>3. Gather(slots) = [i \in 1 .. Len(slots) |-> buf[slots[i]]]
  BY <1>2 DEF Gather, slots
<1>4. Len(Gather(slots)) = Len(slots) /\ \A i \in 1 .. size : Gather(slots)[i] = buf[slots[i]]
  BY <1>1, <1>2, <1>3 DEF slots
<1>5. QED BY <1>1, <1>4, ContentsHeld DEF Held, slots

(* The write regions begin with the free slots, in order.                  *)
LEMMA WriteRegionsFree ==
  ASSUME TypeInv, HeadsInv,
         NEW data \in Seq(Bytes), Len(data) <= Capacity - size
  PROVE  /\ Scatter(data, write_regions) \in [Slots -> Content]
         /\ Written(Scatter(data, write_regions), buf, data, write_head)
<1> DEFINE free == Capacity - size
<1>1. /\ free \in 0 .. Capacity /\ size \in 0 .. Capacity
      /\ free \in Nat /\ size \in Nat /\ size + free = Capacity
      /\ read_head \in Slots /\ write_head \in Slots /\ buf \in [Slots -> Content]
  BY Parameters DEF TypeInv
<1> HIDE DEF free
<1>2. read_head = (write_head + free) % Capacity
  <2>1. Cut(Capacity, size, free) /\ write_head = Ahead(read_head, size)
    BY <1>1, Parameters DEF Cut, HeadsInv, Ahead
  <2>2. Ahead(write_head, free) = Ahead(read_head, Capacity)
    BY <1>1, <2>1, AheadAdds
  <2>3. (read_head + Capacity) % Capacity = read_head
    BY <1>1, HeadIsSlot, Parameters DEF Slots
  <2>4. QED BY <2>2, <2>3 DEF Ahead
<1>3. \A i \in 1 .. free : write_regions[i] = Behind(write_head, i)
  BY <1>1, <1>2, RegionsInOrder DEF write_regions, free
<1>4. \A i \in 1 .. Len(data) : i \in 1 .. free /\ i \in 1 .. Capacity
  BY <1>1, Parameters DEF free
<1> HIDE DEF Behind
<1>5. \A i \in 1 .. Len(data) :
        write_regions[i] = Behind(write_head, i) /\ write_regions[i] \in Slots
  BY <1>1, <1>3, <1>4, BehindIsSlot
<1>6. \A i, j \in 1 .. Len(data) : write_regions[i] = write_regions[j] => i = j
  BY <1>1, <1>4, <1>5, BehindDistinct
<1> DEFINE slots == write_regions
<1> HIDE DEF slots
<1>7. /\ Scatter(data, slots) \in [Slots -> Content]
      /\ \A i \in 1 .. Len(data) : Scatter(data, slots)[slots[i]] = <<data[i], 0>>
      /\ \A s \in Slots : (\A i \in 1 .. Len(data) : slots[i] # s) =>
            Scatter(data, slots)[s] = buf[s]
  BY <1>1, <1>5, <1>6, ScatterWrites DEF slots
<1>8. QED BY <1>5, <1>7 DEF Written, slots

(* Each byte of such a buffer is in one place of its regions, and in at    *)
(* least one if they overlap.                                              *)
LEMMA CipherOnce ==
  ASSUME TypeInv, HeadsInv, size < Capacity \/ read_head = 0
  PROVE  LET places(s) == {i \in DOMAIN read_regions : read_regions[i] = s}
         IN  /\ \A s \in Slots : Cardinality(places(s)) \in Nat
             /\ \A i \in 1 .. size : Cardinality(places(Behind(read_head, i))) = 1
<1> DEFINE places(s) == {i \in DOMAIN read_regions : read_regions[i] = s}
<1>1. /\ DOMAIN read_regions = 1 .. size /\ size \in Nat /\ read_head \in Slots
      /\ size <= Capacity
      /\ \A i \in 1 .. size : read_regions[i] = Behind(read_head, i)
  BY ReadRegionsHold, Parameters DEF TypeInv
<1>2. ASSUME NEW s \in Slots
      PROVE  Cardinality(places(s)) \in Nat
  <2>1. IsFiniteSet(1 .. size) /\ places(s) \subseteq 1 .. size
    BY <1>1, FS_Interval
  <2>2. IsFiniteSet(places(s))
    BY <2>1, FS_Subset
  <2>3. QED BY <2>2, FS_CardinalityType
<1>3. ASSUME NEW i \in 1 .. size
      PROVE  Cardinality(places(Behind(read_head, i))) = 1
  <2> HIDE DEF Behind
  <2>1. \A j \in 1 .. size : j \in 1 .. Capacity
    BY <1>1, Parameters
  <2>2. places(Behind(read_head, i)) = {i}
    BY <1>1, <2>1, BehindDistinct
  <2>3. QED BY <2>2, FS_Singleton
<1>4. QED BY <1>2, <1>3

LEMMA CipherAtLeastOnce ==
  ASSUME TypeInv, HeadsInv, size = Capacity, read_head # 0
  PROVE  LET places(s) == {i \in DOMAIN read_regions : read_regions[i] = s}
         IN  /\ \A s \in Slots : Cardinality(places(s)) \in Nat
             /\ \A i \in 1 .. size : Cardinality(places(Behind(read_head, i))) > 0
<1> DEFINE places(s) == {i \in DOMAIN read_regions : read_regions[i] = s}
           n == Len(read_regions)
<1>1. /\ DOMAIN read_regions = 1 .. n /\ n \in Nat /\ n > size /\ size \in Nat
      /\ \A i \in 1 .. size : read_regions[i] = Behind(read_head, i) /\ i \in 1 .. n
  BY ReadRegionsOverlap, Parameters DEF TypeInv
<1> HIDE DEF n, Behind
<1>2. ASSUME NEW s
      PROVE  IsFiniteSet(places(s)) /\ Cardinality(places(s)) \in Nat
  <2>1. IsFiniteSet(1 .. n) /\ places(s) \subseteq 1 .. n
    BY <1>1, FS_Interval
  <2>2. IsFiniteSet(places(s))
    BY <2>1, FS_Subset
  <2>3. QED BY <2>2, FS_CardinalityType
<1>3. ASSUME NEW i \in 1 .. size
      PROVE  Cardinality(places(Behind(read_head, i))) > 0
  <2> DEFINE s == Behind(read_head, i)
  <2>1. i \in places(s)
    BY <1>1
  <2>2. IsFiniteSet(places(s)) /\ Cardinality(places(s)) \in Nat
    BY <1>2
  <2> HIDE DEF s, places
  <2>3. Cardinality(places(s)) # 0
    BY <2>1, <2>2, FS_EmptySet
  <2>4. QED BY <2>2, <2>3 DEF s
<1>4. QED BY <1>2, <1>3
-----------------------------------------------------------------------------
(* Every action keeps the invariant and is an action of the FIFO, or one   *)
(* of the two things that happen at the end of the storage.                *)
Simulates == IInv' /\ [Fifo!Next \/ Straddled \/ Overlapped]_Fifo!vars

LEMMA InitSimulates == Init => IInv /\ Fifo!Init
<1> SUFFICES ASSUME Init
             PROVE  IInv /\ Fifo!Init
  OBVIOUS
<1>1. buf \in [Slots -> Content] /\ read_head \in Slots /\ write_head \in Slots
  BY Parameters DEF Init, Slots, Content
<1>2. TypeInv /\ ScratchInv
  BY <1>1, Parameters DEF Init, TypeInv, ScratchInv
<1>3. HeadsInv
  BY Parameters DEF Init, HeadsInv
<1>4. Contents = <<>>
  BY DEF Init, Contents
<1>5. QED BY <1>2, <1>3, <1>4 DEF IInv, Fifo!Init, Init

LEMMA RecvSimulates == IInv /\ sock_recv_buf => Simulates
<1> SUFFICES ASSUME IInv, sock_recv_buf
             PROVE  Simulates
  OBVIOUS
<1>1. PICK data \in Chunks :
         /\ Len(data) <= Capacity - size
         /\ buf' = Scatter(data, write_regions)
         /\ bytebuf_register_write(Len(data))
         /\ moved' = Clear(data)
  BY DEF sock_recv_buf
<1>2. data \in Seq(Bytes) /\ size \in 0 .. Capacity /\ size + Len(data) <= Capacity
  BY <1>1, ChunkIsSequence, Parameters DEF IInv, TypeInv
<1>3. buf' \in [Slots -> Content] /\ Written(buf', buf, data, write_head)
  BY <1>1, <1>2, WriteRegionsFree DEF IInv
<1>4. TypeInv'
  BY <1>1, <1>2, <1>3, Parameters, HeadIsSlot
  DEF IInv, TypeInv, sock_recv_buf, bytebuf_register_write
<1>5. HeadsInv' /\ Fifo!Write
  BY <1>1, <1>2, <1>3, <1>4, WriteIsFifoWrite DEF IInv
<1>6. ScratchInv'
  BY DEF ScratchInv, sock_recv_buf
<1>7. QED BY <1>4, <1>5, <1>6 DEF Simulates, IInv, Fifo!Next

LEMMA ReadSimulates == IInv /\ bytebuf_read => Simulates
<1> SUFFICES ASSUME IInv, bytebuf_read
             PROVE  Simulates
  OBVIOUS
<1>1. PICK n \in 0 .. size :
         /\ moved' = [i \in 1 .. n |-> buf[(read_head + i - 1) % Capacity]]
         /\ bytebuf_register_read(n)
  BY DEF bytebuf_read
<1>2. moved' = Held(buf, read_head, n) /\ buf' = buf
  BY <1>1 DEF Held, Behind, bytebuf_read
<1>3. HeadsInv' /\ Fifo!Read /\ read_head' \in Slots /\ size' \in 0 .. Capacity
  BY <1>1, <1>2, ReadTakesFirst DEF IInv
<1>4. TypeInv' /\ ScratchInv'
  BY <1>1, <1>3 DEF IInv, TypeInv, ScratchInv, bytebuf_read, bytebuf_register_read
<1>5. QED BY <1>3, <1>4 DEF Simulates, IInv, Fifo!Next

(* What sendmsg takes beyond the contents of a full buffer is not taken    *)
(* off the buffer.                                                         *)
LEMMA SendSimulates == IInv /\ sock_send_buf => Simulates
<1> SUFFICES ASSUME IInv, sock_send_buf
             PROVE  Simulates
  OBVIOUS
<1> DEFINE all == Gather(read_regions)
<1>1. PICK n \in 1 .. Len(read_regions) :
         /\ moved' = SubSeq(all, 1, n)
         /\ bytebuf_register_read(IF n < size THEN n ELSE size)
  BY DEF sock_send_buf
<1>2. /\ TypeInv /\ HeadsInv /\ ScratchInv /\ user = "send" /\ buf' = buf
      /\ user' = user /\ stage' = stage /\ size \in Nat /\ size <= Capacity /\ size > 0
  BY Parameters DEF IInv, TypeInv, sock_send_buf
<1> DEFINE plain == size < Capacity \/ read_head = 0
<1>3. /\ read_regions \in Seq(Int) /\ n \in Nat \ {0} /\ Len(all) = Len(read_regions)
      /\ n <= Len(read_regions)
      /\ plain => Len(read_regions) = size /\ all = Contents
      /\ ~plain => Len(read_regions) > size /\ \A i \in 1 .. size : all[i] = Contents[i]
  <2>1. CASE plain
    <3>1. Len(Contents) = size
      BY <1>2, ContentsHeld, HeldIsSequence DEF TypeInv
    <3>2. /\ read_regions \in Seq(Int) /\ Len(read_regions) = size /\ all = Contents
      BY <1>2, <2>1, ReadRegionsHold
    <3> HIDE DEF all, plain
    <3>3. QED BY <2>1, <3>1, <3>2
  <2>2. CASE ~plain
    <3>1. size = Capacity /\ read_head # 0
      BY <1>2, <2>2, Parameters
    <3>2. /\ read_regions \in Seq(Int) /\ Len(read_regions) > size
          /\ Len(all) = Len(read_regions)
          /\ \A i \in 1 .. size : all[i] = Contents[i]
      BY <1>2, <3>1, ReadRegionsOverlap
    <3> HIDE DEF all, plain
    <3>3. QED BY <2>2, <3>2
  <2>3. QED BY <2>1, <2>2
<1> HIDE DEF all
<1>4. CASE n <= size
  <2>1. n \in 0 .. size /\ (IF n < size THEN n ELSE size) = n
    BY <1>2, <1>3, <1>4
  <2>2. moved' = Held(buf, read_head, n)
    <3>1. SubSeq(Contents, 1, n) = [i \in 1 .. n |-> Contents[i]]
      BY <2>1 DEF SubSeq
    <3>2. SubSeq(all, 1, n) = [i \in 1 .. n |-> all[i]]
      BY <2>1 DEF SubSeq
    <3>3. \A i \in 1 .. n : i \in 1 .. size
      BY <1>2, <2>1
    <3>4. \A i \in 1 .. n : all[i] = Contents[i]
      BY <1>3, <3>3
    <3>5. QED BY <1>1, <1>2, <2>1, <3>1, <3>2, <3>4, FirstBytes
  <2>3. HeadsInv' /\ Fifo!Read /\ read_head' \in Slots /\ size' \in 0 .. Capacity
    BY <1>1, <1>2, <2>1, <2>2, ReadTakesFirst
  <2>4. TypeInv' /\ ScratchInv'
    BY <1>1, <1>2, <2>3 DEF TypeInv, ScratchInv, bytebuf_register_read
  <2>5. QED BY <2>3, <2>4 DEF Simulates, IInv, Fifo!Next
<1>5. CASE n > size
  <2>1. size \in 0 .. size /\ (IF n < size THEN n ELSE size) = size
    BY <1>2, <1>3, <1>5
  <2>2. HeadsInv' /\ read_head' \in Slots /\ size' \in 0 .. Capacity
    BY <1>1, <1>2, <2>1, ReadMovesHead
  <2>3. size' = 0 /\ write_head' = write_head
    BY <1>1, <1>2, <2>1 DEF bytebuf_register_read
  <2>4. TypeInv' /\ ScratchInv'
    BY <1>2, <2>2, <2>3 DEF TypeInv, ScratchInv
  <2>5. Contents' = <<>>
    BY <2>3 DEF Contents
  <2>6. ~plain /\ size = Capacity /\ read_head # 0
    BY <1>2, <1>3, <1>5, Parameters
  <2>7. SubSeq(all, 1, n) = [i \in 1 .. n |-> all[i]]
    BY <1>3 DEF SubSeq
  <2>8. \A i \in 1 .. size : i \in 1 .. n
    BY <1>2, <1>3, <1>5
  <2>9. Len(moved') = n /\ \A i \in 1 .. size : moved'[i] = Contents[i]
    BY <1>1, <1>3, <2>6, <2>7, <2>8
  <2>10. Overlapped
    BY <1>2, <1>5, <2>5, <2>6, <2>9 DEF Overlapped
  <2>11. QED BY <2>2, <2>4, <2>10 DEF Simulates, IInv
<1>6. QED BY <1>2, <1>3, <1>4, <1>5

(* The first bytes of a write that goes around the end, and what was in    *)
(* the buffer                                                              *)
LEMMA StraddleSpoilsTheRest ==
  ASSUME TypeInv, HeadsInv, TypeInv', user = "send",
         NEW data \in Chunks, NEW left \in Seq(Bytes), Len(left) = Len(data),
         size + Len(data) <= Capacity, write_head + Len(data) > Capacity,
         \A i \in 1 .. Len(data) : i <= Capacity - write_head => left[i] = data[i],
         Written(buf', buf, left, write_head),
         bytebuf_register_write(Len(data)),
         moved' = Clear(data)
  PROVE  HeadsInv' /\ Straddled
<1> DEFINE n == Len(data)
           all == Contents
           more == Clear(left)
<1>1. /\ n \in Nat /\ size \in Nat /\ write_head \in 0 .. Capacity - 1
      /\ Capacity \in Nat /\ size' = size + n /\ DOMAIN left = 1 .. n
      /\ read_head \in Slots /\ buf \in [Slots -> Content] /\ size <= Capacity
  BY ChunkIsSequence, Parameters DEF TypeInv, Slots, bytebuf_register_write
<1>2. HeadsInv' /\ Contents' = all \o more /\ Len(all) = size
  BY WriteAppends
<1>3. all \in Seq(Content)
  BY <1>1, ContentsHeld, HeldIsSequence
<1>4. /\ more \in Seq(Bytes \X {0}) /\ Len(more) = n
      /\ \A i \in 1 .. n : more[i] = <<left[i], 0>>
  BY <1>1 DEF Clear
<1> HIDE DEF n, all, more
<1>5. /\ \A i \in 1 .. size : (all \o more)[i] = all[i]
      /\ \A i \in 1 .. n : (all \o more)[size + i] = more[i]
  BY <1>1, <1>2, <1>3, <1>4
<1>6. \A i \in 1 .. Capacity - write_head : i \in 1 .. n /\ left[i] = data[i]
  BY <1>1 DEF n
<1>7. \A i \in 1 .. Capacity - write_head : Contents'[size + i] = <<data[i], 0>>
  BY <1>2, <1>4, <1>5, <1>6
<1>8. \A i \in 1 .. size : Contents'[i] = Contents[i]
  BY <1>2, <1>5 DEF all
<1>9. QED BY <1>1, <1>2, <1>7, <1>8 DEF Straddled, n

LEMMA WriteSimulates == IInv /\ bytebuf_write => Simulates
<1> SUFFICES ASSUME IInv, bytebuf_write
             PROVE  Simulates
  OBVIOUS
<1>1. PICK data \in Chunks :
         /\ size + Len(data) <= Capacity
         /\ buf' = write_at_position(data, write_head)
         /\ bytebuf_register_write(Len(data))
         /\ moved' = Clear(data)
  BY DEF bytebuf_write
<1> DEFINE n == Len(data)
<1>2. /\ data \in Seq(Bytes) /\ n \in Nat \ {0} /\ size \in Nat
      /\ size + n <= Capacity /\ n <= Capacity /\ n \in 0 .. Capacity /\ size + n \in 0 .. Capacity
      /\ write_head \in Slots /\ buf \in [Slots -> Content] /\ read_head \in Slots
      /\ TypeInv /\ HeadsInv
  BY <1>1, ChunkIsSequence, Parameters DEF IInv, TypeInv
<1>3. PICK left \in Seq(Bytes) :
         /\ Len(left) = n
         /\ \A i \in 1 .. n : i <= Capacity - write_head => left[i] = data[i]
         /\ Written(buf', buf, left, write_head)
  BY <1>1, <1>2, WriteLeaves
<1>4. buf' \in [Slots -> Content]
  BY <1>1, <1>2, WriteLeaves
<1> HIDE DEF n
<1>5. write_head' \in Slots
  BY <1>1, <1>2, HeadIsSlot DEF bytebuf_register_write, n
<1>6. TypeInv'
  BY <1>1, <1>2, <1>4, <1>5 DEF TypeInv, bytebuf_write, bytebuf_register_write, n
<1>7. ScratchInv'
  BY DEF IInv, ScratchInv, bytebuf_write, bytebuf_register_write
<1>8. CASE write_head + n <= Capacity
  <2>1. Written(buf', buf, data, write_head)
    BY <1>1, <1>2, <1>8, WriteInOnePiece DEF n
  <2>2. HeadsInv' /\ Fifo!Write
    BY <1>1, <1>2, <1>6, <2>1, WriteIsFifoWrite DEF n
  <2>3. QED BY <1>6, <1>7, <2>2 DEF Simulates, IInv, Fifo!Next
<1>9. CASE write_head + n > Capacity
  <2>1. user = "send"
    <3>1. user = "scratch" => read_head = 0
      BY DEF IInv, ScratchInv, bytebuf_write
    <3>2. read_head = 0 => write_head = size
      <4>1. size % Capacity = size
        BY <1>2, Parameters
      <4>2. QED BY <1>2, <4>1 DEF HeadsInv
    <3>3. user \in {"scratch", "send"}
      BY DEF bytebuf_write
    <3>4. QED BY <1>2, <1>9, <3>1, <3>2, <3>3
  <2>2. HeadsInv' /\ Straddled
    BY <1>1, <1>2, <1>3, <1>6, <1>9, <2>1, StraddleSpoilsTheRest DEF n
  <2>3. QED BY <1>6, <1>7, <2>2 DEF Simulates, IInv
<1>10. QED BY <1>2, <1>8, <1>9, Parameters DEF Slots

(* A prefix in front of a body that starts at 0, or of another prefix, is  *)
(* in one piece.                                                           *)
LEMMA PrefixPosition ==
  ASSUME NEW C \in Nat \ {0}, NEW r \in 0 .. C - 1, NEW w \in 0 .. C - 1,
         NEW s \in Nat, NEW n \in Nat \ {0}, s + n <= C,
         (r = 0 /\ w = s) \/ r + s = C + w,
         NEW p, p = IF r < n THEN r - n + C ELSE r - n
  PROVE  /\ p \in 0 .. C - 1 /\ p + n <= C
         /\ r = (p + n) % C
         /\ p + (s + n) = C + w
<1>1. CASE r = 0 /\ w = s
  <2>1. p = C - n /\ p \in 0 .. C - 1 /\ p + n = C
    BY <1>1
  <2>2. C % C = 0
    OBVIOUS
  <2>3. p + (s + n) = C + w
    BY <1>1, <2>1
  <2>4. QED BY <1>1, <2>1, <2>2, <2>3
<1>2. CASE r + s = C + w
  <2>1. r >= n
    BY <1>2
  <2>2. p = r - n /\ p \in 0 .. C - 1 /\ p + n = r
    BY <2>1
  <2>3. r % C = r
    OBVIOUS
  <2>4. p + (s + n) = C + w
    BY <1>2, <2>2
  <2>5. QED BY <2>2, <2>3, <2>4
<1>3. QED BY <1>1, <1>2

LEMMA PrependSimulates == IInv /\ bytebuf_prepend => Simulates
<1> SUFFICES ASSUME IInv, bytebuf_prepend
             PROVE  Simulates
  OBVIOUS
<1>1. PICK data \in Chunks :
         /\ size + Len(data) <= Capacity
         /\ read_head' = IF read_head < Len(data) THEN read_head - Len(data) + Capacity
                         ELSE read_head - Len(data)
         /\ buf' = write_at_position(data, read_head')
         /\ size' = size + Len(data)
         /\ moved' = Clear(data)
  BY DEF bytebuf_prepend
<1> DEFINE n == Len(data)
<1>2. /\ data \in Seq(Bytes) /\ n \in Nat \ {0} /\ size \in Nat
      /\ size + n <= Capacity /\ size < Capacity
      /\ read_head \in Slots /\ write_head \in Slots /\ write_head' = write_head
      /\ Capacity \in Nat \ {0}
  BY <1>1, ChunkIsSequence, Parameters DEF IInv, TypeInv, bytebuf_prepend
<1> HIDE DEF n
<1>3. /\ read_head' \in Slots /\ read_head' + n <= Capacity
      /\ read_head = (read_head' + n) % Capacity
      /\ read_head' + (size + n) = Capacity + write_head
  <2>1. (read_head = 0 /\ write_head = size) \/ read_head + size = Capacity + write_head
    <3>1. read_head = 0 \/ read_head + size = Capacity + write_head
      BY DEF IInv, ScratchInv, bytebuf_prepend
    <3>2. read_head = 0 => write_head = size
      <4>1. size % Capacity = size
        BY <1>2
      <4>2. QED BY <1>2, <4>1 DEF IInv, HeadsInv
    <3>3. QED BY <3>1, <3>2
  <2>2. read_head' = IF read_head < n THEN read_head - n + Capacity ELSE read_head - n
    BY <1>1 DEF n
  <2>3. QED BY <1>2, <2>1, <2>2, PrefixPosition DEF Slots
<1>4. buf' \in [Slots -> Content] /\ Written(buf', buf, data, read_head')
  BY <1>1, <1>2, <1>3, WriteInOnePiece DEF IInv, TypeInv, n
<1>5. TypeInv'
  <2>1. size' \in 0 .. Capacity
    BY <1>1, <1>2 DEF n
  <2>2. QED BY <1>2, <1>3, <1>4, <2>1 DEF IInv, TypeInv, bytebuf_prepend
<1>6. HeadsInv' /\ Fifo!Prepend
  BY <1>1, <1>2, <1>3, <1>4, <1>5, PrependPutsInFront DEF IInv, Ahead, n
<1>7. ScratchInv'
  BY <1>1, <1>2, <1>3 DEF ScratchInv, bytebuf_prepend, n
<1>8. QED BY <1>5, <1>6, <1>7 DEF Simulates, IInv, Fifo!Next

LEMMA CipherSimulates == IInv /\ encryption_cipher => Simulates
<1> SUFFICES ASSUME IInv, encryption_cipher
             PROVE  Simulates
  OBVIOUS
<1> DEFINE places(s) == {i \in DOMAIN read_regions : read_regions[i] = s}
           plain == size < Capacity \/ read_head = 0
<1>1. /\ size \in Nat /\ size <= Capacity /\ TypeInv /\ HeadsInv
      /\ read_head \in Slots /\ buf \in [Slots -> Content]
      /\ ~plain => size = Capacity /\ read_head # 0
  BY Parameters DEF IInv, TypeInv
<1>2. /\ \A s \in Slots : Cardinality(places(s)) \in Nat
      /\ plain => \A i \in 1 .. size : Cardinality(places(Behind(read_head, i))) = 1
      /\ \A i \in 1 .. size : Cardinality(places(Behind(read_head, i))) > 0
  <2>1. CASE plain
    BY <1>1, <2>1, CipherOnce
  <2>2. CASE ~plain
    BY <1>1, <2>2, CipherAtLeastOnce
  <2>3. QED BY <2>1, <2>2
<1>3. buf' = [s \in Slots |-> <<buf[s][1], buf[s][2] + Cardinality(places(s))>>]
  BY DEF encryption_cipher
<1> HIDE DEF places, Behind, plain
<1>4. \A s \in Slots : buf[s][1] \in Bytes \union {Garbage} /\ buf[s][2] \in Nat
  BY <1>1 DEF Content
<1>5. buf' \in [Slots -> Content]
  BY <1>2, <1>3, <1>4 DEF Content
<1>6. TypeInv' /\ HeadsInv' /\ ScratchInv'
  BY <1>5 DEF IInv, TypeInv, HeadsInv, ScratchInv, encryption_cipher, heads
<1>7. \A i \in 1 .. size : i \in 1 .. Capacity /\ Behind(read_head, i) \in Slots
  BY <1>1, Parameters, BehindIsSlot
<1>8. /\ Contents = [i \in 1 .. size |-> buf[Behind(read_head, i)]]
      /\ Contents' = [i \in 1 .. size |-> buf'[Behind(read_head, i)]]
      /\ size' = size /\ moved' = <<>>
  BY DEF Contents, Behind, encryption_cipher, heads
<1>9. CASE plain
  <2>1. Contents' = [i \in 1 .. size |->
           <<buf[Behind(read_head, i)][1], buf[Behind(read_head, i)][2] + 1>>]
    BY <1>2, <1>3, <1>7, <1>8, <1>9
  <2>2. Fifo!Cipher
    BY <1>8, <2>1 DEF Fifo!Cipher
  <2>3. QED BY <1>6, <2>2 DEF Simulates, IInv, Fifo!Next
<1>10. CASE ~plain
  <2>1. ASSUME NEW i \in 1 .. size
        PROVE  Contents'[i][1] = Contents[i][1] /\ Contents'[i][2] > Contents[i][2]
    <3> DEFINE s == Behind(read_head, i)
               c == Cardinality(places(s))
    <3>1. s \in Slots /\ c \in Nat /\ c > 0 /\ buf[s][2] \in Nat
      BY <1>2, <1>4, <1>7
    <3>2. Contents'[i] = <<buf[s][1], buf[s][2] + c>> /\ Contents[i] = buf[s]
      BY <1>3, <1>7, <1>8
    <3> HIDE DEF s, c
    <3>3. QED BY <3>1, <3>2
  <2>2. Overlapped
    BY <1>1, <1>8, <1>10, <2>1 DEF Overlapped
  <2>3. QED BY <1>6, <2>2 DEF Simulates, IInv
<1>11. QED BY <1>9, <1>10

LEMMA CopySimulates == IInv /\ bytebuf_write_buffer => Simulates
<1> SUFFICES ASSUME IInv, bytebuf_write_buffer
             PROVE  Simulates
  OBVIOUS
<1>1. /\ moved' = Gather(read_regions) /\ Contents' = Contents
      /\ TypeInv /\ HeadsInv /\ size \in Nat /\ size <= Capacity
  BY Parameters DEF IInv, TypeInv, Contents, bytebuf_write_buffer, heads
<1>2. IInv'
  BY DEF IInv, TypeInv, HeadsInv, ScratchInv, bytebuf_write_buffer, heads
<1>3. CASE size < Capacity \/ read_head = 0
  <2>1. Fifo!Copy
    BY <1>1, <1>3, ReadRegionsHold DEF Fifo!Copy
  <2>2. QED BY <1>2, <2>1 DEF Simulates, Fifo!Next
<1>4. CASE size = Capacity /\ read_head # 0
  <2>1. Len(moved') > size /\ \A i \in 1 .. size : moved'[i] = Contents[i]
    BY <1>1, <1>4, ReadRegionsOverlap
  <2>2. Overlapped
    BY <1>1, <1>4, <2>1 DEF Overlapped
  <2>3. QED BY <1>2, <2>2 DEF Simulates
<1>5. QED BY <1>1, <1>3, <1>4, Parameters

LEMMA RenewSimulates == IInv /\ bytebuf_create_fixed => Simulates
<1> SUFFICES ASSUME IInv, bytebuf_create_fixed
             PROVE  Simulates
  OBVIOUS
<1>1. HeadsInv'
  BY Parameters DEF HeadsInv, bytebuf_create_fixed
<1>2. IInv'
  BY <1>1, Parameters
  DEF IInv, TypeInv, ScratchInv, bytebuf_create_fixed, Slots
<1>3. Contents' = <<>>
  BY DEF Contents, bytebuf_create_fixed
<1>4. QED BY <1>2, <1>3 DEF Simulates, Fifo!Next, Fifo!Renew, bytebuf_create_fixed

LEMMA NextSimulates == IInv /\ [Next]_vars => Simulates
<1>1. ASSUME IInv, UNCHANGED vars
      PROVE  Simulates
  BY <1>1 DEF Simulates, vars, heads, Fifo!vars, Contents, IInv, TypeInv, HeadsInv,
     ScratchInv
<1>2. QED
  BY <1>1, RecvSimulates, ReadSimulates, WriteSimulates, PrependSimulates, CipherSimulates,
     CopySimulates, RenewSimulates, SendSimulates DEF Next

(* Heads, size and storage agree, and what the scratch buffer holds never  *)
(* crosses the end but at the border of prefix and body.                   *)
THEOREM HeadsAgree == Spec => [](TypeInv /\ HeadsInv /\ ScratchInv)
<1>1. IInv /\ [Next]_vars => IInv'
  BY NextSimulates DEF Simulates
<1>2. IInv => TypeInv /\ HeadsInv /\ ScratchInv
  BY DEF IInv
<1>3. QED BY <1>1, <1>2, InitSimulates, PTL DEF Spec

(* FifoButAtTheEnd: for every capacity, set of bytes and size of writes,   *)
(* each operation on the ring of slots does what the FIFO of bytes would   *)
(* do, unless a write for send_buffer goes around the end or a full buffer *)
(* is read through regions; then it spoils what Straddled and Overlapped   *)
(* say, and nothing else.                                                  *)
THEOREM FifoHoldsButAtTheEnd == Spec => FifoButAtTheEnd
<1>1. IInv /\ [Next]_vars => IInv' /\ [Fifo!Next \/ Straddled \/ Overlapped]_Fifo!vars
  BY NextSimulates DEF Simulates
<1>2. QED BY <1>1, InitSimulates, PTL DEF Spec, FifoButAtTheEnd
=============================================================================
