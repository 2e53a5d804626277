------------------------------ MODULE JsonProofs ------------------------------
(***************************************************************************)
(* Proofs about Json and the containers it is made of.                     *)
(***************************************************************************)
EXTENDS Json, SequenceTheorems, FiniteSetTheorems, WellFoundedInduction, TLAPS

(* A set of naturals that is not empty has a least element.                *)
LEMMA Least ==
  ASSUME NEW S, S \subseteq Nat, S # {}
  PROVE  \E n \in S : \A m \in S : n <= m
<1> DEFINE R == {ss \in Nat \X Nat : ss[1] < ss[2]}
<1>1. IsWellFoundedOn(R, Nat)
  BY NatLessThanWellFounded, Zenon DEF OpToRel
<1> HIDE DEF R
<1>2. \E n \in S : \A m \in S : ~(<<m, n>> \in R)
  BY <1>1, WFMin
<1>3. \A m, n \in Nat : <<m, n>> \in R <=> m < n
  BY DEF R
<1>4. PICK n \in S : \A m \in S : ~(<<m, n>> \in R)
  BY <1>2
<1>5. ASSUME NEW m \in S
      PROVE  n <= m
  <2>1. m \in Nat /\ n \in Nat /\ ~(<<m, n>> \in R)
    BY <1>4
  <2>2. ~(m < n)
    BY <2>1, <1>3
  <2>3. QED BY <2>1, <2>2
<1>6. QED BY <1>5

(* Induction, by the least counterexample                                  *)
LEMMA Induction ==
  ASSUME NEW S, 0 \in S, \A n \in Nat : n \in S => n + 1 \in S
  PROVE  Nat \subseteq S
<1> DEFINE T == Nat \ S
<1>1. SUFFICES ASSUME T # {} PROVE FALSE
  OBVIOUS
<1>2. PICK n \in T : \A m \in T : n <= m
  BY <1>1, Least
<1>3. n - 1 \in Nat /\ n - 1 \notin T
  BY <1>2
<1>4. QED BY <1>2, <1>3
-----------------------------------------------------------------------------
(* Before as a sum over the blocks: the recursive function exists.         *)
Sums(f, N, blocks) ==
    f = [n \in 1 .. N |-> IF n = 1 THEN 0 ELSE f[n - 1] + Len(blocks[n - 1])]

LEMMA SumsExist ==
  ASSUME NEW blocks, NEW N \in Nat
  PROVE  \E f : Sums(f, N, blocks)
<1> DEFINE S == {n \in Nat : \E f : Sums(f, n, blocks)}
<1>1. 0 \in S
  <2>1. Sums([n \in 1 .. 0 |-> 0], 0, blocks)
    BY DEF Sums
  <2>2. QED BY <2>1
<1>2. ASSUME NEW n \in Nat, n \in S PROVE n + 1 \in S
  <2>1. PICK f : Sums(f, n, blocks)
    BY <1>2
  <2> DEFINE g == [m \in 1 .. n + 1 |->
                      IF m \in 1 .. n THEN f[m]
                      ELSE IF m = 1 THEN 0 ELSE f[m - 1] + Len(blocks[m - 1])]
  <2>2. ASSUME NEW m \in 1 .. n + 1
        PROVE  g[m] = IF m = 1 THEN 0 ELSE g[m - 1] + Len(blocks[m - 1])
    BY <2>1 DEF Sums
  <2>3. Sums(g, n + 1, blocks)
    BY <2>2 DEF Sums
  <2>4. QED BY <2>3
<1>3. QED BY <1>1, <1>2, Induction

LEMMA BeforeDef ==
  ASSUME NEW blocks, Len(blocks) \in Nat, NEW n \in 1 .. Len(blocks) + 1
  PROVE  Before(blocks, n) = IF n = 1 THEN 0 ELSE Before(blocks, n - 1) + Len(blocks[n - 1])
<1> DEFINE N == Len(blocks) + 1
           before == CHOOSE f : Sums(f, N, blocks)
<1>1. Sums(before, N, blocks)
  <2>1. N \in Nat
    OBVIOUS
  <2> HIDE DEF N
  <2>2. \E f : Sums(f, N, blocks)
    BY <2>1, SumsExist
  <2>3. QED BY <2>2, Zenon
<1>2. \A b : Before(blocks, b) = before[b]
  BY DEF Before, Sums
<1>3. QED BY <1>1, <1>2 DEF Sums

LEMMA BeforeNat ==
  ASSUME NEW T, NEW blocks \in Seq(Seq(T)), NEW n \in 1 .. Len(blocks) + 1
  PROVE  Before(blocks, n) \in Nat
<1> DEFINE S == {m \in Nat : m + 1 <= Len(blocks) + 1 => Before(blocks, m + 1) \in Nat}
<1>1. Len(blocks) \in Nat /\ \A m \in 1 .. Len(blocks) : Len(blocks[m]) \in Nat
  OBVIOUS
<1>2. 0 \in S
  BY <1>1, BeforeDef
<1>3. ASSUME NEW m \in Nat, m \in S PROVE m + 1 \in S
  <2>1. SUFFICES ASSUME m + 2 <= Len(blocks) + 1
                 PROVE  Before(blocks, m + 2) \in Nat
    BY <1>1
  <2>2. Before(blocks, m + 2) = Before(blocks, m + 1) + Len(blocks[m + 1])
    BY <1>1, <2>1, BeforeDef
  <2>3. QED BY <1>1, <1>3, <2>1, <2>2
<1> HIDE DEF S
<1>4. Nat \subseteq S
  BY <1>2, <1>3, Induction
<1>5. n - 1 \in Nat /\ (n - 1) + 1 = n /\ n - 1 \in S
  BY <1>1, <1>4
<1>6. QED BY <1>1, <1>5 DEF S

LEMMA BeforeNext ==
  ASSUME NEW T, NEW blocks \in Seq(Seq(T)), NEW b \in 1 .. Len(blocks)
  PROVE  Before(blocks, b + 1) = Before(blocks, b) + Len(blocks[b])
<1>1. b + 1 \in 1 .. Len(blocks) + 1 /\ Len(blocks) \in Nat
  OBVIOUS
<1>2. (b + 1) - 1 = b /\ b + 1 # 1
  OBVIOUS
<1>3. QED BY <1>1, <1>2, BeforeDef

LEMMA BeforeGrows ==
  ASSUME NEW T, NEW blocks \in Seq(Seq(T)),
         NEW m \in 1 .. Len(blocks) + 1, NEW n \in m .. Len(blocks) + 1
  PROVE  Before(blocks, m) <= Before(blocks, n)
<1> DEFINE S == {k \in Nat : m + k <= Len(blocks) + 1 =>
                             Before(blocks, m) <= Before(blocks, m + k)}
<1>1. Len(blocks) \in Nat
  OBVIOUS
<1>2. 0 \in S
  BY <1>1, BeforeNat
<1>3. ASSUME NEW k \in Nat, k \in S PROVE k + 1 \in S
  <2>1. SUFFICES ASSUME m + k + 1 <= Len(blocks) + 1
                 PROVE  Before(blocks, m) <= Before(blocks, m + k + 1)
    BY <1>1
  <2>2. m + k \in 1 .. Len(blocks)
    BY <1>1, <2>1
  <2>3. Before(blocks, m + k + 1) = Before(blocks, m + k) + Len(blocks[m + k])
    BY <2>2, BeforeNext
  <2>4. /\ Len(blocks[m + k]) \in Nat
        /\ Before(blocks, m) \in Nat /\ Before(blocks, m + k) \in Nat
    BY <2>2, <1>1, BeforeNat
  <2>5. Before(blocks, m) <= Before(blocks, m + k)
    BY <1>3, <2>2
  <2>6. QED BY <2>3, <2>4, <2>5
<1> HIDE DEF S
<1>4. Nat \subseteq S
  BY <1>2, <1>3, Induction
<1>5. n - m \in Nat /\ m + (n - m) = n /\ n - m \in S
  BY <1>1, <1>4
<1>6. QED BY <1>1, <1>5 DEF S

(* Before depends on the lengths of the blocks only.                       *)
LEMMA BeforeSame ==
  ASSUME NEW T, NEW blocks \in Seq(Seq(T)), NEW others \in Seq(Seq(T)),
         NEW n \in 1 .. Len(blocks) + 1, n <= Len(others) + 1,
         \A b \in 1 .. n - 1 : Len(blocks[b]) = Len(others[b])
  PROVE  Before(blocks, n) = Before(others, n)
<1> DEFINE S == {k \in Nat : k + 1 <= n => Before(blocks, k + 1) = Before(others, k + 1)}
<1>1. Len(blocks) \in Nat /\ Len(others) \in Nat
  OBVIOUS
<1>2. 0 \in S
  BY <1>1, BeforeDef
<1>3. ASSUME NEW k \in Nat, k \in S PROVE k + 1 \in S
  <2>1. SUFFICES ASSUME k + 2 <= n
                 PROVE  Before(blocks, k + 2) = Before(others, k + 2)
    BY <1>1
  <2>2. /\ Before(blocks, k + 2) = Before(blocks, k + 1) + Len(blocks[k + 1])
        /\ Before(others, k + 2) = Before(others, k + 1) + Len(others[k + 1])
    BY <1>1, <2>1, BeforeDef
  <2>3. QED BY <1>3, <2>1, <2>2
<1> HIDE DEF S
<1>4. Nat \subseteq S
  BY <1>2, <1>3, Induction
<1>5. n - 1 \in Nat /\ (n - 1) + 1 = n /\ n - 1 \in S
  BY <1>1, <1>4
<1>6. QED BY <1>1, <1>5 DEF S

(* get_block_from_index finds the block that holds an index.               *)
LEMMA PlaceExists ==
  ASSUME NEW T, NEW blocks \in Seq(Seq(T)),
         NEW i \in Nat, i < Before(blocks, Len(blocks) + 1)
  PROVE  \E b \in 1 .. Len(blocks) : Before(blocks, b) <= i /\ i < Before(blocks, b + 1)
<1> DEFINE S == {n \in Nat : /\ n \in 1 .. Len(blocks) + 1
                             /\ i < Before(blocks, n)}
<1>1. Len(blocks) \in Nat
  OBVIOUS
<1>2. S # {}
  BY <1>1
<1>3. PICK n \in S : \A m \in S : n <= m
  BY <1>2, Least
<1>4. n # 1
  BY <1>1, <1>3, BeforeDef
<1>5. n - 1 \in 1 .. Len(blocks)
  BY <1>1, <1>3, <1>4
<1>6. n - 1 \notin S
  BY <1>3
<1>7. Before(blocks, n - 1) \in Nat
  BY <1>1, <1>5, BeforeNat
<1>8. (n - 1) + 1 = n
  BY <1>3
<1>9. QED BY <1>3, <1>5, <1>6, <1>7, <1>8

LEMMA Place ==
  ASSUME NEW T, NEW blocks \in Seq(Seq(T)), NEW i \in Nat, NEW b \in 1 .. Len(blocks),
         Before(blocks, b) <= i, i < Before(blocks, b + 1)
  PROVE  get_block_from_index(blocks, i) = <<b, i - Before(blocks, b)>>
<1> DEFINE In(c) == Before(blocks, c) <= i /\ i < Before(blocks, c + 1)
           c == CHOOSE d \in DOMAIN blocks : In(d)
<1>1. Len(blocks) \in Nat /\ DOMAIN blocks = 1 .. Len(blocks)
  OBVIOUS
<1>2. c \in 1 .. Len(blocks) /\ In(c)
  <2>1. \E d \in DOMAIN blocks : In(d)
    BY <1>1
  <2> HIDE DEF In
  <2>2. QED BY <2>1, <1>1
<1> HIDE DEF c
<1>3. /\ Before(blocks, b) \in Nat /\ Before(blocks, b + 1) \in Nat
      /\ Before(blocks, c) \in Nat /\ Before(blocks, c + 1) \in Nat
  BY <1>1, <1>2, BeforeNat
<1>4. ~(b < c)
  <2>1. SUFFICES ASSUME b < c PROVE FALSE
    OBVIOUS
  <2>2. b + 1 \in 1 .. Len(blocks) + 1 /\ c \in b + 1 .. Len(blocks) + 1
    BY <1>1, <1>2, <2>1
  <2>3. Before(blocks, b + 1) <= Before(blocks, c)
    BY <2>2, BeforeGrows
  <2>4. QED BY <1>2, <1>3, <2>3
<1>5. ~(c < b)
  <2>1. SUFFICES ASSUME c < b PROVE FALSE
    OBVIOUS
  <2>2. c + 1 \in 1 .. Len(blocks) + 1 /\ b \in c + 1 .. Len(blocks) + 1
    BY <1>1, <1>2, <2>1
  <2>3. Before(blocks, c + 1) <= Before(blocks, b)
    BY <2>2, BeforeGrows
  <2>4. QED BY <1>2, <1>3, <2>3
<1>6. c = b
  BY <1>1, <1>2, <1>4, <1>5
<1>7. QED BY <1>6 DEF get_block_from_index, c
-----------------------------------------------------------------------------
(* A growing vector whose elements are in T: the block that takes the next *)
(* element is the last one, and the capacity is that of all blocks.        *)
Vectors(T) == [blocks : Seq(Seq(T)), current : Nat, next_insert_index : Nat, capacity : Nat,
               size : Nat, dynamic : BOOLEAN, memory : T, spoiled : BOOLEAN]
VectInv(v, T) ==
    /\ v \in Vectors(T)
    /\ v.current = Len(v.blocks) /\ v.current >= 1
    /\ v.next_insert_index <= Len(v.blocks[v.current])
    /\ v.size = Before(v.blocks, v.current) + v.next_insert_index
    /\ v.capacity = Before(v.blocks, v.current + 1)
    /\ v.capacity >= 2
    /\ v.dynamic /\ ~v.spoiled

LEMMA VectInit ==
  ASSUME NEW T, NEW memory \in T, NEW cap \in Nat, cap >= 2
  PROVE  /\ VectInv(vect_init_dynamic(cap, memory), T)
         /\ vect_init_dynamic(cap, memory).size = 0
<1> DEFINE block == alloc_block(cap, memory)
           blocks == <<block>>
           v == vect_init(cap, memory)
           w == vect_init_dynamic(cap, memory)
<1>1. block \in Seq(T) /\ Len(block) = cap
  BY DEF alloc_block
<1> HIDE DEF block
<1>2. blocks \in Seq(Seq(T)) /\ Len(blocks) = 1 /\ blocks[1] = block
  BY <1>1
<1>3. v = [blocks |-> blocks, current |-> 1, next_insert_index |-> 0, capacity |-> cap,
           size |-> 0, dynamic |-> FALSE, memory |-> memory, spoiled |-> FALSE]
  BY DEF vect_init, block
<1> HIDE DEF blocks, v
<1>4. /\ v \in Vectors(T)
      /\ v.blocks = blocks /\ v.current = 1 /\ v.next_insert_index = 0 /\ v.capacity = cap
      /\ v.size = 0 /\ v.spoiled = FALSE
  BY <1>2, <1>3 DEF Vectors
<1>5. w = [v EXCEPT !.dynamic = TRUE]
  BY DEF vect_init_dynamic, v
<1> HIDE DEF w
<1>6. /\ w \in Vectors(T)
      /\ w.blocks = blocks /\ w.current = 1 /\ w.next_insert_index = 0 /\ w.capacity = cap
      /\ w.size = 0 /\ w.spoiled = FALSE /\ w.dynamic = TRUE
  BY ONLY <1>4, <1>5 DEF Vectors
<1>7. Before(blocks, 1) = 0
  BY <1>2, BeforeDef
<1>8. Before(blocks, 1 + 1) = cap
  <2>1. Before(blocks, 1 + 1) = Before(blocks, 1) + Len(blocks[1])
    <3>1. 1 \in 1 .. Len(blocks)
      BY <1>2
    <3>2. QED BY ONLY <1>2, <3>1, BeforeNext
  <2>2. QED BY <1>1, <1>2, <1>7, <2>1
<1>9. VectInv(w, T)
  BY <1>1, <1>2, <1>6, <1>7, <1>8 DEF VectInv
<1>10. QED BY <1>6, <1>9 DEF w

(* A vector with one of its fields changed                                  *)
LEMMA PutCurrent ==
  ASSUME NEW T, NEW v \in Vectors(T), NEW x \in Nat
  PROVE  LET w == [v EXCEPT !.current = x]
         IN  /\ w \in Vectors(T) /\ w.current = x
             /\ w.blocks = v.blocks /\ w.next_insert_index = v.next_insert_index
             /\ w.capacity = v.capacity /\ w.size = v.size /\ w.dynamic = v.dynamic
             /\ w.spoiled = v.spoiled
BY DEF Vectors

LEMMA PutNext ==
  ASSUME NEW T, NEW v \in Vectors(T), NEW x \in Nat
  PROVE  LET w == [v EXCEPT !.next_insert_index = x]
         IN  /\ w \in Vectors(T) /\ w.next_insert_index = x
             /\ w.blocks = v.blocks /\ w.current = v.current /\ w.capacity = v.capacity
             /\ w.size = v.size /\ w.dynamic = v.dynamic /\ w.spoiled = v.spoiled
BY DEF Vectors

LEMMA PutCapacity ==
  ASSUME NEW T, NEW v \in Vectors(T), NEW x \in Nat
  PROVE  LET w == [v EXCEPT !.capacity = x]
         IN  /\ w \in Vectors(T) /\ w.capacity = x
             /\ w.blocks = v.blocks /\ w.current = v.current
             /\ w.next_insert_index = v.next_insert_index /\ w.size = v.size
             /\ w.dynamic = v.dynamic /\ w.spoiled = v.spoiled
BY DEF Vectors

LEMMA PutSize ==
  ASSUME NEW T, NEW v \in Vectors(T), NEW x \in Nat
  PROVE  LET w == [v EXCEPT !.size = x]
         IN  /\ w \in Vectors(T) /\ w.size = x
             /\ w.blocks = v.blocks /\ w.current = v.current
             /\ w.next_insert_index = v.next_insert_index /\ w.capacity = v.capacity
             /\ w.dynamic = v.dynamic /\ w.spoiled = v.spoiled
BY DEF Vectors

(* What vect_add makes of a vector: it writes into the last block, or into *)
(* a new one.                                                              *)
LEMMA VectAddRoom ==
  ASSUME NEW T, NEW v, VectInv(v, T), NEW e \in T, v.size + 1 <= v.capacity
  PROVE  LET w == vect_add(v, e)
         IN  /\ v.next_insert_index < Len(v.blocks[v.current])
             /\ w \in Vectors(T)
             /\ w.blocks = [v.blocks EXCEPT ![v.current] =
                               [v.blocks[v.current] EXCEPT ![v.next_insert_index + 1] = e]]
             /\ w.next_insert_index = v.next_insert_index + 1
             /\ w.size = v.size + 1
             /\ w.current = v.current /\ w.capacity = v.capacity
             /\ w.dynamic = v.dynamic /\ w.spoiled = v.spoiled
<1>1. v.blocks \in Seq(Seq(T)) /\ v.current \in 1 .. Len(v.blocks)
  BY DEF VectInv, Vectors
<1>2. Before(v.blocks, v.current + 1) = Before(v.blocks, v.current) + Len(v.blocks[v.current])
  BY <1>1, BeforeNext
<1>3. Before(v.blocks, v.current) \in Nat /\ Len(v.blocks[v.current]) \in Nat
  BY <1>1, BeforeNat
<1>4. v.next_insert_index < Len(v.blocks[v.current])
  BY <1>2, <1>3 DEF VectInv, Vectors
<1>5. CanHold(v, v.size + 1) /\ ensure_capacity(v, v.size + 1) = v
  BY DEF CanHold, ensure_capacity, vect_cap
<1> DEFINE bs == [v.blocks EXCEPT ![v.current] =
                    [v.blocks[v.current] EXCEPT ![v.next_insert_index + 1] = e]]
           x == [v EXCEPT !.blocks = bs]
<1>6. Written(v, e) = x
  BY <1>4 DEF Written
<1>7. v.blocks[v.current] \in Seq(T) /\ v.next_insert_index \in Nat
  BY <1>1 DEF VectInv, Vectors
<1>8. [v.blocks[v.current] EXCEPT ![v.next_insert_index + 1] = e] \in Seq(T)
  BY <1>4, <1>7
<1>9. bs \in Seq(Seq(T))
  BY <1>1, <1>8
<1> HIDE DEF bs
<1>10. /\ x \in Vectors(T)
       /\ x.blocks = bs /\ x.current = v.current /\ x.capacity = v.capacity
       /\ x.dynamic = v.dynamic /\ x.spoiled = v.spoiled /\ x.size = v.size
       /\ x.next_insert_index = v.next_insert_index
  BY <1>9 DEF VectInv, Vectors
<1>11. vect_add(v, e) = [x EXCEPT !.size = @ + 1, !.next_insert_index = @ + 1]
  BY <1>5, <1>6, Zenon DEF vect_add, register_addition
<1> HIDE DEF x
<1>12. LET w == [x EXCEPT !.size = @ + 1, !.next_insert_index = @ + 1]
       IN  /\ w \in Vectors(T)
           /\ w.blocks = x.blocks /\ w.current = x.current /\ w.capacity = x.capacity
           /\ w.dynamic = x.dynamic /\ w.spoiled = x.spoiled /\ w.size = x.size + 1
           /\ w.next_insert_index = x.next_insert_index + 1
  <2> DEFINE u == [x EXCEPT !.size = x.size + 1]
  <2>1. x.size + 1 \in Nat /\ x.next_insert_index + 1 \in Nat
    BY ONLY <1>10 DEF Vectors
  <2>2. /\ u \in Vectors(T)
        /\ u.blocks = x.blocks /\ u.current = x.current /\ u.capacity = x.capacity
        /\ u.dynamic = x.dynamic /\ u.spoiled = x.spoiled /\ u.size = x.size + 1
        /\ u.next_insert_index = x.next_insert_index
    BY ONLY <1>10, <2>1, PutSize
  <2>3. [x EXCEPT !.size = @ + 1, !.next_insert_index = @ + 1]
            = [u EXCEPT !.next_insert_index = x.next_insert_index + 1]
    OBVIOUS
  <2> HIDE DEF u
  <2>4. QED BY ONLY <1>10, <2>1, <2>2, <2>3, PutNext
<1>13. QED BY <1>4, <1>10, <1>11, <1>12 DEF bs

LEMMA VectAddGrows ==
  ASSUME NEW T, NEW v, VectInv(v, T), NEW e \in T, ~(v.size + 1 <= v.capacity)
  PROVE  LET w == vect_add(v, e)
         IN  /\ v.size = v.capacity
             /\ w \in Vectors(T)
             /\ \E first \in Seq(T) :
                   /\ w.blocks = Append(v.blocks, first)
                   /\ Len(first) = v.capacity \div 2 /\ first[1] = e
             /\ w.next_insert_index = 1
             /\ w.size = v.size + 1
             /\ w.current = v.current + 1 /\ w.capacity = v.capacity + v.capacity \div 2
             /\ w.dynamic = v.dynamic /\ w.spoiled = v.spoiled
<1> DEFINE half == v.capacity \div 2
           new == alloc_block(half, v.memory)
           first == [new EXCEPT ![1] = e]
           N == Len(v.blocks)
<1>1. v.blocks \in Seq(Seq(T)) /\ v.current \in 1 .. Len(v.blocks)
  BY DEF VectInv, Vectors
<1>2. Before(v.blocks, v.current + 1) = Before(v.blocks, v.current) + Len(v.blocks[v.current])
  BY <1>1, BeforeNext
<1>3. Before(v.blocks, v.current) \in Nat /\ Len(v.blocks[v.current]) \in Nat
  BY <1>1, BeforeNat
<1>4. v.size = v.capacity /\ v.next_insert_index = Len(v.blocks[v.current])
  BY <1>2, <1>3 DEF VectInv, Vectors
<1>5. half \in Nat /\ half >= 1 /\ v.memory \in T
  BY DEF VectInv, Vectors
<1> HIDE DEF half
<1>6. /\ new \in Seq(T) /\ Len(new) = half
      /\ first \in Seq(T) /\ Len(first) = half /\ first[1] = e
  BY <1>5 DEF alloc_block
<1>7. SubSeq(v.blocks, 1, v.current) = v.blocks
  BY <1>1, SubSeqFull DEF VectInv
<1>8. CanHold(v, v.size + 1)
  BY DEF CanHold, VectInv
<1> DEFINE bs == Append(v.blocks, new)
           x == [v EXCEPT !.blocks = bs, !.capacity = @ + half]
           grown == [x EXCEPT !.current = @ + 1, !.next_insert_index = 0]
<1> HIDE DEF new, first
<1>9. /\ bs \in Seq(Seq(T)) /\ bs[N + 1] = new /\ Len(bs) = N + 1 /\ N \in Nat
  BY <1>1, <1>6
<1>10. ensure_capacity(v, v.size + 1) = grown
  BY <1>4, <1>7 DEF ensure_capacity, vect_cap, VectInv, Vectors, new, half
<1>11. /\ x \in Vectors(T)
       /\ x.blocks = bs /\ x.current = v.current /\ x.capacity = v.capacity + half
       /\ x.dynamic = v.dynamic /\ x.spoiled = v.spoiled /\ x.size = v.size
  <2> DEFINE u == [v EXCEPT !.blocks = bs]
  <2>1. v \in Vectors(T) /\ v.capacity + half \in Nat
    BY <1>5 DEF VectInv, Vectors
  <2>2. /\ u \in Vectors(T)
        /\ u.blocks = bs /\ u.current = v.current /\ u.capacity = v.capacity
        /\ u.dynamic = v.dynamic /\ u.spoiled = v.spoiled /\ u.size = v.size
    BY ONLY <1>9, <2>1 DEF Vectors
  <2>3. x = [u EXCEPT !.capacity = v.capacity + half]
    OBVIOUS
  <2> HIDE DEF u, x, bs
  <2>4. QED BY ONLY <2>1, <2>2, <2>3, PutCapacity
<1> HIDE DEF x, bs
<1>12. /\ grown \in Vectors(T)
       /\ grown.blocks = x.blocks /\ grown.current = x.current + 1
       /\ grown.capacity = x.capacity /\ grown.next_insert_index = 0
       /\ grown.dynamic = x.dynamic /\ grown.spoiled = x.spoiled /\ grown.size = x.size
  <2> DEFINE u == [x EXCEPT !.current = x.current + 1]
  <2>1. x.current + 1 \in Nat /\ 0 \in Nat
    BY ONLY <1>11 DEF Vectors
  <2>2. /\ u \in Vectors(T)
        /\ u.blocks = x.blocks /\ u.current = x.current + 1 /\ u.capacity = x.capacity
        /\ u.dynamic = x.dynamic /\ u.spoiled = x.spoiled /\ u.size = x.size
    BY ONLY <1>11, <2>1, PutCurrent
  <2>3. grown = [u EXCEPT !.next_insert_index = 0]
    OBVIOUS
  <2> HIDE DEF u, grown
  <2>4. QED BY ONLY <2>1, <2>2, <2>3, PutNext
<1> HIDE DEF grown
<1> DEFINE cs == [bs EXCEPT ![N + 1] = [bs[N + 1] EXCEPT ![1] = e]]
           y == [grown EXCEPT !.blocks = cs]
<1>13. grown.current = N + 1 /\ grown.blocks = bs
  BY <1>11, <1>12 DEF VectInv
<1>14. Written(grown, e) = y
  <2>1. grown.next_insert_index < Len(grown.blocks[grown.current])
    BY <1>5, <1>6, <1>9, <1>12, <1>13
  <2>2. Written(grown, e) =
          [grown EXCEPT !.blocks = [bs EXCEPT ![N + 1] = [bs[N + 1] EXCEPT ![0 + 1] = e]]]
    BY <2>1, <1>12, <1>13 DEF Written
  <2>3. QED BY <2>2
<1>15. cs = Append(v.blocks, first)
  <2>1. bs[N + 1] = new
    BY <1>9
  <2>2. cs = [bs EXCEPT ![N + 1] = first]
    BY <2>1 DEF first
  <2>3. DOMAIN cs = 1 .. N + 1 /\ \A i \in 1 .. N + 1 : cs[i] = IF i = N + 1 THEN first ELSE bs[i]
    <3>1. DOMAIN bs = 1 .. N + 1
      BY <1>9
    <3> HIDE DEF cs
    <3>2. QED BY ONLY <3>1, <2>2
  <2>4. \A i \in 1 .. N : bs[i] = v.blocks[i]
    BY <1>1, <1>6 DEF bs
  <2> DEFINE ds == Append(v.blocks, first)
  <2>5. /\ DOMAIN ds = 1 .. N + 1 /\ ds[N + 1] = first
        /\ \A i \in 1 .. N : ds[i] = v.blocks[i]
    BY <1>1, <1>6
  <2>6. ds = [i \in DOMAIN ds |-> ds[i]] /\ cs = [i \in DOMAIN cs |-> cs[i]]
    OBVIOUS
  <2> HIDE DEF ds, cs
  <2>7. \A i \in 1 .. N + 1 : ds[i] = cs[i]
    BY <2>3, <2>4, <2>5, <1>9
  <2>8. QED BY <2>3, <2>5, <2>6, <2>7 DEF ds
<1>16. cs \in Seq(Seq(T))
  <2> HIDE DEF cs
  <2>1. QED BY <1>1, <1>6, <1>15
<1> HIDE DEF cs
<1>17. /\ y \in Vectors(T)
       /\ y.blocks = cs /\ y.current = grown.current
       /\ y.capacity = grown.capacity /\ y.next_insert_index = 0
       /\ y.dynamic = grown.dynamic /\ y.spoiled = grown.spoiled /\ y.size = grown.size
  BY ONLY <1>12, <1>16 DEF Vectors
<1> HIDE DEF y
<1>18. vect_add(v, e) = [y EXCEPT !.size = @ + 1, !.next_insert_index = @ + 1]
  BY <1>8, <1>10, <1>14, Zenon DEF vect_add, register_addition
<1>19. LET w == [y EXCEPT !.size = @ + 1, !.next_insert_index = @ + 1]
       IN  /\ w \in Vectors(T)
           /\ w.blocks = y.blocks /\ w.current = y.current /\ w.capacity = y.capacity
           /\ w.dynamic = y.dynamic /\ w.spoiled = y.spoiled /\ w.size = y.size + 1
           /\ w.next_insert_index = 1
  <2> DEFINE u == [y EXCEPT !.size = y.size + 1]
  <2>1. y.size + 1 \in Nat /\ y.next_insert_index + 1 \in Nat
    BY ONLY <1>17 DEF Vectors
  <2>2. /\ u \in Vectors(T)
        /\ u.blocks = y.blocks /\ u.current = y.current /\ u.capacity = y.capacity
        /\ u.dynamic = y.dynamic /\ u.spoiled = y.spoiled /\ u.size = y.size + 1
        /\ u.next_insert_index = y.next_insert_index
    BY ONLY <1>17, <2>1, PutSize
  <2>3. [y EXCEPT !.size = @ + 1, !.next_insert_index = @ + 1]
            = [u EXCEPT !.next_insert_index = y.next_insert_index + 1]
    OBVIOUS
  <2> HIDE DEF u
  <2>4. QED BY ONLY <1>17, <2>1, <2>2, <2>3, PutNext
<1>20. QED BY <1>4, <1>6, <1>11, <1>12, <1>15, <1>17, <1>18, <1>19 DEF half

(* vect_get reads the element where its index puts it in the blocks.       *)
LEMMA VectGetAt ==
  ASSUME NEW T, NEW v, v.blocks \in Seq(Seq(T)), NEW i \in Nat, NEW b \in 1 .. Len(v.blocks),
         Before(v.blocks, b) <= i, i < Before(v.blocks, b + 1)
  PROVE  vect_get(v, i) = v.blocks[b][i - Before(v.blocks, b) + 1]
<1> DEFINE place == get_block_from_index(v.blocks, i)
<1>1. place = <<b, i - Before(v.blocks, b)>>
  BY Place
<1>2. place[1] = b /\ place[2] = i - Before(v.blocks, b)
  BY <1>1
<1>3. QED BY <1>2 DEF vect_get

LEMMA VectHolds ==
  ASSUME NEW T, NEW v, VectInv(v, T), NEW i \in Nat, i < v.size
  PROVE  \E b \in 1 .. Len(v.blocks) :
            /\ Before(v.blocks, b) <= i /\ i < Before(v.blocks, b + 1)
            /\ i - Before(v.blocks, b) + 1 \in 1 .. Len(v.blocks[b])
            /\ vect_get(v, i) = v.blocks[b][i - Before(v.blocks, b) + 1]
<1>1. v.blocks \in Seq(Seq(T)) /\ v.current = Len(v.blocks) /\ v.current \in 1 .. Len(v.blocks)
  BY DEF VectInv, Vectors
<1>2. Before(v.blocks, v.current + 1) = Before(v.blocks, v.current) + Len(v.blocks[v.current])
  BY <1>1, BeforeNext
<1>3. Before(v.blocks, v.current) \in Nat /\ Len(v.blocks[v.current]) \in Nat
  BY <1>1, BeforeNat
<1>4. i < Before(v.blocks, Len(v.blocks) + 1)
  BY <1>1, <1>2, <1>3 DEF VectInv, Vectors
<1>5. PICK b \in 1 .. Len(v.blocks) :
          Before(v.blocks, b) <= i /\ i < Before(v.blocks, b + 1)
  BY <1>1, <1>4, PlaceExists
<1>6. Before(v.blocks, b + 1) = Before(v.blocks, b) + Len(v.blocks[b])
  BY <1>1, BeforeNext
<1>7. Before(v.blocks, b) \in Nat /\ Len(v.blocks[b]) \in Nat
  BY <1>1, BeforeNat
<1>8. i - Before(v.blocks, b) + 1 \in 1 .. Len(v.blocks[b])
  BY <1>5, <1>6, <1>7
<1>9. vect_get(v, i) = v.blocks[b][i - Before(v.blocks, b) + 1]
  BY <1>1, <1>5, VectGetAt
<1>10. QED BY <1>5, <1>8, <1>9

LEMMA VectGetType ==
  ASSUME NEW T, NEW v, VectInv(v, T), NEW i \in Nat, i < v.size
  PROVE  vect_get(v, i) \in T
<1>1. v.blocks \in Seq(Seq(T))
  BY DEF VectInv, Vectors
<1>2. PICK b \in 1 .. Len(v.blocks) :
            /\ i - Before(v.blocks, b) + 1 \in 1 .. Len(v.blocks[b])
            /\ vect_get(v, i) = v.blocks[b][i - Before(v.blocks, b) + 1]
  BY VectHolds
<1>3. v.blocks[b] \in Seq(T)
  BY <1>1
<1>4. QED BY <1>2, <1>3

(* vect_add appends: it keeps all elements where they are and puts the new *)
(* one behind them.                                                        *)
LEMMA VectAdd ==
  ASSUME NEW T, NEW v, VectInv(v, T), NEW e \in T
  PROVE  LET w == vect_add(v, e)
         IN  /\ VectInv(w, T)
             /\ w.size = v.size + 1
             /\ \A i \in Nat : i < v.size => vect_get(w, i) = vect_get(v, i)
             /\ vect_get(w, v.size) = e
<1> DEFINE w == vect_add(v, e)
           bs == v.blocks
           c == v.current
<1>1. bs \in Seq(Seq(T)) /\ c = Len(bs) /\ c \in 1 .. Len(bs)
  BY DEF VectInv, Vectors
<1>2. Before(bs, c + 1) = Before(bs, c) + Len(bs[c])
  BY <1>1, BeforeNext
<1>3. Before(bs, c) \in Nat /\ Len(bs[c]) \in Nat /\ bs[c] \in Seq(T) /\ Len(bs) \in Nat
  BY <1>1, BeforeNat
<1>4. /\ v.next_insert_index \in Nat /\ v.size \in Nat /\ v.capacity \in Nat /\ v.capacity >= 2
      /\ v.size = Before(bs, c) + v.next_insert_index
      /\ v.capacity = Before(bs, c + 1)
      /\ v.dynamic /\ ~v.spoiled
  BY DEF VectInv, Vectors
<1>5. CASE v.size + 1 <= v.capacity
  <2> DEFINE k == v.next_insert_index
             ds == [bs EXCEPT ![c] = [bs[c] EXCEPT ![k + 1] = e]]
  <2>1. /\ k < Len(bs[c])
        /\ w \in Vectors(T) /\ w.blocks = ds
        /\ w.next_insert_index = k + 1 /\ w.size = v.size + 1
        /\ w.current = c /\ w.capacity = v.capacity
        /\ w.dynamic = v.dynamic /\ w.spoiled = v.spoiled
    BY <1>5, VectAddRoom
  <2> HIDE DEF w
  <2>2. k + 1 \in 1 .. Len(bs[c])
    <3>1. k \in Nat /\ Len(bs[c]) \in Nat /\ k < Len(bs[c])
      BY <1>3, <1>4, <2>1
    <3>2. QED BY ONLY <3>1
  <2>3. /\ ds \in Seq(Seq(T)) /\ Len(ds) = Len(bs)
        /\ \A b \in 1 .. Len(bs) : Len(ds[b]) = Len(bs[b])
        /\ \A b \in 1 .. Len(bs), j \in Nat :
               j \in 1 .. Len(bs[b]) => ds[b][j] = IF b = c /\ j = k + 1 THEN e ELSE bs[b][j]
    <3>1. w.blocks \in Seq(Seq(T))
      BY <2>1 DEF Vectors
    <3>2. ds \in Seq(Seq(T))
      BY <2>1, <3>1
    <3> DEFINE last == [bs[c] EXCEPT ![k + 1] = e]
    <3>3. /\ Len(last) = Len(bs[c]) /\ last[k + 1] = e
          /\ \A j \in 1 .. Len(bs[c]) : j # k + 1 => last[j] = bs[c][j]
      BY <1>3, <2>2
    <3> HIDE DEF last
    <3>4. Len(ds) = Len(bs) /\ ds[c] = last /\ \A b \in 1 .. Len(bs) : b # c => ds[b] = bs[b]
      BY <1>1 DEF last
    <3>5. QED BY <1>1, <3>2, <3>3, <3>4
  <2> HIDE DEF ds
  <2>4. \A b \in 1 .. Len(bs) + 1 : Before(ds, b) = Before(bs, b)
    <3>1. SUFFICES ASSUME NEW b \in 1 .. Len(bs) + 1
                   PROVE  Before(ds, b) = Before(bs, b)
      OBVIOUS
    <3>2. \A a \in 1 .. b - 1 : Len(bs[a]) = Len(ds[a])
      BY <1>3, <2>3
    <3>3. b <= Len(ds) + 1
      BY <1>3, <2>3
    <3>4. QED BY ONLY <1>1, <2>3, <3>2, <3>3, BeforeSame
  <2>5. VectInv(w, T)
    <3>1. c \in 1 .. Len(bs) + 1 /\ c + 1 \in 1 .. Len(bs) + 1
      BY <1>1, <1>3
    <3>2. Before(ds, c) = Before(bs, c) /\ Before(ds, c + 1) = Before(bs, c + 1)
      BY <2>4, <3>1
    <3>3. k + 1 <= Len(ds[c])
      BY <1>1, <2>2, <2>3
    <3>4. w.size = Before(ds, c) + w.next_insert_index
      BY <1>3, <1>4, <2>1, <3>2
    <3>5. QED BY <1>1, <1>4, <2>1, <2>3, <3>2, <3>3, <3>4 DEF VectInv
  <2>6. ASSUME NEW i \in Nat, i < v.size
        PROVE  vect_get(w, i) = vect_get(v, i)
    <3>1. PICK b \in 1 .. Len(bs) :
            /\ Before(bs, b) <= i /\ i < Before(bs, b + 1)
            /\ i - Before(bs, b) + 1 \in 1 .. Len(bs[b])
            /\ vect_get(v, i) = bs[b][i - Before(bs, b) + 1]
      BY <2>6, VectHolds
    <3>2. b \in 1 .. Len(bs) + 1 /\ b + 1 \in 1 .. Len(bs) + 1
      BY <1>3
    <3>3. Before(ds, b) = Before(bs, b) /\ Before(ds, b + 1) = Before(bs, b + 1)
      BY <2>4, <3>2
    <3>4. w.blocks = ds /\ ds \in Seq(Seq(T)) /\ b \in 1 .. Len(ds)
      BY <2>1, <2>3
    <3>5. vect_get(w, i) = ds[b][i - Before(bs, b) + 1]
      <4>1. /\ w.blocks \in Seq(Seq(T)) /\ b \in 1 .. Len(w.blocks)
            /\ Before(w.blocks, b) <= i /\ i < Before(w.blocks, b + 1)
        BY <3>1, <3>3, <3>4
      <4>2. vect_get(w, i) = w.blocks[b][i - Before(w.blocks, b) + 1]
        BY ONLY <4>1, i \in Nat, VectGetAt
      <4>3. QED BY <3>3, <3>4, <4>2
    <3>6. ~(b = c /\ i - Before(bs, b) + 1 = k + 1)
      BY <1>3, <1>4, <2>6
    <3>7. i - Before(bs, b) + 1 \in Nat
      BY <3>1
    <3>8. QED BY <2>3, <3>1, <3>5, <3>6, <3>7
  <2>7. vect_get(w, v.size) = e
    <3>1. c \in 1 .. Len(bs) + 1 /\ c + 1 \in 1 .. Len(bs) + 1
      BY <1>1, <1>3
    <3>2. Before(ds, c) = Before(bs, c) /\ Before(ds, c + 1) = Before(bs, c + 1)
      BY <2>4, <3>1
    <3>3. w.blocks = ds /\ ds \in Seq(Seq(T)) /\ c \in 1 .. Len(ds)
      BY <1>1, <2>1, <2>3
    <3>4. Before(ds, c) <= v.size /\ v.size < Before(ds, c + 1)
      BY <1>3, <1>4, <1>5, <3>2
    <3>5. vect_get(w, v.size) = ds[c][v.size - Before(bs, c) + 1]
      BY <1>4, <3>2, <3>3, <3>4, VectGetAt
    <3>6. v.size - Before(bs, c) + 1 = k + 1
      BY <1>3, <1>4
    <3>7. ds[c][k + 1] = e
      <4>1. k + 1 \in Nat
        BY <1>4
      <4>2. QED BY <1>1, <2>2, <2>3, <4>1
    <3>8. QED BY <3>5, <3>6, <3>7
  <2>8. QED BY <2>1, <2>5, <2>6, <2>7 DEF w
<1>6. CASE ~(v.size + 1 <= v.capacity)
  <2>1. /\ v.size = v.capacity
        /\ w \in Vectors(T)
        /\ w.next_insert_index = 1 /\ w.size = v.size + 1
        /\ w.current = c + 1 /\ w.capacity = v.capacity + v.capacity \div 2
        /\ w.dynamic = v.dynamic /\ w.spoiled = v.spoiled
        /\ \E first \in Seq(T) :
              w.blocks = Append(bs, first) /\ Len(first) = v.capacity \div 2 /\ first[1] = e
    BY <1>6, VectAddGrows
  <2>2. PICK first \in Seq(T) :
            w.blocks = Append(bs, first) /\ Len(first) = v.capacity \div 2 /\ first[1] = e
    BY <2>1
  <2> HIDE DEF w
  <2> DEFINE ds == Append(bs, first)
             half == v.capacity \div 2
  <2>3. half \in Nat /\ half >= 1
    BY <1>4
  <2> HIDE DEF half
  <2>4. /\ ds \in Seq(Seq(T)) /\ Len(ds) = Len(bs) + 1 /\ ds[c + 1] = first
        /\ \A b \in 1 .. Len(bs) : ds[b] = bs[b]
    BY <1>1
  <2> HIDE DEF ds
  <2>5. \A b \in 1 .. Len(bs) + 1 : Before(ds, b) = Before(bs, b)
    <3>1. SUFFICES ASSUME NEW b \in 1 .. Len(bs) + 1
                   PROVE  Before(ds, b) = Before(bs, b)
      OBVIOUS
    <3>2. \A a \in 1 .. b - 1 : Len(bs[a]) = Len(ds[a])
      <4>1. \A a \in 1 .. b - 1 : a \in 1 .. Len(bs)
        BY <1>3
      <4>2. QED BY <2>4, <4>1
    <3>3. b <= Len(ds) + 1
      BY <1>3, <2>4
    <3>4. QED BY ONLY <1>1, <2>4, <3>2, <3>3, BeforeSame
  <2>6. Before(ds, c + 1) = v.capacity
    BY <1>1, <1>3, <1>4, <2>5
  <2>7. Before(ds, c + 2) = v.capacity + half
    <3>1. c + 1 \in 1 .. Len(ds) /\ (c + 1) + 1 = c + 2
      BY <1>1, <1>3, <2>4
    <3>2. Before(ds, (c + 1) + 1) = Before(ds, c + 1) + Len(ds[c + 1])
      BY <2>4, <3>1, BeforeNext
    <3>3. QED BY <2>2, <2>4, <2>6, <3>1, <3>2 DEF half
  <2>8. VectInv(w, T)
    <3>1. w.blocks = ds /\ w.current = c + 1
      BY <2>1, <2>2 DEF ds
    <3>2. w.current = Len(ds) /\ w.current >= 1
      BY <1>1, <1>3, <2>4, <3>1
    <3>3. 1 <= Len(ds[c + 1])
      BY <2>2, <2>3, <2>4 DEF half
    <3>4. w.size = Before(ds, w.current) + w.next_insert_index
      BY <1>4, <2>1, <2>6, <3>1
    <3>5. w.capacity = Before(ds, w.current + 1) /\ w.capacity >= 2
      <4>1. (c + 1) + 1 = c + 2
        BY <1>1, <1>3
      <4>2. QED BY <1>4, <2>1, <2>3, <2>7, <3>1, <4>1 DEF half
    <3>6. QED BY <1>4, <2>1, <3>1, <3>2, <3>3, <3>4, <3>5 DEF VectInv
  <2>9. ASSUME NEW i \in Nat, i < v.size
        PROVE  vect_get(w, i) = vect_get(v, i)
    <3>1. PICK b \in 1 .. Len(bs) :
            /\ Before(bs, b) <= i /\ i < Before(bs, b + 1)
            /\ i - Before(bs, b) + 1 \in 1 .. Len(bs[b])
            /\ vect_get(v, i) = bs[b][i - Before(bs, b) + 1]
      BY <2>9, VectHolds
    <3>2. b \in 1 .. Len(bs) + 1 /\ b + 1 \in 1 .. Len(bs) + 1
      BY <1>3
    <3>3. Before(ds, b) = Before(bs, b) /\ Before(ds, b + 1) = Before(bs, b + 1)
      BY <2>5, <3>2
    <3>4. w.blocks = ds /\ ds \in Seq(Seq(T)) /\ b \in 1 .. Len(ds)
      BY <1>3, <2>2, <2>4 DEF ds
    <3>5. vect_get(w, i) = ds[b][i - Before(bs, b) + 1]
      <4>1. /\ w.blocks \in Seq(Seq(T)) /\ b \in 1 .. Len(w.blocks)
            /\ Before(w.blocks, b) <= i /\ i < Before(w.blocks, b + 1)
        BY <3>1, <3>3, <3>4
      <4>2. vect_get(w, i) = w.blocks[b][i - Before(w.blocks, b) + 1]
        BY ONLY <4>1, i \in Nat, VectGetAt
      <4>3. QED BY <3>3, <3>4, <4>2
    <3>6. QED BY <2>4, <3>1, <3>5
  <2>10. vect_get(w, v.size) = e
    <3>1. w.blocks = ds /\ ds \in Seq(Seq(T)) /\ c + 1 \in 1 .. Len(ds)
      BY <1>1, <1>3, <2>2, <2>4 DEF ds
    <3>2. /\ Before(ds, c + 1) <= v.size /\ v.size < Before(ds, (c + 1) + 1)
          /\ v.size - Before(ds, c + 1) + 1 = 1
      <4>1. (c + 1) + 1 = c + 2
        BY <1>1, <1>3
      <4>2. QED BY <1>4, <2>1, <2>3, <2>6, <2>7, <4>1
    <3>3. vect_get(w, v.size) = ds[c + 1][v.size - Before(ds, c + 1) + 1]
      BY <1>4, <3>1, <3>2, VectGetAt
    <3>4. QED BY <2>2, <2>4, <3>2, <3>3
  <2>11. QED BY <2>1, <2>8, <2>9, <2>10 DEF w
<1>7. QED BY <1>5, <1>6
-----------------------------------------------------------------------------
(* In a set of k naturals, some element has n smaller ones, for all n < k. *)
LEMMA RankExists ==
  ASSUME NEW c \in Nat, NEW U \in SUBSET (0 .. c - 1), NEW k \in Nat, k < Cardinality(U)
  PROVE  \E i \in U : Cardinality({j \in U : j < i}) = k
<1> DEFINE L(b) == {j \in U : j < b}
           S == {b \in Nat : b <= c /\ Cardinality(L(b)) > k}
<1>0. \A j \in U : j \in Nat /\ j < c
  OBVIOUS
<1>1. IsFiniteSet(U) /\ \A b \in Nat : IsFiniteSet(L(b)) /\ Cardinality(L(b)) \in Nat
  <2>1. IsFiniteSet(0 .. c - 1)
    BY FS_Interval
  <2>2. IsFiniteSet(U)
    BY <2>1, FS_Subset
  <2>3. ASSUME NEW b \in Nat
        PROVE  IsFiniteSet(L(b)) /\ Cardinality(L(b)) \in Nat
    <3>1. L(b) \in SUBSET U
      OBVIOUS
    <3> HIDE DEF L
    <3>2. QED BY <2>2, <3>1, FS_Subset, FS_CardinalityType
  <2>4. QED BY <2>2, <2>3
<1>2. Cardinality(L(0)) = 0
  <2>1. L(0) = {}
    <3>1. \A j \in U : ~(j < 0)
      BY ONLY <1>0
    <3>2. QED BY ONLY <3>1
  <2>2. QED BY <2>1, FS_EmptySet
<1>3. L(c) = U
  BY ONLY <1>0
<1>4. c \in S
  <2> DEFINE l == L(c)
  <2>1. l = U
    BY <1>3
  <2> HIDE DEF l
  <2>2. Cardinality(l) > k
    BY ONLY <2>1, k < Cardinality(U)
  <2>3. c \in Nat /\ c <= c
    OBVIOUS
  <2> USE DEF l
  <2> HIDE DEF L
  <2>4. QED BY ONLY <2>2, <2>3
<1>5. PICK n \in S : \A m \in S : n <= m
  BY <1>4, Least
<1>6. n # 0 /\ n \in Nat /\ n <= c /\ Cardinality(L(n)) > k
  BY <1>2, <1>5
<1>7. n - 1 \in Nat /\ n - 1 \notin S /\ n - 1 <= c
  BY <1>5, <1>6
<1>8. ~(Cardinality(L(n - 1)) > k)
  BY <1>7
<1>9. n - 1 \in U /\ Cardinality(L(n)) = Cardinality(L(n - 1)) + 1
  <2>1. L(n) \subseteq L(n - 1) \cup {n - 1}
    <3>1. \A j \in U : j < n => j < n - 1 \/ j = n - 1
      BY ONLY <1>0, <1>6
    <3>2. QED BY ONLY <3>1
  <2>2. L(n - 1) \subseteq L(n) /\ n - 1 \notin L(n - 1)
    <3>1. (\A j \in U : j < n - 1 => j < n) /\ ~(n - 1 < n - 1)
      BY ONLY <1>0, <1>6
    <3>2. QED BY ONLY <3>1
  <2>3. n - 1 \in U
    <3>1. SUFFICES ASSUME n - 1 \notin U PROVE FALSE
      OBVIOUS
    <3>2. L(n) = L(n - 1)
      BY <2>1, <2>2, <3>1
    <3>3. QED BY <1>6, <1>8, <3>2
  <2>4. L(n) = L(n - 1) \cup {n - 1}
    BY <1>6, <2>1, <2>2, <2>3
  <2> HIDE DEF L
  <2>5. QED BY <1>1, <1>7, <2>2, <2>3, <2>4, FS_AddElement
<1>10. Cardinality(L(n - 1)) \in Nat
  BY <1>1, <1>7
<1> HIDE DEF L
<1>11. Cardinality(L(n - 1)) = k
  BY <1>6, <1>8, <1>9, <1>10
<1>12. QED BY <1>9, <1>11 DEF L

(* A dictionary: its slots are numbered from 0, and no value is in two.    *)
Used(d) == {i \in DOMAIN d.slots : ~IsEmpty(d.slots[i])}
Values(d) == {d.slots[i].value : i \in Used(d)}
DictInv(d) ==
    /\ d.size \in Nat
    /\ \E c \in Nat : DOMAIN d.slots = 0 .. c - 1
    /\ \A i, j \in Used(d) : d.slots[i].value = d.slots[j].value => i = j

LEMMA DictInit == DictInv(dict_init) /\ Values(dict_init) = {}
<1> DEFINE slots == [i \in 0 .. DEFAULT_CAP - 1 |-> Empty]
<1>1. dict_init.slots = slots /\ dict_init.size = 0
  BY DEF dict_init
<1>2. DEFAULT_CAP \in Nat
  BY DictAssumption
<1>3. Used(dict_init) = {}
  BY <1>1 DEF Used, IsEmpty, Empty
<1>4. DOMAIN slots = 0 .. DEFAULT_CAP - 1
  OBVIOUS
<1>5. QED BY <1>1, <1>2, <1>3, <1>4 DEF DictInv, Values

(* dict_put adds a value to those of the dictionary, and may overwrite one:*)
(* wherever the probes lead.                                               *)
LEMMA DictPut ==
  ASSUME NEW d, DictInv(d), NEW key, NEW value, value \notin Values(d)
  PROVE  /\ DictInv(dict_put(d, key, value))
         /\ Values(dict_put(d, key, value)) \subseteq Values(d) \cup {value}
<1> DEFINE free == {i \in DOMAIN d.slots : IsEmpty(d.slots[i])}
           at == FirstProbed(d, key, free \cup Occupied(d, key))
           new == [hash |-> cmp_hash(key), key |-> key, value |-> value]
           slots == [d.slots EXCEPT ![at] = new]
           put == [slots |-> slots, size |-> d.size + 1]
<1>1. PICK c \in Nat : DOMAIN d.slots = 0 .. c - 1
  BY DEF DictInv
<1>2. put.slots = slots /\ put.size = d.size + 1 /\ d.size \in Nat
  BY DEF DictInv
<1> HIDE DEF at
<1>3. new.value = value
  OBVIOUS
<1> HIDE DEF new
<1>4. /\ DOMAIN slots = 0 .. c - 1
      /\ \A i \in 0 .. c - 1 : slots[i] = IF i = at THEN new ELSE d.slots[i]
  BY <1>1
<1> HIDE DEF slots
<1>5. ASSUME NEW i \in Used(put)
      PROVE  /\ i = at => put.slots[i].value = value
             /\ i # at => i \in Used(d) /\ put.slots[i].value = d.slots[i].value
  BY <1>1, <1>2, <1>3, <1>4 DEF Used
<1>6. Values(put) \subseteq Values(d) \cup {value}
  BY <1>5 DEF Values
<1>7. DictInv(put)
  <2>1. ASSUME NEW i \in Used(put), NEW j \in Used(put),
               put.slots[i].value = put.slots[j].value
        PROVE  i = j
    BY <1>5, <2>1 DEF Values, DictInv
  <2>2. put.size \in Nat /\ DOMAIN put.slots = 0 .. c - 1
    BY <1>2, <1>4
  <2> HIDE DEF put
  <2>3. QED BY ONLY c \in Nat, <2>1, <2>2 DEF DictInv
<1> DEFINE cap == 2 * capacity(put)
           big == rehash_nodes(put, cap)
           grown == grow(put)
<1>8. capacity(put) = c
  <2>1. IsFiniteSet(0 .. c - 1) /\ Cardinality(0 .. c - 1) = IF 0 > c - 1 THEN 0 ELSE c - 1 - 0 + 1
    BY FS_Interval
  <2>2. QED BY <1>2, <1>4, <2>1 DEF capacity
<1>9. cap \in Nat /\ \A i \in 0 .. c - 1 : i \in 0 .. cap - 1
  BY <1>8
<1> HIDE DEF cap
<1>10. /\ DOMAIN big = 0 .. cap - 1
       /\ \A i \in 0 .. cap - 1 : big[i] = IF i \in 0 .. c - 1 THEN slots[i] ELSE Empty
  BY <1>2, <1>4 DEF rehash_nodes
<1>11. grown.slots = big /\ grown.size = put.size
  BY DEF grow, cap
<1> HIDE DEF big, grown, put
<1>12. Used(grown) = Used(put) /\ \A i \in Used(put) : grown.slots[i] = put.slots[i]
  BY <1>2, <1>4, <1>9, <1>10, <1>11 DEF Used, IsEmpty, Empty
<1>13. DictInv(grown) /\ Values(grown) = Values(put)
  <2>1. DictInv(grown)
    BY <1>7, <1>9, <1>10, <1>11, <1>12 DEF DictInv
  <2>2. QED BY <2>1, <1>12 DEF Values
<1>14. dict_put(d, key, value) = IF 4 * put.size >= 3 * capacity(d) THEN grown ELSE put
  BY DEF dict_put, put, slots, at, new, grown
<1>15. QED BY <1>6, <1>7, <1>13, <1>14

(* dict_foreach visits slots that are used, and none twice.                *)
LEMMA DictForeach ==
  ASSUME NEW d, DictInv(d)
  PROVE  \E count \in Nat : \E place \in [1 .. count -> Used(d)] :
            /\ dict_foreach(d) = [n \in 1 .. count |-> d.slots[place[n]]]
            /\ \A m, n \in 1 .. count : place[m] = place[n] => m = n
<1> DEFINE used == {i \in DOMAIN d.slots : ~IsEmpty(d.slots[i])}
           Rank(i) == Cardinality({j \in used : j < i})
           count == IF Cardinality(used) < d.size THEN Cardinality(used) ELSE d.size
           At(n) == CHOOSE i \in used : Rank(i) = n - 1
           place == [n \in 1 .. count |-> At(n)]
<1>1. PICK c \in Nat : DOMAIN d.slots = 0 .. c - 1
  BY DEF DictInv
<1>2. used \in SUBSET (0 .. c - 1) /\ used = Used(d)
  BY <1>1 DEF Used
<1>3. dict_foreach(d) = [n \in 1 .. count |-> d.slots[At(n)]]
  BY Zenon DEF dict_foreach
<1>4. Cardinality(used) \in Nat
  <2>1. IsFiniteSet(0 .. c - 1)
    BY FS_Interval
  <2> HIDE DEF used
  <2>2. QED BY <1>2, <2>1, FS_Subset, FS_CardinalityType
<1>5. count \in Nat /\ count <= Cardinality(used)
  BY <1>4 DEF DictInv
<1>6. ASSUME NEW n \in 1 .. count
      PROVE  At(n) \in used /\ Rank(At(n)) = n - 1
  <2>1. n - 1 \in Nat /\ n - 1 < Cardinality(used)
    BY <1>4, <1>5
  <2>2. \E i \in used : Rank(i) = n - 1
    <3> HIDE DEF used
    <3>1. QED BY <1>2, <2>1, RankExists
  <2> HIDE DEF Rank
  <2>3. QED BY <2>2
<1> HIDE DEF count, At, Rank
<1>7. place \in [1 .. count -> Used(d)]
  BY <1>2, <1>6
<1>8. \A m, n \in 1 .. count : place[m] = place[n] => m = n
  BY <1>5, <1>6
<1>9. dict_foreach(d) = [n \in 1 .. count |-> d.slots[place[n]]]
  BY <1>3
<1>10. QED BY <1>5, <1>7, <1>8, <1>9
-----------------------------------------------------------------------------
(* Iterates of 5 x + 1 without the modulus: after p of them a number has   *)
(* grown by a multiple of p, which is odd if the number is a multiple of 4p*)
Iterates(s, N) == s \in [0 .. N -> Nat] /\ \A k \in 1 .. N : s[k] = 5 * s[k - 1] + 1

Jumps(p) ==
    \E c, u \in Nat : \A N \in Nat : \A s : Iterates(s, N) =>
        \A k \in 0 .. N - p : s[k + p] = (1 + 4 * (p * c)) * s[k] + p * (2 * u + 1)
Visits(s, p) == \A y \in 0 .. p - 1 : \E k \in 0 .. p - 1 : \E t \in Int : s[k] = y + p * t
Reaches(p) == \A N \in Nat : \A s : Iterates(s, N) /\ p <= N + 1 => Visits(s, p)
FullPeriod(p) == p \in Nat \ {0} /\ Jumps(p) /\ Reaches(p)

(* The period of the probe is full for a capacity of one slot,             *)
LEMMA PeriodOne == FullPeriod(1)
<1>1. Jumps(1)
  <2>1. ASSUME NEW N \in Nat, NEW s, Iterates(s, N), NEW k \in 0 .. N - 1
        PROVE  s[k + 1] = (1 + 4 * (1 * 1)) * s[k] + 1 * (2 * 0 + 1)
    <3>1. k + 1 \in 1 .. N /\ (k + 1) - 1 = k /\ k \in 0 .. N
      OBVIOUS
    <3>2. s[k] \in Nat /\ s[k + 1] = 5 * s[(k + 1) - 1] + 1
      BY <2>1, <3>1 DEF Iterates
    <3>3. QED BY <3>1, <3>2
  <2>2. 1 \in Nat /\ 0 \in Nat
    OBVIOUS
  <2>3. QED BY <2>1, <2>2 DEF Jumps
<1>2. Reaches(1)
  <2>1. ASSUME NEW N \in Nat, NEW s, Iterates(s, N), NEW y \in 0 .. 0
        PROVE  \E k \in 0 .. 0 : \E t \in Int : s[k] = y + 1 * t
    <3>1. s[0] \in Nat /\ y = 0 /\ 0 \in 0 .. 0
      BY <2>1 DEF Iterates
    <3>2. s[0] \in Int /\ s[0] = y + 1 * s[0]
      BY <3>1
    <3>3. QED BY <3>1, <3>2
  <2>2. QED BY <2>1 DEF Reaches, Visits
<1>3. QED BY <1>1, <1>2 DEF FullPeriod

(* Products of three and more are left to these.                           *)
LEMMA JumpTwice ==
  ASSUME NEW p \in Nat, NEW c \in Nat, NEW u \in Nat, NEW x \in Nat, NEW y \in Nat, NEW z \in Nat,
         y = (1 + 4 * (p * c)) * x + p * (2 * u + 1),
         z = (1 + 4 * (p * c)) * y + p * (2 * u + 1)
  PROVE  z = (1 + 4 * ((2 * p) * (c + 2 * (p * (c * c))))) * x
             + (2 * p) * (2 * (u + (p * c) * (2 * u + 1)) + 1)
OBVIOUS

(* and for twice a capacity for which it is: idx_iter (utils.c) probes 5x + 1.*)
LEMMA PeriodTwice ==
  ASSUME NEW p, FullPeriod(p)
  PROVE  FullPeriod(2 * p)
<1>1. p \in Nat \ {0} /\ Jumps(p) /\ Reaches(p)
  BY DEF FullPeriod
<1>2. PICK c \in Nat, u \in Nat : \A N \in Nat : \A s : Iterates(s, N) =>
          \A k \in 0 .. N - p : s[k + p] = (1 + 4 * (p * c)) * s[k] + p * (2 * u + 1)
  BY <1>1 DEF Jumps
<1>3. Jumps(2 * p)
  <2> DEFINE C == c + 2 * (p * (c * c))
             U == u + (p * c) * (2 * u + 1)
  <2>1. C \in Nat /\ U \in Nat
    <3>1. p * (c * c) \in Nat /\ (p * c) * (2 * u + 1) \in Nat
      BY <1>1
    <3>2. QED BY <3>1
  <2>2. ASSUME NEW N \in Nat, NEW s, Iterates(s, N), NEW k \in 0 .. N - 2 * p
        PROVE  s[k + 2 * p] = (1 + 4 * ((2 * p) * C)) * s[k] + (2 * p) * (2 * U + 1)
    <3>1. /\ k \in 0 .. N - p /\ k + p \in 0 .. N - p /\ (k + p) + p = k + 2 * p
          /\ k \in 0 .. N /\ k + p \in 0 .. N /\ k + 2 * p \in 0 .. N
      BY <1>1
    <3>2. s[k] \in Nat /\ s[k + p] \in Nat /\ s[k + 2 * p] \in Nat
      BY <2>2, <3>1 DEF Iterates
    <3>3. /\ s[k + p] = (1 + 4 * (p * c)) * s[k] + p * (2 * u + 1)
          /\ s[k + 2 * p] = (1 + 4 * (p * c)) * s[k + p] + p * (2 * u + 1)
      BY <1>2, <2>2, <3>1
    <3>4. QED BY <1>1, <3>2, <3>3, JumpTwice
  <2> HIDE DEF C, U
  <2>3. QED BY <2>1, <2>2 DEF Jumps
<1>4. Reaches(2 * p)
  <2>1. ASSUME NEW N \in Nat, NEW s, Iterates(s, N), 2 * p <= N + 1, NEW y \in 0 .. 2 * p - 1
        PROVE  \E k \in 0 .. 2 * p - 1 : \E t \in Int : s[k] = y + (2 * p) * t
    <3> DEFINE low == IF y < p THEN y ELSE y - p
    <3>1. low \in 0 .. p - 1 /\ p <= N + 1
      BY <1>1, <2>1
    <3> HIDE DEF low
    <3>2. PICK k \in 0 .. p - 1 : \E t \in Int : s[k] = low + p * t
      <4>1. Visits(s, p)
        BY <1>1, <2>1, <3>1 DEF Reaches
      <4>2. QED BY <3>1, <4>1 DEF Visits
    <3> USE DEF low
    <3>3. \E t \in Int : s[k] = y + p * t
      <4>1. PICK t \in Int : s[k] = low + p * t
        BY <3>2
      <4>2. low = y \/ (low = y - p /\ t - 1 \in Int /\ p * t = p * (t - 1) + p)
        BY <1>1
      <4>3. s[k] = y + p * t \/ s[k] = y + p * (t - 1)
        BY <1>1, <4>1, <4>2
      <4>4. QED BY <4>2, <4>3
    <3> HIDE DEF low
    <3>4. PICK t \in Int : s[k] = y + p * t
      BY <3>3
    <3>5. PICK v \in Int : t = 2 * v \/ t = 2 * v + 1
      <4>1. t \div 2 \in Int /\ (t = 2 * (t \div 2) \/ t = 2 * (t \div 2) + 1)
        OBVIOUS
      <4>2. QED BY <4>1
    <3>6. CASE t = 2 * v
      <4>1. p * t = (2 * p) * v
        BY <1>1, <3>6
      <4>2. k \in 0 .. 2 * p - 1
        BY <1>1
      <4>3. QED BY <3>4, <4>1, <4>2
    <3>7. CASE t = 2 * v + 1
      <4>1. k + p \in 0 .. 2 * p - 1 /\ k \in 0 .. N - p /\ k \in 0 .. N
        BY <1>1, <2>1
      <4>2. s[k + p] = (1 + 4 * (p * c)) * s[k] + p * (2 * u + 1)
        BY <1>2, <2>1, <4>1
      <4>3. c * (y + p * t) \in Int
        BY <1>1
      <4> DEFINE z == c * (y + p * t)
      <4>4. /\ s[k + p] = (1 + 4 * (p * c)) * (y + p * t) + p * (2 * u + 1)
            /\ (1 + 4 * (p * c)) * (y + p * t) = y + p * t + (2 * p) * (2 * z)
            /\ p * t = (2 * p) * v + p
            /\ p * (2 * u + 1) = (2 * p) * u + p
        <5>1. s[k + p] = (1 + 4 * (p * c)) * (y + p * t) + p * (2 * u + 1)
          BY <3>4, <4>2
        <5>2. (1 + 4 * (p * c)) * (y + p * t) = y + p * t + (2 * p) * (2 * z)
          BY <1>1
        <5>3. p * t = (2 * p) * v + p
          BY <1>1, <3>7
        <5>4. p * (2 * u + 1) = (2 * p) * u + p
          BY <1>1
        <5>5. QED BY <5>1, <5>2, <5>3, <5>4
      <4>5. z \in Int
        BY <4>3
      <4> HIDE DEF z
      <4> DEFINE w == v + u + 1 + 2 * z
      <4>6. w \in Int /\ (2 * p) * w = (2 * p) * v + (2 * p) * u + 2 * p + (2 * p) * (2 * z)
        BY <1>1, <4>5
      <4>7. s[k + p] = y + (2 * p) * w
        <5>1. (2 * p) * v \in Int /\ (2 * p) * u \in Int /\ (2 * p) * (2 * z) \in Int /\ p \in Int
          BY <1>1, <4>5
        <5>2. s[k + p] = y + ((2 * p) * v + p) + (2 * p) * (2 * z) + ((2 * p) * u + p)
          BY <4>4
        <5>3. QED BY <4>6, <5>1, <5>2
      <4> HIDE DEF w
      <4>8. QED BY <4>1, <4>6, <4>7
    <3>8. QED BY <3>5, <3>6, <3>7
  <2>2. QED BY <2>1 DEF Reaches, Visits
<1>5. QED BY <1>1, <1>3, <1>4 DEF FullPeriod

(* The modulus of a sum does not see a multiple of it.                     *)
LEMMA ModShift ==
  ASSUME NEW cap \in Nat \ {0}, NEW z \in 0 .. cap - 1, NEW q \in Int
  PROVE  (z + cap * q) % cap = z
<1> DEFINE a == z + cap * q
           d == a \div cap
           r == a % cap
<1>1. a \in Int /\ d \in Int /\ r \in 0 .. cap - 1 /\ a = cap * d + r
  OBVIOUS
<1> HIDE DEF d, r
<1>2. z - r = cap * (d - q)
  BY <1>1
<1>3. d - q = 0
  <2>1. z - r < cap /\ z - r > 0 - cap
    BY <1>1
  <2>2. CASE d - q >= 1
    <3>1. cap * (d - q) >= cap
      BY <1>1, <2>2
    <3>2. QED BY <1>1, <1>2, <2>1, <3>1
  <2>3. CASE d - q <= 0 - 1
    <3>1. cap * (d - q) <= 0 - cap
      BY <1>1, <2>3
    <3>2. QED BY <1>1, <1>2, <2>1, <3>1
  <2>4. QED BY <1>1, <2>2, <2>3
<1>4. r = z
  BY <1>1, <1>2, <1>3
<1>5. QED BY <1>4 DEF r

(* The capacity of a new dictionary                                        *)
LEMMA DefaultPeriod == FullPeriod(DEFAULT_CAP) /\ DEFAULT_CAP >= 2
<1>1. FullPeriod(2 * 1)
  BY PeriodOne, PeriodTwice
<1>2. FullPeriod(2)
  BY <1>1
<1>3. FullPeriod(2 * 2) /\ FullPeriod(2 * (2 * 2)) /\ FullPeriod(2 * (2 * (2 * 2)))
  BY <1>2, PeriodTwice
<1>4. FullPeriod(4) /\ FullPeriod(8) /\ FullPeriod(16)
  BY <1>3
<1>5. FullPeriod(2 * 16) /\ FullPeriod(2 * (2 * 16))
  BY <1>4, PeriodTwice
<1>6. FullPeriod(32) /\ FullPeriod(64)
  BY <1>5
<1>7. FullPeriod(2 * 64) /\ FullPeriod(2 * (2 * 64))
  BY <1>6, PeriodTwice
<1>8. FullPeriod(128) /\ FullPeriod(256)
  BY <1>7
<1>9. PICK n \in 1 .. 8 : DEFAULT_CAP = 2 ^ n
  BY DictAssumption
<1>10. n \in {1, 2, 3, 4, 5, 6, 7, 8}
  OBVIOUS
<1>11. CASE n = 1
  BY <1>2, <1>9, <1>11
<1>12. CASE n = 2
  BY <1>4, <1>9, <1>12
<1>13. CASE n = 3
  BY <1>4, <1>9, <1>13
<1>14. CASE n = 4
  BY <1>4, <1>9, <1>14
<1>15. CASE n = 5
  BY <1>6, <1>9, <1>15
<1>16. CASE n = 6
  BY <1>6, <1>9, <1>16
<1>17. CASE n = 7
  BY <1>8, <1>9, <1>17
<1>18. CASE n = 8
  BY <1>8, <1>9, <1>18
<1>19. QED
  BY <1>10, <1>11, <1>12, <1>13, <1>14, <1>15, <1>16, <1>17, <1>18

(* A number has iterates, as many as one asks for.                         *)
LEMMA IteratesExist ==
  ASSUME NEW h \in Nat, NEW N \in Nat
  PROVE  \E s : Iterates(s, N) /\ s[0] = h
<1> DEFINE S == {n \in Nat : \E s : Iterates(s, n) /\ s[0] = h}
<1>1. 0 \in S
  <2> DEFINE s == [k \in 0 .. 0 |-> h]
  <2>1. Iterates(s, 0) /\ s[0] = h
    BY DEF Iterates
  <2> HIDE DEF s
  <2>2. QED BY <2>1
<1>2. ASSUME NEW n \in Nat, n \in S PROVE n + 1 \in S
  <2>1. PICK s : Iterates(s, n) /\ s[0] = h
    BY <1>2
  <2> DEFINE t == [k \in 0 .. n + 1 |-> IF k = n + 1 THEN 5 * s[n] + 1 ELSE s[k]]
  <2>2. s \in [0 .. n -> Nat] /\ \A k \in 1 .. n : s[k] = 5 * s[k - 1] + 1
    BY <2>1 DEF Iterates
  <2>3. n \in 0 .. n /\ s[n] \in Nat
    BY <2>2
  <2>4. \A k \in 0 .. n + 1 : k = n + 1 \/ k \in 0 .. n
    OBVIOUS
  <2>5. t \in [0 .. n + 1 -> Nat]
    BY <2>2, <2>3, <2>4
  <2>6. ASSUME NEW k \in 1 .. n + 1
        PROVE  t[k] = 5 * t[k - 1] + 1
    <3>1. k - 1 \in 0 .. n + 1 /\ k - 1 # n + 1 /\ k \in 0 .. n + 1
      OBVIOUS
    <3>2. t[k - 1] = s[k - 1]
      BY <3>1
    <3>3. CASE k = n + 1
      BY <3>1, <3>2, <3>3
    <3>4. CASE k # n + 1
      <4>1. k \in 1 .. n
        BY <3>4
      <4>2. QED BY <2>2, <3>1, <3>2, <3>4, <4>1
    <3>5. QED BY <3>3, <3>4
  <2>7. t[0] = h
    BY <2>1
  <2> HIDE DEF t
  <2>8. Iterates(t, n + 1)
    BY <2>5, <2>6 DEF Iterates
  <2>9. QED BY <2>7, <2>8
<1> HIDE DEF S
<1>3. N \in S
  BY <1>1, <1>2, Induction
<1>4. QED BY <1>3 DEF S

(* The probes are the iterates modulo the capacity.                        *)
Probing(f, cap, h) ==
    f = [n \in 0 .. cap - 1 |-> IF n = 0 THEN h % cap ELSE idx_iter(cap, f[n - 1])]

(* A step of the probe modulo the capacity is that of the number probed.   *)
LEMMA StepMod ==
  ASSUME NEW cap \in Nat \ {0}, NEW x \in Nat
  PROVE  (5 * (x % cap) + 1) % cap = (5 * x + 1) % cap
<1> DEFINE r == x % cap
           q == x \div cap
           z == (5 * r + 1) % cap
           e == (5 * r + 1) \div cap
<1>1. r \in 0 .. cap - 1 /\ q \in Int /\ x = cap * q + r
  OBVIOUS
<1>2. 5 * r + 1 \in Int
  BY <1>1
<1>3. z \in 0 .. cap - 1 /\ e \in Int /\ 5 * r + 1 = cap * e + z
  BY <1>2
<1> HIDE DEF z, e, q, r
<1>4. 5 * x + 1 = z + cap * (5 * q + e)
  BY <1>1, <1>3
<1>5. (z + cap * (5 * q + e)) % cap = z
  BY <1>1, <1>3, ModShift
<1>6. (5 * x + 1) % cap = z
  BY <1>4, <1>5
<1>7. QED BY <1>6 DEF z, r

(* The probe reaches every slot, wherever it starts.                       *)
LEMMA ProbesReach ==
  ASSUME NEW cap, FullPeriod(cap), NEW h \in Nat, NEW y \in 0 .. cap - 1
  PROVE  /\ DOMAIN Probes(cap, h) = 0 .. cap - 1
         /\ \E k \in 0 .. cap - 1 : Probes(cap, h)[k] = y
<1>1. cap \in Nat \ {0} /\ cap - 1 \in Nat /\ Reaches(cap)
  BY DEF FullPeriod
<1>2. PICK s : Iterates(s, cap - 1) /\ s[0] = h
  BY <1>1, IteratesExist
<1>3. s \in [0 .. cap - 1 -> Nat] /\ \A k \in 1 .. cap - 1 : s[k] = 5 * s[k - 1] + 1
  BY <1>2 DEF Iterates
<1>4. ASSUME NEW k \in 1 .. cap - 1
      PROVE  idx_iter(cap, s[k - 1] % cap) = s[k] % cap
  <2>1. k - 1 \in 0 .. cap - 1
    BY <1>1
  <2>2. s[k - 1] \in Nat /\ s[k] = 5 * s[k - 1] + 1
    BY <1>3, <2>1
  <2>3. QED BY <1>1, <2>2, StepMod DEF idx_iter
<1> DEFINE f == [n \in 0 .. cap - 1 |-> s[n] % cap]
           slot == CHOOSE g : Probing(g, cap, h)
<1>5. Probing(f, cap, h)
  <2>1. ASSUME NEW n \in 0 .. cap - 1
        PROVE  f[n] = IF n = 0 THEN h % cap ELSE idx_iter(cap, f[n - 1])
    <3>1. CASE n = 0
      BY <1>2, <3>1
    <3>2. CASE n # 0
      <4>1. n \in 1 .. cap - 1 /\ n - 1 \in 0 .. cap - 1
        BY <1>1, <3>2
      <4>2. f[n - 1] = s[n - 1] % cap
        BY <4>1
      <4>3. QED BY <1>4, <3>2, <4>1, <4>2
    <3>3. QED BY <3>1, <3>2
  <2>2. f = [n \in 0 .. cap - 1 |-> f[n]]
    OBVIOUS
  <2> HIDE DEF f
  <2>3. QED BY <2>1, <2>2 DEF Probing
<1> HIDE DEF f
<1>6. Probing(slot, cap, h)
  BY <1>5, Zenon
<1>7. Probes(cap, h) = slot
  BY Zenon DEF Probes, Probing
<1> HIDE DEF slot
<1>8. /\ DOMAIN slot = 0 .. cap - 1
      /\ \A n \in 0 .. cap - 1 : slot[n] = IF n = 0 THEN h % cap ELSE idx_iter(cap, slot[n - 1])
  BY <1>6 DEF Probing
<1> DEFINE S == {n \in Nat : n <= cap - 1 => slot[n] = s[n] % cap}
<1>9. 0 \in S
  BY <1>1, <1>2, <1>8
<1>10. ASSUME NEW n \in Nat, n \in S PROVE n + 1 \in S
  <2>1. SUFFICES ASSUME n + 1 <= cap - 1 PROVE slot[n + 1] = s[n + 1] % cap
    OBVIOUS
  <2>2. n + 1 \in 1 .. cap - 1 /\ n + 1 \in 0 .. cap - 1 /\ (n + 1) - 1 = n /\ n <= cap - 1
    BY <1>1, <2>1
  <2>3. slot[n] = s[n] % cap
    BY <1>10, <2>2
  <2>4. slot[n + 1] = idx_iter(cap, slot[n])
    BY <1>8, <2>2
  <2>5. idx_iter(cap, s[(n + 1) - 1] % cap) = s[n + 1] % cap
    BY <1>4, <2>2
  <2>6. QED BY <2>2, <2>3, <2>4, <2>5
<1> HIDE DEF S
<1>11. Nat \subseteq S
  BY <1>9, <1>10, Induction
<1>12. Visits(s, cap)
  <2>1. cap <= (cap - 1) + 1
    BY <1>1
  <2>2. QED BY <1>1, <1>2, <2>1 DEF Reaches
<1>13. PICK k \in 0 .. cap - 1, t \in Int : s[k] = y + cap * t
  BY <1>12 DEF Visits
<1>14. slot[k] = s[k] % cap
  <2>1. k \in S /\ k <= cap - 1
    BY <1>1, <1>11
  <2>2. QED BY <2>1 DEF S
<1>15. s[k] % cap = y
  BY <1>1, <1>13, ModShift
<1>16. QED BY <1>7, <1>8, <1>14, <1>15

(* No key has the hash 0 of an empty slot.                                 *)
LEMMA HashIsPositive ==
  ASSUME NEW key
  PROVE  cmp_hash(key) \in Nat \ {0}
<1>1. 1 \in Nat \ {0}
  OBVIOUS
<1>2. (CHOOSE h \in Nat \ {0} : TRUE) \in Nat \ {0}
  BY <1>1, Zenon
<1>3. QED BY <1>2, DictAssumption DEF cmp_hash

(* The first slot of some that is probed is one of them.                   *)
LEMMA FirstProbedIs ==
  ASSUME NEW d, NEW key, NEW slots, FullPeriod(capacity(d)),
         NEW y \in slots, y \in 0 .. capacity(d) - 1
  PROVE  FirstProbed(d, key, slots) \in slots
<1> DEFINE probes == Probes(capacity(d), cmp_hash(key))
           hits == {n \in DOMAIN probes : probes[n] \in slots}
           first == CHOOSE n \in hits : \A m \in hits : n <= m
<1>1. cmp_hash(key) \in Nat
  BY HashIsPositive
<1>2. /\ DOMAIN probes = 0 .. capacity(d) - 1
      /\ \E k \in 0 .. capacity(d) - 1 : probes[k] = y
  <2> DEFINE h == cmp_hash(key)
             cap == capacity(d)
  <2>1. h \in Nat /\ FullPeriod(cap) /\ y \in 0 .. cap - 1
    BY <1>1
  <2> HIDE DEF h, cap
  <2>2. /\ DOMAIN Probes(cap, h) = 0 .. cap - 1
        /\ \E k \in 0 .. cap - 1 : Probes(cap, h)[k] = y
    BY ONLY <2>1, ProbesReach
  <2>3. QED BY <2>2 DEF h, cap
<1>3. hits # {} /\ hits \subseteq Nat
  <2> HIDE DEF probes
  <2>1. QED BY <1>2
<1>4. FirstProbed(d, key, slots) = probes[first]
  BY <1>3 DEF FirstProbed
<1>5. first \in hits
  <2> HIDE DEF hits
  <2>1. \E n \in hits : \A m \in hits : n <= m
    BY <1>3, Least
  <2>2. QED BY <2>1
<1> HIDE DEF first
<1>6. QED BY <1>4, <1>5

(* A dictionary that was only put to: it is never full, so that there is   *)
(* a slot for every mapping, and it counts no fewer mappings than it has.  *)
Roomy(d) ==
    /\ \E cap \in Nat : /\ FullPeriod(cap) /\ cap >= 2
                        /\ DOMAIN d.slots = 0 .. cap - 1
                        /\ 4 * d.size < 3 * cap
    /\ Cardinality(Used(d)) <= d.size

(* The capacity of a dictionary and the slots in use are finite.           *)
LEMMA CapacityIs ==
  ASSUME NEW d, NEW cap \in Nat, DOMAIN d.slots = 0 .. cap - 1
  PROVE  /\ capacity(d) = cap
         /\ IsFiniteSet(Used(d)) /\ Cardinality(Used(d)) \in Nat
<1>1. /\ IsFiniteSet(0 .. cap - 1)
      /\ Cardinality(0 .. cap - 1) = IF 0 > cap - 1 THEN 0 ELSE cap - 1 - 0 + 1
  BY FS_Interval
<1>2. capacity(d) = cap
  BY <1>1 DEF capacity
<1>3. Used(d) \subseteq 0 .. cap - 1
  BY DEF Used
<1>4. QED BY <1>1, <1>2, <1>3, FS_Subset, FS_CardinalityType

(* A new dictionary has room,                                              *)
LEMMA RoomyInit == Roomy(dict_init)
<1> DEFINE slots == [i \in 0 .. DEFAULT_CAP - 1 |-> Empty]
<1>1. dict_init.slots = slots /\ dict_init.size = 0
  BY DEF dict_init
<1>2. FullPeriod(DEFAULT_CAP) /\ DEFAULT_CAP >= 2 /\ DEFAULT_CAP \in Nat
  BY DefaultPeriod, DictAssumption
<1>3. Used(dict_init) = {}
  BY <1>1 DEF Used, IsEmpty, Empty
<1>4. Cardinality(Used(dict_init)) = 0
  BY <1>3, FS_EmptySet
<1>5. DOMAIN slots = 0 .. DEFAULT_CAP - 1 /\ 4 * 0 < 3 * DEFAULT_CAP
  BY <1>2
<1>6. QED BY <1>1, <1>2, <1>4, <1>5 DEF Roomy

(* Where dict_put puts a mapping, and that the others stay as they are     *)
PutsAt(d, key, value, at) ==
    LET put == dict_put(d, key, value)
    IN  /\ at \in DOMAIN d.slots /\ (IsEmpty(d.slots[at]) \/ at \in Occupied(d, key))
        /\ put.slots[at] = [hash |-> cmp_hash(key), key |-> key, value |-> value]
        /\ Used(put) = Used(d) \cup {at}
        /\ \A i \in Used(d) : i # at => put.slots[i] = d.slots[i]
        /\ put.size = d.size + 1

(* and still has it after a put, which finds a slot without a search in vain.*)
LEMMA RoomyPut ==
  ASSUME NEW d, d.size \in Nat, Roomy(d), NEW key, NEW value
  PROVE  Roomy(dict_put(d, key, value)) /\ \E at : PutsAt(d, key, value, at)
<1> DEFINE free == {i \in DOMAIN d.slots : IsEmpty(d.slots[i])}
           at == FirstProbed(d, key, free \cup Occupied(d, key))
           new == [hash |-> cmp_hash(key), key |-> key, value |-> value]
           slots == [d.slots EXCEPT ![at] = new]
           put == [slots |-> slots, size |-> d.size + 1]
<1>1. PICK c \in Nat : /\ FullPeriod(c) /\ c >= 2
                       /\ DOMAIN d.slots = 0 .. c - 1
                       /\ 4 * d.size < 3 * c
  BY DEF Roomy
<1>2. /\ capacity(d) = c
      /\ Cardinality(Used(d)) <= d.size /\ Cardinality(Used(d)) \in Nat /\ IsFiniteSet(Used(d))
  BY <1>1, CapacityIs DEF Roomy
<1>3. free # {}
  <2>1. SUFFICES ASSUME free = {} PROVE FALSE
    OBVIOUS
  <2>2. Used(d) = 0 .. c - 1
    BY <1>1, <2>1 DEF Used
  <2>3. Cardinality(0 .. c - 1) = IF 0 > c - 1 THEN 0 ELSE c - 1 - 0 + 1
    BY FS_Interval
  <2>4. QED BY <1>1, <1>2, <2>2, <2>3
<1>4. at \in 0 .. c - 1 /\ (IsEmpty(d.slots[at]) \/ at \in Occupied(d, key))
  <2> DEFINE F == free \cup Occupied(d, key)
  <2>1. F \subseteq 0 .. c - 1 /\ \E y \in F : y \in 0 .. c - 1
    BY <1>1, <1>3 DEF Occupied
  <2>2. at = FirstProbed(d, key, F)
    OBVIOUS
  <2> HIDE DEF F, at
  <2>3. at \in F
    BY <1>1, <1>2, <2>1, <2>2, FirstProbedIs
  <2>4. QED BY <2>1, <2>3 DEF F
<1> HIDE DEF at, free
<1>5. new = [hash |-> cmp_hash(key), key |-> key, value |-> value] /\ ~IsEmpty(new)
  BY HashIsPositive DEF IsEmpty
<1> HIDE DEF new
<1>6. /\ DOMAIN slots = 0 .. c - 1
      /\ \A i \in 0 .. c - 1 : slots[i] = IF i = at THEN new ELSE d.slots[i]
  BY <1>1
<1>7. put.slots = slots /\ put.size = d.size + 1
  OBVIOUS
<1> HIDE DEF slots, put
<1>8. /\ put.slots[at] = new /\ Used(put) = Used(d) \cup {at}
      /\ \A i \in Used(d) : i # at => put.slots[i] = d.slots[i]
  BY <1>1, <1>4, <1>5, <1>6, <1>7 DEF Used
<1>9. Cardinality(Used(put)) <= put.size
  <2>1. Cardinality(Used(d) \cup {at}) <= Cardinality(Used(d)) + 1
    BY <1>2, FS_AddElement
  <2>2. IsFiniteSet(Used(put)) /\ Cardinality(Used(put)) \in Nat
    BY <1>1, <1>6, <1>7, CapacityIs
  <2>3. QED BY <1>2, <1>7, <1>8, <2>1, <2>2
<1> DEFINE cap == 2 * capacity(put)
           big == rehash_nodes(put, cap)
           grown == grow(put)
<1>10. capacity(put) = c
  BY <1>1, <1>6, <1>7, CapacityIs
<1>11. cap \in Nat /\ cap = 2 * c /\ \A i \in 0 .. c - 1 : i \in 0 .. cap - 1
  BY <1>10
<1> HIDE DEF cap
<1>12. /\ DOMAIN big = 0 .. cap - 1
       /\ \A i \in 0 .. cap - 1 : big[i] = IF i \in 0 .. c - 1 THEN slots[i] ELSE Empty
  BY <1>6, <1>7 DEF rehash_nodes
<1>13. grown.slots = big /\ grown.size = put.size
  BY DEF grow, cap
<1> HIDE DEF big, grown
<1>14. Used(grown) = Used(put) /\ \A i \in Used(put) : grown.slots[i] = put.slots[i]
  BY <1>6, <1>7, <1>11, <1>12, <1>13 DEF Used, IsEmpty, Empty
<1>15. /\ grown.slots[at] = new /\ Used(grown) = Used(d) \cup {at}
       /\ \A i \in Used(d) : i # at => grown.slots[i] = d.slots[i]
       /\ Cardinality(Used(grown)) <= grown.size
  BY <1>8, <1>9, <1>13, <1>14
<1>16. FullPeriod(cap)
  BY <1>1, <1>11, PeriodTwice
<1>17. CASE 4 * put.size >= 3 * capacity(d)
  <2>1. dict_put(d, key, value) = grown
    BY <1>17 DEF dict_put, put, slots, at, free, new, grown
  <2>2. cap >= 2 /\ 4 * grown.size < 3 * cap
    BY <1>1, <1>2, <1>7, <1>11, <1>13
  <2>3. Roomy(grown)
    BY <1>11, <1>12, <1>13, <1>15, <1>16, <2>2 DEF Roomy
  <2>4. PutsAt(d, key, value, at)
    BY <1>1, <1>4, <1>5, <1>7, <1>13, <1>15, <2>1 DEF PutsAt
  <2>5. QED BY <2>1, <2>3, <2>4
<1>18. CASE ~(4 * put.size >= 3 * capacity(d))
  <2>1. dict_put(d, key, value) = put
    BY <1>18 DEF dict_put, put, slots, at, free, new
  <2>2. 4 * put.size < 3 * c
    BY <1>2, <1>7, <1>18
  <2>3. Roomy(put)
    BY <1>1, <1>6, <1>7, <1>9, <2>2 DEF Roomy
  <2>4. PutsAt(d, key, value, at)
    BY <1>1, <1>4, <1>5, <1>7, <1>8, <2>1 DEF PutsAt
  <2>5. QED BY <2>1, <2>3, <2>4
<1>19. QED BY <1>17, <1>18

(* A value that was put is in the dictionary.                              *)
LEMMA PutIsThere ==
  ASSUME NEW d, d.size \in Nat, Roomy(d), NEW key, NEW value
  PROVE  value \in Values(dict_put(d, key, value))
<1>1. PICK at : PutsAt(d, key, value, at)
  BY RoomyPut
<1>2. QED BY <1>1 DEF PutsAt, Values

(* A dictionary to which no name was put twice                             *)
Names(d) == {d.slots[i].key : i \in Used(d)}
Unrepeated(d) ==
    /\ \A i \in Used(d) : d.slots[i].hash = cmp_hash(d.slots[i].key)
    /\ \A i, j \in Used(d) : d.slots[i].key = d.slots[j].key => i = j

(* A mapping is found where it is, wherever the probes for it begin.       *)
LEMMA GetIs ==
  ASSUME NEW d, Roomy(d), Unrepeated(d), NEW i \in Used(d), d.size \in Nat \ {0}
  PROVE  Has(d, d.slots[i].key) /\ dict_get(d, d.slots[i].key) = d.slots[i].value
<1> DEFINE key == d.slots[i].key
           slots == Occupied(d, key)
<1>1. PICK c \in Nat : FullPeriod(c) /\ c >= 2 /\ DOMAIN d.slots = 0 .. c - 1
  BY DEF Roomy
<1>2. capacity(d) = c
  BY <1>1, CapacityIs
<1>3. slots = {i}
  BY DEF Occupied, Matches, Used, Unrepeated
<1>4. i \in 0 .. capacity(d) - 1 /\ FullPeriod(capacity(d)) /\ i \in slots
  BY <1>1, <1>2, <1>3 DEF Used
<1> HIDE DEF key, slots
<1>5. FirstProbed(d, key, slots) \in slots
  BY <1>4, FirstProbedIs
<1>6. get_elem(d, key) = i /\ i # -1
  BY <1>1, <1>3, <1>4, <1>5 DEF get_elem, slots
<1>7. QED BY <1>6 DEF Has, dict_get, key

(* The dictionary is a map of the names that were put, as long as none is  *)
(* put twice: a new one is found, and those that were there are found as   *)
(* before, although a dictionary that grows leaves its mappings in the     *)
(* slots of the smaller one (dict_put, rehash_nodes, get_elem).            *)
THEOREM PutIsFound ==
  ASSUME NEW d, d.size \in Nat, Roomy(d), Unrepeated(d), NEW key, key \notin Names(d), NEW value
  PROVE  LET put == dict_put(d, key, value)
         IN  /\ Roomy(put) /\ Unrepeated(put)
             /\ Names(put) = Names(d) \cup {key}
             /\ Has(put, key) /\ dict_get(put, key) = value
             /\ \A name \in Names(d) :
                    Has(put, name) /\ dict_get(put, name) = dict_get(d, name)
<1> DEFINE put == dict_put(d, key, value)
<1>1. PICK at : PutsAt(d, key, value, at)
  BY RoomyPut
<1>2. Roomy(put)
  BY RoomyPut
<1>3. Occupied(d, key) = {}
  BY DEF Occupied, Matches, Names, Used
<1>4. /\ IsEmpty(d.slots[at])
      /\ put.slots[at] = [hash |-> cmp_hash(key), key |-> key, value |-> value]
      /\ Used(put) = Used(d) \cup {at}
      /\ \A i \in Used(d) : i # at => put.slots[i] = d.slots[i]
      /\ put.size = d.size + 1
  BY <1>1, <1>3 DEF PutsAt
<1> HIDE DEF put
<1>5. /\ at \notin Used(d) /\ put.size \in Nat \ {0}
      /\ put.slots[at].key = key /\ put.slots[at].hash = cmp_hash(key)
      /\ put.slots[at].value = value
  BY <1>4 DEF Used
<1>6. Unrepeated(put)
  <2>1. \A i \in Used(put) : put.slots[i].hash = cmp_hash(put.slots[i].key)
    BY <1>4, <1>5 DEF Unrepeated
  <2>2. ASSUME NEW i \in Used(put), NEW j \in Used(put), put.slots[i].key = put.slots[j].key
        PROVE  i = j
    BY <1>4, <1>5, <2>2 DEF Unrepeated, Names
  <2>3. QED BY <2>1, <2>2 DEF Unrepeated
<1>7. Names(put) = Names(d) \cup {key}
  BY <1>4, <1>5 DEF Names
<1>8. Has(put, key) /\ dict_get(put, key) = value
  BY <1>2, <1>4, <1>5, <1>6, GetIs
<1>9. ASSUME NEW name \in Names(d)
      PROVE  Has(put, name) /\ dict_get(put, name) = dict_get(d, name)
  <2>1. PICK i \in Used(d) : name = d.slots[i].key
    BY DEF Names
  <2>2. i \in Used(put) /\ put.slots[i] = d.slots[i]
    BY <1>4, <1>5, <2>1
  <2>3. d.size # 0
    <3>1. IsFiniteSet(Used(d)) /\ Cardinality(Used(d)) <= d.size
      BY CapacityIs DEF Roomy
    <3>2. Cardinality(Used(d)) # 0 /\ Cardinality(Used(d)) \in Nat
      BY <2>1, <3>1, FS_EmptySet, FS_CardinalityType
    <3>3. QED BY <3>1, <3>2
  <2>4. Has(put, name) /\ dict_get(put, name) = put.slots[i].value
    BY <1>2, <1>5, <1>6, <2>1, <2>2, GetIs
  <2>5. dict_get(d, name) = d.slots[i].value
    BY <2>1, <2>3, GetIs
  <2>6. QED BY <2>2, <2>4, <2>5
<1>10. QED BY <1>2, <1>6, <1>7, <1>8, <1>9 DEF put

(* dict_foreach then visits every slot that is used.                       *)
LEMMA ForeachVisits ==
  ASSUME NEW d, DictInv(d), Roomy(d), NEW i \in Used(d)
  PROVE  \E n \in DOMAIN dict_foreach(d) : dict_foreach(d)[n] = d.slots[i]
<1> DEFINE used == {k \in DOMAIN d.slots : ~IsEmpty(d.slots[k])}
           Rank(k) == Cardinality({j \in used : j < k})
           count == IF Cardinality(used) < d.size THEN Cardinality(used) ELSE d.size
           At(n) == CHOOSE k \in used : Rank(k) = n - 1
<1>1. PICK c \in Nat : DOMAIN d.slots = 0 .. c - 1
  BY DEF DictInv
<1>2. used = Used(d) /\ used \subseteq 0 .. c - 1
  BY <1>1 DEF Used
<1>3. dict_foreach(d) = [n \in 1 .. count |-> d.slots[At(n)]]
  BY Zenon DEF dict_foreach
<1>4. IsFiniteSet(used) /\ Cardinality(used) \in Nat /\ count = Cardinality(used)
  <2>1. IsFiniteSet(Used(d)) /\ Cardinality(Used(d)) \in Nat /\ Cardinality(Used(d)) <= d.size
    BY <1>1, CapacityIs DEF Roomy
  <2>2. count = Cardinality(used)
    <3> HIDE DEF used
    <3>1. QED BY <1>2, <2>1 DEF DictInv
  <2>3. QED BY <1>2, <2>1, <2>2
<1> HIDE DEF count, used
<1>5. \A k \in used : k \in Nat
  BY <1>2
<1>6. ASSUME NEW k \in used, NEW S, {j \in used : j < k} \cup {k} \subseteq S, S \subseteq used
      PROVE  Rank(k) \in Nat /\ Rank(k) < Cardinality(S)
  <2> DEFINE L == {j \in used : j < k}
  <2>1. IsFiniteSet(S)
    BY <1>4, <1>6, FS_Subset
  <2>2. k \notin L /\ L \subseteq S /\ L # S
    BY <1>5, <1>6
  <2> HIDE DEF L
  <2>3. Cardinality(L) \in Nat /\ Cardinality(L) < Cardinality(S)
    BY <2>1, <2>2, FS_Subset, FS_CardinalityType
  <2>4. QED BY <2>3 DEF L
<1>7. ASSUME NEW k \in used, NEW m \in used, k < m
      PROVE  Rank(k) < Rank(m)
  <2> DEFINE S == {j \in used : j < m}
  <2>1. {j \in used : j < k} \cup {k} \subseteq S /\ S \subseteq used
    BY <1>5, <1>7
  <2> HIDE DEF S
  <2>2. Rank(k) < Cardinality(S)
    BY <1>6, <2>1
  <2>3. QED BY <2>2 DEF S
<1>8. \A k \in used : Rank(k) \in Nat /\ Rank(k) < Cardinality(used)
  <2>1. SUFFICES ASSUME NEW k \in used PROVE Rank(k) \in Nat /\ Rank(k) < Cardinality(used)
    OBVIOUS
  <2>2. {j \in used : j < k} \cup {k} \subseteq used
    OBVIOUS
  <2> HIDE DEF Rank
  <2>3. QED BY <1>6, <2>2
<1> HIDE DEF Rank
<1>9. \A k, m \in used : Rank(k) = Rank(m) => k = m
  <2>1. \A k, m \in used : k < m \/ k = m \/ m < k
    BY <1>5
  <2>2. QED BY <1>7, <1>8, <2>1
<1> DEFINE n == Rank(i) + 1
<1>10. n \in 1 .. count /\ n - 1 = Rank(i) /\ i \in used
  BY <1>2, <1>4, <1>8
<1>11. At(n) = i
  BY <1>9, <1>10
<1> HIDE DEF n, At
<1>12. QED BY <1>3, <1>10, <1>11
-----------------------------------------------------------------------------
(* Sequences of whatever elements                                          *)
IsSeq(s) == \E S : s \in Seq(S)
NoTwice(s) == \A i, j \in DOMAIN s : s[i] = s[j] => i = j

LEMMA SeqAny ==
  ASSUME NEW s, IsSeq(s)
  PROVE  /\ Len(s) \in Nat /\ DOMAIN s = 1 .. Len(s)
         /\ s = [i \in 1 .. Len(s) |-> s[i]]
         /\ s \in Seq(Range(s))
         /\ Len(s) = 0 <=> s = <<>>
<1>1. PICK S : s \in Seq(S)
  BY DEF IsSeq
<1>2. Len(s) \in Nat /\ DOMAIN s = 1 .. Len(s) /\ s \in [1 .. Len(s) -> S]
  BY <1>1
<1>3. Len(s) = 0 <=> s = <<>>
  BY <1>1, EmptySeq
<1>4. QED BY <1>1, <1>2, <1>3, SeqOfRange

LEMMA MadeAny ==
  ASSUME NEW n \in Nat, NEW f, f = [i \in 1 .. n |-> f[i]]
  PROVE  IsSeq(f) /\ Len(f) = n
<1> DEFINE S == {f[i] : i \in 1 .. n}
<1>1. f \in [1 .. n -> S]
  OBVIOUS
<1> HIDE DEF S
<1>2. f \in Seq(S) /\ Len(f) = n
  BY <1>1
<1>3. QED BY <1>2 DEF IsSeq

LEMMA AppendAny ==
  ASSUME NEW s, IsSeq(s), NEW e
  PROVE  /\ IsSeq(Append(s, e)) /\ Len(Append(s, e)) = Len(s) + 1
         /\ \A i \in 1 .. Len(s) : Append(s, e)[i] = s[i]
         /\ Append(s, e)[Len(s) + 1] = e
<1>1. PICK S : s \in Seq(S)
  BY DEF IsSeq
<1> DEFINE U == S \cup {e}
<1>2. s \in Seq(U) /\ e \in U
  BY <1>1, SeqMonotonic
<1> HIDE DEF U
<1>3. QED BY <1>2, AppendProperties DEF IsSeq

LEMMA ExceptAny ==
  ASSUME NEW s, IsSeq(s), NEW n \in 1 .. Len(s), NEW e
  PROVE  /\ IsSeq([s EXCEPT ![n] = e]) /\ Len([s EXCEPT ![n] = e]) = Len(s)
         /\ \A i \in 1 .. Len(s) : [s EXCEPT ![n] = e][i] = IF i = n THEN e ELSE s[i]
<1>1. PICK S : s \in Seq(S)
  BY DEF IsSeq
<1> DEFINE U == S \cup {e}
<1>2. s \in Seq(U) /\ e \in U
  BY <1>1, SeqMonotonic
<1> HIDE DEF U
<1>3. QED BY <1>2, ExceptSeq DEF IsSeq

LEMMA FrontAny ==
  ASSUME NEW s, IsSeq(s), s # <<>>
  PROVE  /\ IsSeq(Front(s)) /\ Len(Front(s)) = Len(s) - 1
         /\ \A i \in 1 .. Len(s) - 1 : Front(s)[i] = s[i]
<1>1. PICK S : s \in Seq(S)
  BY DEF IsSeq
<1>2. Len(s) \in Nat \ {0}
  BY <1>1, EmptySeq
<1>3. Front(s) \in Seq(S) /\ Len(Front(s)) = Len(s) - 1
      /\ \A i \in 1 .. Len(s) - 1 : Front(s)[i] = s[i]
  <2>1. \A i \in 1 .. Len(s) - 1 : s[i] \in S
    BY <1>1, <1>2
  <2>2. Len(s) - 1 \in Int
    BY <1>2
  <2> DEFINE t == SubSeq(s, 1, Len(s) - 1)
  <2>3. /\ t \in Seq(S) /\ Len(t) = IF 1 <= Len(s) - 1 THEN Len(s) - 1 - 1 + 1 ELSE 0
        /\ \A i \in 1 .. Len(s) - 1 - 1 + 1 : t[i] = s[1 + i - 1]
    BY ONLY <2>1, <2>2, SubSeqProperties, 1 \in Int
  <2>4. Front(s) = t
    BY DEF Front
  <2> HIDE DEF t
  <2>5. QED BY <1>2, <2>3, <2>4
<1>4. QED BY <1>3 DEF IsSeq

LEMMA ConcatAny ==
  ASSUME NEW s, IsSeq(s), NEW t, IsSeq(t)
  PROVE  /\ IsSeq(s \o t) /\ Len(s \o t) = Len(s) + Len(t)
         /\ \A i \in 1 .. Len(s) + Len(t) :
               (s \o t)[i] = IF i <= Len(s) THEN s[i] ELSE t[i - Len(s)]
<1> DEFINE U == Range(s) \cup Range(t)
<1>1. s \in Seq(Range(s)) /\ t \in Seq(Range(t))
  BY SeqAny
<1>2. s \in Seq(U) /\ t \in Seq(U)
  BY <1>1, SeqMonotonic
<1> HIDE DEF U
<1>3. QED BY <1>2, ConcatProperties DEF IsSeq

LEMMA ConcatNoTwice ==
  ASSUME NEW A, NEW B, A \cap B = {}, NEW s \in Seq(A), NEW t \in Seq(B), NoTwice(s), NoTwice(t)
  PROVE  s \o t \in Seq(A \cup B) /\ NoTwice(s \o t)
<1> DEFINE U == A \cup B
<1>1. s \in Seq(U) /\ t \in Seq(U)
  BY SeqMonotonic
<1>2. /\ s \o t \in Seq(U) /\ Len(s \o t) = Len(s) + Len(t)
      /\ \A i \in 1 .. Len(s) + Len(t) :
            (s \o t)[i] = IF i <= Len(s) THEN s[i] ELSE t[i - Len(s)]
  <2> HIDE DEF U
  <2>1. QED BY <1>1, ConcatProperties
<1>3. /\ Len(s) \in Nat /\ Len(t) \in Nat
      /\ DOMAIN s = 1 .. Len(s) /\ DOMAIN t = 1 .. Len(t)
      /\ DOMAIN (s \o t) = 1 .. Len(s) + Len(t)
  BY <1>1, <1>2
<1>4. (\A i \in 1 .. Len(s) : s[i] \in A) /\ \A i \in 1 .. Len(t) : t[i] \in B
  OBVIOUS
<1> DEFINE u == s \o t
<1> HIDE DEF u
<1>5. ASSUME NEW i \in 1 .. Len(s) + Len(t), NEW j \in 1 .. Len(s) + Len(t), u[i] = u[j]
      PROVE  i = j
  <2>1. /\ u[i] = IF i <= Len(s) THEN s[i] ELSE t[i - Len(s)]
        /\ u[j] = IF j <= Len(s) THEN s[j] ELSE t[j - Len(s)]
    BY <1>2 DEF u
  <2>2. CASE i <= Len(s) /\ j <= Len(s)
    <3>1. i \in DOMAIN s /\ j \in DOMAIN s
      BY <1>3, <2>2
    <3>2. s[i] = s[j]
      BY <1>5, <2>1, <2>2
    <3>3. QED BY <3>1, <3>2 DEF NoTwice
  <2>3. CASE i <= Len(s) /\ ~(j <= Len(s))
    <3>1. s[i] \in A /\ t[j - Len(s)] \in B
      BY <1>3, <1>4, <2>3
    <3>2. QED BY <1>5, <2>1, <2>3, <3>1
  <2>4. CASE ~(i <= Len(s)) /\ j <= Len(s)
    <3>1. s[j] \in A /\ t[i - Len(s)] \in B
      BY <1>3, <1>4, <2>4
    <3>2. QED BY <1>5, <2>1, <2>4, <3>1
  <2>5. CASE ~(i <= Len(s)) /\ ~(j <= Len(s))
    <3>1. i - Len(s) \in DOMAIN t /\ j - Len(s) \in DOMAIN t
      BY <1>3, <2>5
    <3>2. i - Len(s) = j - Len(s)
      BY <1>5, <2>1, <2>5, <3>1 DEF NoTwice
    <3>3. QED BY <1>3, <3>2
  <2>6. QED BY <2>2, <2>3, <2>4, <2>5
<1>6. QED BY <1>2, <1>3, <1>5 DEF NoTwice, u

(* FlattenSeq of sequences is their concatenation.                         *)
Flat(f, ss, n) == f = [i \in 1 .. n |-> IF i = 1 THEN ss[i] ELSE f[i - 1] \o ss[i]]

LEMMA FlatExists ==
  ASSUME NEW ss, NEW N \in Nat
  PROVE  \E f : Flat(f, ss, N)
<1> DEFINE S == {n \in Nat : \E f : Flat(f, ss, n)}
<1>1. 0 \in S
  <2>1. Flat([n \in 1 .. 0 |-> 0], ss, 0)
    BY DEF Flat
  <2>2. QED BY <2>1
<1>2. ASSUME NEW n \in Nat, n \in S PROVE n + 1 \in S
  <2>1. PICK f : Flat(f, ss, n)
    BY <1>2
  <2> DEFINE g == [m \in 1 .. n + 1 |->
                      IF m \in 1 .. n THEN f[m]
                      ELSE IF m = 1 THEN ss[m] ELSE f[m - 1] \o ss[m]]
  <2>2. ASSUME NEW m \in 1 .. n + 1
        PROVE  g[m] = IF m = 1 THEN ss[m] ELSE g[m - 1] \o ss[m]
    <3>1. CASE m = 1
      BY <2>1, <3>1 DEF Flat
    <3>2. CASE m # 1
      <4>1. m - 1 \in 1 .. n /\ m - 1 \in 1 .. n + 1
        BY <3>2
      <4>2. g[m - 1] = f[m - 1]
        BY <4>1
      <4>3. g[m] = f[m - 1] \o ss[m]
        BY <2>1, <3>2 DEF Flat
      <4>4. QED BY <3>2, <4>2, <4>3
    <3>3. QED BY <3>1, <3>2
  <2>3. Flat(g, ss, n + 1)
    BY <2>2 DEF Flat
  <2>4. QED BY <2>3
<1>3. QED BY <1>1, <1>2, Induction

LEMMA FlattenDef ==
  ASSUME NEW ss, Len(ss) \in Nat, Len(ss) # 0
  PROVE  \E f : Flat(f, ss, Len(ss)) /\ FlattenSeq(ss) = f[Len(ss)]
<1> DEFINE N == Len(ss)
           flatten == CHOOSE f : Flat(f, ss, N)
<1>1. Flat(flatten, ss, N)
  <2>1. N \in Nat
    OBVIOUS
  <2> HIDE DEF N
  <2>2. \E f : Flat(f, ss, N)
    BY <2>1, FlatExists
  <2>3. QED BY <2>2, Zenon
<1>2. FlattenSeq(ss) = flatten[N]
  BY DEF FlattenSeq, Flat
<1> HIDE DEF flatten
<1>3. QED BY <1>1, <1>2

LEMMA FlattenAny ==
  ASSUME NEW ss, IsSeq(ss), \A i \in 1 .. Len(ss) : IsSeq(ss[i])
  PROVE  IsSeq(FlattenSeq(ss))
<1>1. Len(ss) \in Nat
  BY SeqAny
<1>2. CASE Len(ss) = 0
  BY <1>2 DEF FlattenSeq
<1>3. CASE Len(ss) # 0
  <2>1. PICK f : Flat(f, ss, Len(ss)) /\ FlattenSeq(ss) = f[Len(ss)]
    BY <1>1, <1>3, FlattenDef
  <2> DEFINE S == {n \in Nat : n + 1 <= Len(ss) => IsSeq(f[n + 1])}
  <2>2. \A i \in 1 .. Len(ss) : f[i] = IF i = 1 THEN ss[i] ELSE f[i - 1] \o ss[i]
    BY <2>1 DEF Flat
  <2>3. 0 \in S
    BY <1>1, <2>2
  <2>4. ASSUME NEW n \in Nat, n \in S PROVE n + 1 \in S
    <3>1. SUFFICES ASSUME n + 2 <= Len(ss) PROVE IsSeq(f[n + 2])
      BY <1>1
    <3>2. f[n + 2] = f[n + 1] \o ss[n + 2]
      <4>1. n + 2 \in 1 .. Len(ss) /\ n + 2 # 1 /\ (n + 2) - 1 = n + 1
        BY <1>1, <3>1
      <4>2. f[n + 2] = f[(n + 2) - 1] \o ss[n + 2]
        BY <2>2, <4>1
      <4>3. QED BY <4>1, <4>2
    <3>3. IsSeq(f[n + 1]) /\ IsSeq(ss[n + 2])
      BY <1>1, <2>4, <3>1
    <3>4. QED BY <3>2, <3>3, ConcatAny
  <2> HIDE DEF S
  <2>5. Nat \subseteq S
    BY <2>3, <2>4, Induction
  <2>6. Len(ss) - 1 \in S /\ (Len(ss) - 1) + 1 = Len(ss)
    BY <1>1, <1>3, <2>5
  <2>7. QED BY <1>1, <2>1, <2>6 DEF S
<1>4. QED BY <1>2, <1>3

(* The parts of a sequence from distinct places have nothing in common.    *)
LEMMA FlattenNoTwice ==
  ASSUME NEW ss, IsSeq(ss), NEW C,
         \A i \in 1 .. Len(ss) : ss[i] \in Seq(C[i]) /\ NoTwice(ss[i]),
         \A i, j \in 1 .. Len(ss) : i # j => C[i] \cap C[j] = {}
  PROVE  /\ FlattenSeq(ss) \in Seq(UNION {C[i] : i \in 1 .. Len(ss)})
         /\ NoTwice(FlattenSeq(ss))
<1> DEFINE N == Len(ss)
           U(n) == UNION {C[i] : i \in 1 .. n}
<1>1. N \in Nat
  BY SeqAny
<1>2. CASE N = 0
  <2>1. ss = <<>> /\ FlattenSeq(ss) = ss
    BY <1>2, SeqAny DEF FlattenSeq
  <2>2. <<>> \in Seq(U(N)) /\ NoTwice(<<>>)
    BY EmptySeq DEF NoTwice
  <2>3. QED BY <2>1, <2>2
<1>3. CASE N # 0
  <2>1. PICK f : Flat(f, ss, N) /\ FlattenSeq(ss) = f[N]
    BY <1>1, <1>3, FlattenDef
  <2> DEFINE S == {n \in Nat : n + 1 <= N => f[n + 1] \in Seq(U(n + 1)) /\ NoTwice(f[n + 1])}
  <2>2. \A i \in 1 .. N : f[i] = IF i = 1 THEN ss[i] ELSE f[i - 1] \o ss[i]
    BY <2>1 DEF Flat
  <2>3. 0 \in S
    <3>1. SUFFICES ASSUME 1 <= N PROVE f[1] \in Seq(U(1)) /\ NoTwice(f[1])
      OBVIOUS
    <3>2. f[1] = ss[1] /\ ss[1] \in Seq(C[1]) /\ NoTwice(ss[1])
      BY <1>1, <2>2, <3>1
    <3>3. U(1) = C[1]
      OBVIOUS
    <3>4. QED BY <3>2, <3>3
  <2>4. ASSUME NEW n \in Nat, n \in S PROVE n + 1 \in S
    <3>1. SUFFICES ASSUME n + 2 <= N PROVE f[n + 2] \in Seq(U(n + 2)) /\ NoTwice(f[n + 2])
      BY <1>1
    <3>2. f[n + 2] = f[n + 1] \o ss[n + 2]
      <4>1. n + 2 \in 1 .. Len(ss) /\ n + 2 # 1 /\ (n + 2) - 1 = n + 1
        BY <1>1, <3>1
      <4>2. f[n + 2] = f[(n + 2) - 1] \o ss[n + 2]
        BY <2>2, <4>1
      <4>3. QED BY <4>1, <4>2
    <3>3. f[n + 1] \in Seq(U(n + 1)) /\ NoTwice(f[n + 1])
      BY <1>1, <2>4, <3>1
    <3>4. ss[n + 2] \in Seq(C[n + 2]) /\ NoTwice(ss[n + 2])
      BY <1>1, <3>1
    <3>5. U(n + 1) \cap C[n + 2] = {}
      <4>1. ASSUME NEW i \in 1 .. n + 1
            PROVE  C[i] \cap C[n + 2] = {}
        BY <1>1, <3>1
      <4>2. QED BY <4>1
    <3>6. U(n + 2) = U(n + 1) \cup C[n + 2]
      <4>1. 1 .. n + 2 = (1 .. n + 1) \cup {n + 2}
        OBVIOUS
      <4>2. QED BY ONLY <4>1
    <3> HIDE DEF U
    <3>7. f[n + 1] \o ss[n + 2] \in Seq(U(n + 1) \cup C[n + 2])
          /\ NoTwice(f[n + 1] \o ss[n + 2])
      BY ONLY <3>3, <3>4, <3>5, ConcatNoTwice
    <3>8. QED BY <3>2, <3>6, <3>7
  <2> HIDE DEF S, U
  <2>5. Nat \subseteq S
    BY <2>3, <2>4, Induction
  <2>6. N - 1 \in S /\ (N - 1) + 1 = N
    BY <1>1, <1>3, <2>5
  <2>7. QED BY <1>1, <2>1, <2>6 DEF S, U
<1>4. QED BY <1>2, <1>3
-----------------------------------------------------------------------------
(* The nodes that a node leads to, by its table or its vector: Children    *)
(* visits no others.                                                       *)
Gets(v) == {vect_get(v, i) : i \in 0 .. v.size - 1}
Held(node) ==
    CASE node.type = "JSON_OBJECT" -> Values(node.data)
      [] node.type = "JSON_ARRAY"  -> Gets(node.data)
      [] OTHER -> {}

NodeInv(node) ==
    /\ node = [type |-> node.type, data |-> node.data]
    /\ node.type = "JSON_OBJECT" => DictInv(node.data)
    /\ node.type = "JSON_ARRAY" =>
           /\ VectInv(node.data, Nat)
           /\ \A i, j \in 0 .. node.data.size - 1 :
                  vect_get(node.data, i) = vect_get(node.data, j) => i = j

(* The nodes are a forest: what a node leads to was created after it, and  *)
(* nothing else leads there.                                               *)
HeapInv(heap) ==
    /\ IsSeq(heap)
    /\ \A n \in 1 .. Len(heap) : NodeInv(heap[n]) /\ Held(heap[n]) \subseteq n + 1 .. Len(heap)
    /\ \A m, n \in 1 .. Len(heap) : m # n => Held(heap[m]) \cap Held(heap[n]) = {}
(* Nothing leads to a root.                                                *)
IsRoot(heap, n) == n \in 1 .. Len(heap) /\ \A m \in 1 .. Len(heap) : n \notin Held(heap[m])

LEMMA HeapEmpty == HeapInv(<<>>)
<1>1. IsSeq(<<>>) /\ Len(<<>>) = 0
  BY EmptySeq DEF IsSeq
<1>2. QED BY <1>1 DEF HeapInv

(* json_node_create adds a root that leads nowhere.                        *)
LEMMA HeapCreate ==
  ASSUME NEW heap, HeapInv(heap), NEW type
  PROVE  LET new == json_node_create(heap, type)
         IN  /\ HeapInv(new)
             /\ Len(new) = Len(heap) + 1
             /\ \A n \in 1 .. Len(heap) : new[n] = heap[n]
             /\ new[Len(heap) + 1].type = type
             /\ Held(new[Len(heap) + 1]) = {}
             /\ \A n \in 1 .. Len(heap) : IsRoot(heap, n) => IsRoot(new, n)
             /\ IsRoot(new, Len(heap) + 1)
<1> DEFINE node == [type |-> type, data |-> Zero(type)]
           new == json_node_create(heap, type)
           L == Len(heap)
<1>1. IsSeq(heap) /\ L \in Nat
  BY SeqAny DEF HeapInv
<1>2. new = Append(heap, node)
  BY DEF json_node_create
<1>3. node = [type |-> node.type, data |-> node.data] /\ node.type = type /\ node.data = Zero(type)
  OBVIOUS
<1> HIDE DEF node, new
<1>4. /\ IsSeq(new) /\ Len(new) = L + 1 /\ new[L + 1] = node
      /\ \A n \in 1 .. L : new[n] = heap[n]
  BY <1>1, <1>2, AppendAny
<1>5. NodeInv(node) /\ Held(node) = {}
  <2>1. CASE type = "JSON_OBJECT"
    <3>1. node.data = dict_init
      BY <1>3, <2>1 DEF Zero
    <3>2. QED BY <1>3, <2>1, <3>1, DictInit DEF NodeInv, Held
  <2>2. CASE type = "JSON_ARRAY"
    <3>1. node.data = vect_init_dynamic(4, NULL)
      BY <1>3, <2>2 DEF Zero
    <3>2. NULL \in Nat /\ 4 \in Nat /\ 4 >= 2
      BY DEF NULL
    <3>3. VectInv(node.data, Nat) /\ node.data.size = 0
      BY <3>1, <3>2, VectInit
    <3>4. Gets(node.data) = {}
      BY <3>3 DEF Gets
    <3>5. QED BY <1>3, <2>2, <3>3, <3>4 DEF NodeInv, Held
  <2>3. CASE type \notin {"JSON_OBJECT", "JSON_ARRAY"}
    BY <1>3, <2>3 DEF NodeInv, Held
  <2>4. QED BY <2>1, <2>2, <2>3
<1>6. HeapInv(new)
  <2>1. ASSUME NEW n \in 1 .. L + 1
        PROVE  NodeInv(new[n]) /\ Held(new[n]) \subseteq n + 1 .. L + 1
    <3>1. CASE n = L + 1
      BY <1>4, <1>5, <3>1
    <3>2. CASE n # L + 1
      <4>1. n \in 1 .. L
        BY <1>1, <3>2
      <4>2. NodeInv(heap[n]) /\ Held(heap[n]) \subseteq n + 1 .. L
        BY <4>1 DEF HeapInv
      <4>3. n + 1 .. L \subseteq n + 1 .. L + 1
        BY <1>1
      <4>4. QED BY <1>4, <4>1, <4>2, <4>3
    <3>3. QED BY <3>1, <3>2
  <2>2. ASSUME NEW m \in 1 .. L + 1, NEW n \in 1 .. L + 1, m # n
        PROVE  Held(new[m]) \cap Held(new[n]) = {}
    <3>1. CASE m = L + 1 \/ n = L + 1
      BY <1>4, <1>5, <3>1
    <3>2. CASE m # L + 1 /\ n # L + 1
      <4>1. m \in 1 .. L /\ n \in 1 .. L
        BY <1>1, <3>2
      <4>2. Held(heap[m]) \cap Held(heap[n]) = {}
        BY <2>2, <4>1 DEF HeapInv
      <4>3. QED BY <1>4, <4>1, <4>2
    <3>3. QED BY <3>1, <3>2
  <2>3. QED BY <1>4, <2>1, <2>2 DEF HeapInv
<1>7. ASSUME NEW n \in 1 .. L, IsRoot(heap, n)
      PROVE  IsRoot(new, n)
  <2>1. ASSUME NEW m \in 1 .. L + 1
        PROVE  n \notin Held(new[m])
    <3>1. CASE m = L + 1
      BY <1>4, <1>5, <3>1
    <3>2. CASE m # L + 1
      <4>1. m \in 1 .. L
        BY <1>1, <3>2
      <4>2. QED BY <1>4, <1>7, <4>1 DEF IsRoot
    <3>3. QED BY <3>1, <3>2
  <2>2. n \in 1 .. L + 1
    BY <1>1
  <2>3. QED BY <1>4, <2>1, <2>2 DEF IsRoot
<1>8. IsRoot(new, L + 1)
  <2>1. ASSUME NEW m \in 1 .. L + 1
        PROVE  L + 1 \notin Held(new[m])
    <3>1. CASE m = L + 1
      BY <1>4, <1>5, <3>1
    <3>2. CASE m # L + 1
      <4>1. m \in 1 .. L
        BY <1>1, <3>2
      <4>2. Held(heap[m]) \subseteq m + 1 .. L
        BY <4>1 DEF HeapInv
      <4>3. L + 1 \notin m + 1 .. L
        BY <1>1
      <4>4. QED BY <1>4, <4>1, <4>2, <4>3
    <3>3. QED BY <3>1, <3>2
  <2>2. L + 1 \in 1 .. L + 1
    BY <1>1
  <2>3. QED BY <1>4, <2>1, <2>2 DEF IsRoot
<1>9. QED BY <1>3, <1>4, <1>5, <1>6, <1>7, <1>8 DEF new

(* Changing the data of a node, so that it leads to some roots more        *)
LEMMA HeapSet ==
  ASSUME NEW heap, HeapInv(heap), NEW n \in 1 .. Len(heap), NEW data,
         NodeInv([type |-> heap[n].type, data |-> data]),
         NEW X, \A x \in X : IsRoot(heap, x) /\ x > n,
         Held([type |-> heap[n].type, data |-> data]) \subseteq Held(heap[n]) \cup X
  PROVE  LET new == [heap EXCEPT ![n].data = data]
         IN  /\ HeapInv(new)
             /\ Len(new) = Len(heap)
             /\ \A m \in 1 .. Len(heap) : m # n => new[m] = heap[m]
             /\ new[n] = [type |-> heap[n].type, data |-> data]
             /\ \A m \in 1 .. Len(heap) : Held(new[m]) \subseteq Held(heap[m]) \cup X
             /\ \A m \in 1 .. Len(heap) : IsRoot(heap, m) /\ m \notin X => IsRoot(new, m)
<1> DEFINE node == [type |-> heap[n].type, data |-> data]
           new == [heap EXCEPT ![n].data = data]
           L == Len(heap)
<1>1. IsSeq(heap) /\ L \in Nat
  BY SeqAny DEF HeapInv
<1>2. heap[n] = [type |-> heap[n].type, data |-> heap[n].data]
  BY DEF HeapInv, NodeInv
<1>3. [heap[n] EXCEPT !.data = data] = node
  BY <1>2
<1>4. new = [heap EXCEPT ![n] = node]
  BY <1>3
<1>5. NodeInv(node) /\ Held(node) \subseteq Held(heap[n]) \cup X
  OBVIOUS
<1> HIDE DEF node, new
<1>6. /\ IsSeq(new) /\ Len(new) = L /\ new[n] = node
      /\ \A m \in 1 .. L : m # n => new[m] = heap[m]
  <2>1. LET t == [heap EXCEPT ![n] = node]
        IN  /\ IsSeq(t) /\ Len(t) = L
            /\ \A i \in 1 .. L : t[i] = IF i = n THEN node ELSE heap[i]
    BY <1>1, ExceptAny
  <2>2. QED BY <1>4, <2>1
<1>7. \A m \in 1 .. L : Held(new[m]) \subseteq Held(heap[m]) \cup (IF m = n THEN X ELSE {})
  BY <1>5, <1>6
<1>8. X \subseteq n + 1 .. L /\ \A x \in X, m \in 1 .. L : x \notin Held(heap[m])
  <2>1. \A x \in X : x \in 1 .. L /\ x > n
    BY DEF IsRoot
  <2>2. QED BY <1>1, <2>1 DEF IsRoot
<1>9. HeapInv(new)
  <2>1. ASSUME NEW m \in 1 .. L
        PROVE  NodeInv(new[m]) /\ Held(new[m]) \subseteq m + 1 .. L
    <3>1. NodeInv(heap[m]) /\ Held(heap[m]) \subseteq m + 1 .. L
      BY DEF HeapInv
    <3>2. QED BY <1>5, <1>6, <1>7, <1>8, <3>1
  <2>2. ASSUME NEW l \in 1 .. L, NEW m \in 1 .. L, l # m
        PROVE  Held(new[l]) \cap Held(new[m]) = {}
    <3>1. Held(heap[l]) \cap Held(heap[m]) = {}
      BY <2>2 DEF HeapInv
    <3>2. QED BY <1>7, <1>8, <2>2, <3>1
  <2>3. QED BY <1>6, <2>1, <2>2 DEF HeapInv
<1>10. ASSUME NEW m \in 1 .. L, IsRoot(heap, m), m \notin X
       PROVE  IsRoot(new, m)
  BY <1>6, <1>7, <1>10 DEF IsRoot
<1>11. QED BY <1>6, <1>7, <1>9, <1>10 DEF new, node

(* What a store makes of the heap: one node leads to one more, which was a *)
(* root.                                                                   *)
Stores(heap, new, node, sub) ==
    /\ HeapInv(new)
    /\ Len(new) = Len(heap)
    /\ \A m \in 1 .. Len(heap) : new[m].type = heap[m].type
    /\ \A m \in 1 .. Len(heap) : Held(new[m]) \subseteq Held(heap[m]) \cup {sub}
    /\ \A m \in 1 .. Len(heap) : m # node => new[m] = heap[m]
    /\ \A m \in 1 .. Len(heap) : IsRoot(heap, m) /\ m # sub => IsRoot(new, m)

(* json_node_putn and json_node_addn link a root to a node.                *)
LEMMA HeapPut ==
  ASSUME NEW heap, HeapInv(heap), NEW obj \in 1 .. Len(heap), heap[obj].type = "JSON_OBJECT",
         NEW name, NEW sub, IsRoot(heap, sub), sub > obj
  PROVE  Stores(heap, json_node_putn(heap, obj, name, sub), obj, sub)
<1> DEFINE d == heap[obj].data
           data == dict_put(d, name, sub)
           node == [type |-> heap[obj].type, data |-> data]
           new == [heap EXCEPT ![obj].data = data]
<1>1. DictInv(d) /\ Held(heap[obj]) = Values(d)
  BY DEF HeapInv, NodeInv, Held
<1>2. sub \notin Values(d)
  BY <1>1 DEF IsRoot
<1> HIDE DEF d
<1>3. DictInv(data) /\ Values(data) \subseteq Values(d) \cup {sub}
  BY <1>1, <1>2, DictPut
<1> HIDE DEF data
<1>4. node.type = "JSON_OBJECT" /\ node.data = data
  OBVIOUS
<1>5. NodeInv(node) /\ Held(node) \subseteq Held(heap[obj]) \cup {sub}
  <2>1. NodeInv(node)
    BY <1>3 DEF NodeInv
  <2>2. Held(node) = Values(data)
    BY <1>4 DEF Held
  <2>3. QED BY <1>1, <1>3, <2>1, <2>2
<1>6. \A x \in {sub} : IsRoot(heap, x) /\ x > obj
  OBVIOUS
<1>7. json_node_putn(heap, obj, name, sub) = new
  BY Zenon DEF json_node_putn, data, d
<1>8. /\ HeapInv(new)
      /\ Len(new) = Len(heap)
      /\ \A m \in 1 .. Len(heap) : m # obj => new[m] = heap[m]
      /\ new[obj] = [type |-> heap[obj].type, data |-> data]
      /\ \A m \in 1 .. Len(heap) : Held(new[m]) \subseteq Held(heap[m]) \cup {sub}
      /\ \A m \in 1 .. Len(heap) : IsRoot(heap, m) /\ m \notin {sub} => IsRoot(new, m)
  BY <1>5, <1>6, HeapSet
<1> HIDE DEF new
<1>9. QED BY <1>7, <1>8 DEF Stores

LEMMA HeapAdd ==
  ASSUME NEW heap, HeapInv(heap), NEW array \in 1 .. Len(heap), heap[array].type = "JSON_ARRAY",
         NEW sub, IsRoot(heap, sub), sub > array
  PROVE  Stores(heap, json_node_addn(heap, array, sub), array, sub)
<1> DEFINE v == heap[array].data
           data == vect_add(v, sub)
           node == [type |-> heap[array].type, data |-> data]
           new == [heap EXCEPT ![array].data = data]
<1>1. /\ VectInv(v, Nat) /\ Held(heap[array]) = Gets(v)
      /\ \A i, j \in 0 .. v.size - 1 : vect_get(v, i) = vect_get(v, j) => i = j
  BY DEF HeapInv, NodeInv, Held
<1>2. sub \notin Gets(v) /\ sub \in Nat
  BY <1>1 DEF IsRoot
<1> HIDE DEF v
<1>3. /\ VectInv(data, Nat) /\ data.size = v.size + 1
      /\ \A i \in Nat : i < v.size => vect_get(data, i) = vect_get(v, i)
      /\ vect_get(data, v.size) = sub
  BY <1>1, <1>2, VectAdd
<1>4. v.size \in Nat
  BY <1>1 DEF VectInv, Vectors
<1> HIDE DEF data
<1>5. \A i \in 0 .. data.size - 1 :
         \/ i \in 0 .. v.size - 1 /\ vect_get(data, i) = vect_get(v, i)
         \/ i = v.size /\ vect_get(data, i) = sub
  BY <1>3, <1>4
<1>6. Gets(data) \subseteq Gets(v) \cup {sub}
  BY <1>5 DEF Gets
<1>7. ASSUME NEW i \in 0 .. data.size - 1, NEW j \in 0 .. data.size - 1,
             vect_get(data, i) = vect_get(data, j)
      PROVE  i = j
  BY <1>1, <1>2, <1>5, <1>7 DEF Gets
<1>8. node.type = "JSON_ARRAY" /\ node.data = data
  OBVIOUS
<1>9. NodeInv(node) /\ Held(node) \subseteq Held(heap[array]) \cup {sub}
  <2>1. NodeInv(node)
    BY <1>3, <1>7 DEF NodeInv
  <2>2. Held(node) = Gets(data)
    BY <1>8 DEF Held
  <2>3. QED BY <1>1, <1>6, <2>1, <2>2
<1>10. \A x \in {sub} : IsRoot(heap, x) /\ x > array
  OBVIOUS
<1>11. json_node_addn(heap, array, sub) = new
  BY Zenon DEF json_node_addn, data, v
<1>12. /\ HeapInv(new)
       /\ Len(new) = Len(heap)
       /\ \A m \in 1 .. Len(heap) : m # array => new[m] = heap[m]
       /\ new[array] = [type |-> heap[array].type, data |-> data]
       /\ \A m \in 1 .. Len(heap) : Held(new[m]) \subseteq Held(heap[m]) \cup {sub}
       /\ \A m \in 1 .. Len(heap) : IsRoot(heap, m) /\ m \notin {sub} => IsRoot(new, m)
  BY <1>9, <1>10, HeapSet
<1> HIDE DEF new
<1>13. QED BY <1>11, <1>12 DEF Stores

(* A value that is not an object or an array may be set.                   *)
LEMMA HeapValue ==
  ASSUME NEW heap, HeapInv(heap), NEW n \in 1 .. Len(heap), NEW data,
         heap[n].type \notin {"JSON_OBJECT", "JSON_ARRAY"}
  PROVE  LET new == [heap EXCEPT ![n].data = data]
         IN  /\ HeapInv(new)
             /\ Len(new) = Len(heap)
             /\ \A m \in 1 .. Len(heap) : new[m].type = heap[m].type
             /\ \A m \in 1 .. Len(heap) : Held(new[m]) \subseteq Held(heap[m])
             /\ \A m \in 1 .. Len(heap) : m # n => new[m] = heap[m]
             /\ \A m \in 1 .. Len(heap) : IsRoot(heap, m) => IsRoot(new, m)
<1> DEFINE node == [type |-> heap[n].type, data |-> data]
           new == [heap EXCEPT ![n].data = data]
<1>1. node.type = heap[n].type /\ node.data = data
  OBVIOUS
<1>2. NodeInv(node) /\ Held(node) = {}
  BY <1>1 DEF NodeInv, Held
<1>3. Held(node) \subseteq Held(heap[n]) \cup {} /\ \A x \in {} : IsRoot(heap, x) /\ x > n
  BY <1>2
<1>4. /\ HeapInv(new)
      /\ Len(new) = Len(heap)
      /\ \A m \in 1 .. Len(heap) : m # n => new[m] = heap[m]
      /\ new[n] = [type |-> heap[n].type, data |-> data]
      /\ \A m \in 1 .. Len(heap) : Held(new[m]) \subseteq Held(heap[m]) \cup {}
      /\ \A m \in 1 .. Len(heap) : IsRoot(heap, m) /\ m \notin {} => IsRoot(new, m)
  BY <1>2, <1>3, HeapSet
<1> HIDE DEF new
<1>5. \A m \in 1 .. Len(heap) : new[m].type = heap[m].type
  BY <1>1, <1>4
<1>6. \A m \in 1 .. Len(heap) : /\ Held(new[m]) \subseteq Held(heap[m])
                                /\ IsRoot(heap, m) => IsRoot(new, m)
  BY <1>4
<1>7. QED BY <1>4, <1>5, <1>6 DEF new
-----------------------------------------------------------------------------
LEMMA ChildrenHeld ==
  ASSUME NEW heap, HeapInv(heap), NEW n \in 1 .. Len(heap)
  PROVE  LET children == Children(heap, n)
         IN  /\ IsSeq(children) /\ NoTwice(children)
             /\ \A i \in DOMAIN children :
                    children[i] \in Held(heap[n]) /\ children[i] \in n + 1 .. Len(heap)
<1>1. NodeInv(heap[n]) /\ Held(heap[n]) \subseteq n + 1 .. Len(heap)
  BY DEF HeapInv
<1>2. SUFFICES LET children == Children(heap, n)
               IN  /\ IsSeq(children) /\ NoTwice(children)
                   /\ \A i \in DOMAIN children : children[i] \in Held(heap[n])
  BY <1>1
<1>3. CASE heap[n].type = "JSON_OBJECT"
  <2> DEFINE d == heap[n].data
             mappings == dict_foreach(d)
             c == [i \in DOMAIN mappings |-> mappings[i].value]
  <2>1. DictInv(d) /\ Held(heap[n]) = Values(d)
    BY <1>1, <1>3 DEF NodeInv, Held
  <2>2. Children(heap, n) = c
    BY <1>3 DEF Children
  <2> HIDE DEF d
  <2>3. PICK count \in Nat : \E place \in [1 .. count -> Used(d)] :
            /\ dict_foreach(d) = [k \in 1 .. count |-> d.slots[place[k]]]
            /\ \A k, m \in 1 .. count : place[k] = place[m] => k = m
    BY <2>1, DictForeach
  <2>4. PICK place \in [1 .. count -> Used(d)] :
            /\ mappings = [k \in 1 .. count |-> d.slots[place[k]]]
            /\ \A k, m \in 1 .. count : place[k] = place[m] => k = m
    BY <2>3
  <2> HIDE DEF mappings
  <2>5. c = [i \in 1 .. count |-> c[i]] /\ \A i \in 1 .. count : c[i] = d.slots[place[i]].value
    BY <2>4
  <2>6. DOMAIN c = 1 .. count
    BY <2>4
  <2> HIDE DEF c
  <2>7. IsSeq(c)
    BY <2>5, MadeAny
  <2>8. \A i \in 1 .. count : c[i] \in Values(d)
    BY <2>5 DEF Values
  <2>9. NoTwice(c)
    BY <2>1, <2>4, <2>5, <2>6 DEF NoTwice, DictInv
  <2>10. QED BY <2>1, <2>2, <2>6, <2>7, <2>8, <2>9
<1>4. CASE heap[n].type = "JSON_ARRAY"
  <2> DEFINE v == heap[n].data
             c == [i \in 1 .. v.size |-> vect_get(v, i - 1)]
  <2>1. /\ VectInv(v, Nat) /\ Held(heap[n]) = Gets(v)
        /\ \A i, j \in 0 .. v.size - 1 : vect_get(v, i) = vect_get(v, j) => i = j
    BY <1>1, <1>4 DEF NodeInv, Held
  <2>2. Children(heap, n) = c
    BY <1>4 DEF Children, Elements
  <2> HIDE DEF v
  <2>3. v.size \in Nat
    BY <2>1 DEF VectInv, Vectors
  <2>4. c = [i \in 1 .. v.size |-> c[i]] /\ DOMAIN c = 1 .. v.size
    OBVIOUS
  <2>5. \A i \in 1 .. v.size : c[i] = vect_get(v, i - 1) /\ i - 1 \in 0 .. v.size - 1
    BY <2>3
  <2> HIDE DEF c
  <2>6. IsSeq(c)
    BY <2>3, <2>4, MadeAny
  <2>7. \A i \in 1 .. v.size : c[i] \in Gets(v)
    BY <2>5 DEF Gets
  <2>8. ASSUME NEW i \in 1 .. v.size, NEW j \in 1 .. v.size, c[i] = c[j]
        PROVE  i = j
    <3>1. i - 1 = j - 1
      BY <2>1, <2>5, <2>8
    <3>2. QED BY <2>3, <3>1
  <2>9. QED BY <2>1, <2>2, <2>4, <2>6, <2>7, <2>8 DEF NoTwice
<1>5. CASE heap[n].type \notin {"JSON_OBJECT", "JSON_ARRAY"}
  <2>1. Children(heap, n) = <<>>
    BY <1>5 DEF Children
  <2>2. QED BY <2>1, EmptySeq DEF IsSeq, NoTwice
<1>6. QED BY <1>3, <1>4, <1>5

(* What json_node_destroy frees: the recursive function exists, for        *)
(* children are created after their parents.                               *)
Frees(f, heap, n) ==
    LET children == Children(heap, n)
    IN  FlattenSeq([i \in DOMAIN children |-> f[children[i]]])
        \o IF heap[n].type = "JSON_OBJECT" THEN <<n>> ELSE <<>>
Destroys(f, heap, k) == f = [n \in k .. Len(heap) |-> Frees(f, heap, n)]

LEMMA FreesSame ==
  ASSUME NEW heap, HeapInv(heap), NEW n \in 1 .. Len(heap), NEW f, NEW g,
         \A m \in n + 1 .. Len(heap) : f[m] = g[m]
  PROVE  Frees(f, heap, n) = Frees(g, heap, n)
<1> DEFINE children == Children(heap, n)
<1>1. \A i \in DOMAIN children : children[i] \in n + 1 .. Len(heap)
  BY ChildrenHeld
<1>2. [i \in DOMAIN children |-> f[children[i]]] = [i \in DOMAIN children |-> g[children[i]]]
  <2> HIDE DEF children
  <2>1. QED BY <1>1
<1>3. QED BY <1>2 DEF Frees

LEMMA DestroysExists ==
  ASSUME NEW heap, HeapInv(heap)
  PROVE  \E f : Destroys(f, heap, 1)
<1> DEFINE L == Len(heap)
           S == {k \in Nat : k <= L => \E f : Destroys(f, heap, L + 1 - k)}
<1>1. L \in Nat
  BY SeqAny DEF HeapInv
<1>2. 0 \in S
  <2>1. Destroys([n \in L + 1 .. L |-> 0], heap, L + 1)
    BY <1>1 DEF Destroys
  <2>2. L + 1 - 0 = L + 1
    BY <1>1
  <2>3. QED BY <2>1, <2>2
<1>3. ASSUME NEW k \in Nat, k \in S PROVE k + 1 \in S
  <2>1. SUFFICES ASSUME k + 1 <= L PROVE \E f : Destroys(f, heap, L + 1 - (k + 1))
    BY <1>1
  <2>2. PICK f : Destroys(f, heap, L + 1 - k)
    BY <1>1, <1>3, <2>1
  <2> DEFINE n == L - k
             g == [m \in n .. L |-> IF m = n THEN Frees(f, heap, n) ELSE f[m]]
  <2>3. n \in 1 .. L /\ L + 1 - k = n + 1 /\ L + 1 - (k + 1) = n
    BY <1>1, <2>1
  <2> HIDE DEF n
  <2>4. \A m \in n + 1 .. L : m \in n .. L /\ m # n /\ m \in 1 .. L
    BY <1>1, <2>3
  <2>5. \A m \in n + 1 .. L : g[m] = f[m] /\ f[m] = Frees(f, heap, m)
    BY <2>2, <2>3, <2>4 DEF Destroys
  <2>6. ASSUME NEW m \in n .. L
        PROVE  g[m] = Frees(g, heap, m)
    <3>1. m \in 1 .. L /\ \A l \in m + 1 .. L : l \in n + 1 .. L
      BY <1>1, <2>3
    <3>2. \A l \in m + 1 .. L : g[l] = f[l]
      BY <2>5, <3>1
    <3>3. Frees(g, heap, m) = Frees(f, heap, m)
      <4> HIDE DEF g
      <4>1. QED BY <3>1, <3>2, FreesSame
    <3>4. CASE m = n
      BY <3>3, <3>4
    <3>5. CASE m # n
      <4>1. m \in n + 1 .. L
        BY <1>1, <2>3, <3>5
      <4>2. QED BY <2>5, <3>3, <4>1
    <3>6. QED BY <3>4, <3>5
  <2>7. Destroys(g, heap, n)
    BY <2>6 DEF Destroys
  <2>8. QED BY <2>3, <2>7
<1> HIDE DEF S
<1>4. Nat \subseteq S
  BY <1>2, <1>3, Induction
<1>5. L \in S /\ L + 1 - L = 1 /\ L <= L
  BY <1>1, <1>4
<1>6. QED BY <1>5 DEF S

LEMMA DestroyDef ==
  ASSUME NEW heap, HeapInv(heap)
  PROVE  \E f : Destroys(f, heap, 1) /\ \A node : json_node_destroy(heap, node) = f[node]
<1> DEFINE destroyed == CHOOSE f : Destroys(f, heap, 1)
<1>1. Destroys(destroyed, heap, 1)
  BY DestroysExists, Zenon
<1>2. DOMAIN heap = 1 .. Len(heap)
  BY SeqAny DEF HeapInv
<1>3. \A node : json_node_destroy(heap, node) = destroyed[node]
  BY <1>2 DEF json_node_destroy, Destroys, Frees
<1> HIDE DEF destroyed
<1>4. QED BY <1>1, <1>3

(* The tree under a node: whatever holds the node and, with a node, all    *)
(* that it leads to, holds the tree.                                       *)
Closed(heap, C) == \A n \in C : Held(heap[n]) \subseteq C
Tree(heap, n) == {m \in 1 .. Len(heap) :
                     \A C \in SUBSET (1 .. Len(heap)) : n \in C /\ Closed(heap, C) => m \in C}

LEMMA TreeClosed ==
  ASSUME NEW heap, HeapInv(heap), NEW n \in 1 .. Len(heap)
  PROVE  /\ n \in Tree(heap, n)
         /\ Tree(heap, n) \subseteq n .. Len(heap)
         /\ Closed(heap, Tree(heap, n))
         /\ \A m \in Tree(heap, n) :
               m = n \/ \E p \in Tree(heap, n) : m \in Held(heap[p])
         /\ \A c \in Held(heap[n]) : Tree(heap, c) \subseteq Tree(heap, n)
<1> DEFINE N == 1 .. Len(heap)
<1>1. Len(heap) \in Nat /\ \A m \in N : Held(heap[m]) \subseteq m + 1 .. Len(heap)
  BY SeqAny DEF HeapInv
<1>2. n \in Tree(heap, n)
  BY DEF Tree
<1>3. Tree(heap, n) \subseteq n .. Len(heap)
  <2> DEFINE C == n .. Len(heap)
  <2>1. C \in SUBSET N /\ n \in C
    BY <1>1
  <2>2. ASSUME NEW m \in C
        PROVE  Held(heap[m]) \subseteq C
    <3>1. m \in N /\ m + 1 .. Len(heap) \subseteq C
      BY <1>1
    <3>2. QED BY <1>1, <3>1
  <2>3. Closed(heap, C)
    BY <2>2 DEF Closed
  <2> HIDE DEF C
  <2>4. Tree(heap, n) \subseteq C
    BY <2>1, <2>3 DEF Tree
  <2>5. QED BY <2>4 DEF C
<1>4. Closed(heap, Tree(heap, n))
  <2>1. ASSUME NEW m \in Tree(heap, n), NEW c \in Held(heap[m])
        PROVE  c \in Tree(heap, n)
    <3>1. m \in N
      BY DEF Tree
    <3>2. c \in N
      <4>1. c \in m + 1 .. Len(heap)
        BY <1>1, <3>1
      <4>2. QED BY <1>1, <3>1, <4>1
    <3>3. ASSUME NEW C \in SUBSET N, n \in C, Closed(heap, C)
          PROVE  c \in C
      BY <3>3 DEF Tree, Closed
    <3>4. QED BY <3>2, <3>3 DEF Tree
  <2>2. QED BY <2>1 DEF Closed
<1>5. ASSUME NEW m \in Tree(heap, n), m # n,
             \A p \in Tree(heap, n) : m \notin Held(heap[p])
      PROVE  FALSE
  <2> DEFINE C == Tree(heap, n) \ {m}
  <2>1. C \in SUBSET N /\ n \in C
    BY <1>2, <1>5 DEF Tree
  <2>2. Closed(heap, C)
    BY <1>4, <1>5 DEF Closed
  <2> HIDE DEF C
  <2>3. m \in C
    BY <2>1, <2>2 DEF Tree
  <2>4. QED BY <2>3 DEF C
<1>6. ASSUME NEW c \in Held(heap[n])
      PROVE  Tree(heap, c) \subseteq Tree(heap, n)
  <2>1. c \in Tree(heap, n) /\ Tree(heap, n) \in SUBSET N
    BY <1>2, <1>4 DEF Closed, Tree
  <2>2. QED BY <1>4, <2>1 DEF Tree
<1>7. QED BY <1>2, <1>3, <1>4, <1>5, <1>6

(* The trees under two children of a node have nothing in common.          *)
LEMMA TreesApart ==
  ASSUME NEW heap, HeapInv(heap), NEW n \in 1 .. Len(heap),
         NEW c \in Held(heap[n]), NEW d \in Held(heap[n]), c # d
  PROVE  Tree(heap, c) \cap Tree(heap, d) = {}
<1> DEFINE N == 1 .. Len(heap)
           C == {m \in N : m > n /\ m \notin Tree(heap, c)}
<1>1. /\ Len(heap) \in Nat /\ c \in n + 1 .. Len(heap) /\ d \in n + 1 .. Len(heap)
      /\ c \in N /\ d \in N
  <2>1. Len(heap) \in Nat /\ Held(heap[n]) \subseteq n + 1 .. Len(heap)
    BY SeqAny DEF HeapInv
  <2>2. QED BY <2>1
<1>2. /\ Tree(heap, c) \subseteq c .. Len(heap)
      /\ \A m \in Tree(heap, c) : m = c \/ \E p \in Tree(heap, c) : m \in Held(heap[p])
  BY <1>1, TreeClosed
<1>3. n \notin Tree(heap, c)
  BY <1>1, <1>2
<1>4. \A m, p \in N : m \in Held(heap[n]) /\ m \in Held(heap[p]) => p = n
  BY DEF HeapInv
<1>5. Tree(heap, c) \subseteq N
  BY DEF Tree
<1>6. d \in C
  <2>1. SUFFICES ASSUME d \in Tree(heap, c) PROVE FALSE
    BY <1>1
  <2>2. PICK p \in Tree(heap, c) : d \in Held(heap[p])
    BY <1>2, <2>1
  <2>3. p = n
    BY <1>1, <1>4, <1>5, <2>2
  <2>4. QED BY <1>3, <2>3
<1>7. ASSUME NEW m \in C, NEW l \in Held(heap[m])
      PROVE  l \in C
  <2>1. l \in m + 1 .. Len(heap) /\ m \in N
    BY DEF HeapInv
  <2>2. l \in N /\ l > n
    BY <1>1, <2>1
  <2>3. l # c
    <3>1. SUFFICES ASSUME l = c PROVE FALSE
      OBVIOUS
    <3>2. m = n
      BY <1>1, <1>4, <2>1, <3>1
    <3>3. QED BY <3>2
  <2>4. l \notin Tree(heap, c)
    <3>1. SUFFICES ASSUME l \in Tree(heap, c) PROVE FALSE
      OBVIOUS
    <3>2. PICK p \in Tree(heap, c) : l \in Held(heap[p])
      BY <1>2, <2>3, <3>1
    <3>3. p = m
      BY <1>5, <2>1, <3>2 DEF HeapInv
    <3>4. QED BY <3>2, <3>3
  <2>5. QED BY <2>2, <2>4
<1>8. Closed(heap, C) /\ C \in SUBSET N
  BY <1>7 DEF Closed
<1>9. Tree(heap, d) \subseteq C
  <2> HIDE DEF C
  <2>1. QED BY <1>6, <1>8 DEF Tree
<1>10. QED BY <1>9

(* json_node_destroy frees tables of the tree, and each at most once.      *)
LEMMA DestroysTree ==
  ASSUME NEW heap, HeapInv(heap), NEW node \in 1 .. Len(heap)
  PROVE  /\ json_node_destroy(heap, node) \in Seq(Tree(heap, node))
         /\ NoTwice(json_node_destroy(heap, node))
<1> DEFINE L == Len(heap)
<1>1. L \in Nat
  BY SeqAny DEF HeapInv
<1>2. PICK f : Destroys(f, heap, 1) /\ \A n : json_node_destroy(heap, n) = f[n]
  BY DestroyDef
<1>3. \A n \in 1 .. L : f[n] = Frees(f, heap, n)
  BY <1>2 DEF Destroys
<1> DEFINE Good(n) == f[n] \in Seq(Tree(heap, n)) /\ NoTwice(f[n])
           S == {k \in Nat : \A n \in 1 .. L : n > L - k => Good(n)}
<1>4. 0 \in S
  BY <1>1
<1>5. ASSUME NEW k \in Nat, k \in S PROVE k + 1 \in S
  <2>1. SUFFICES ASSUME NEW n \in 1 .. L, n = L - k PROVE Good(n)
    <3>1. \A n \in 1 .. L : n > L - (k + 1) => n > L - k \/ n = L - k
      BY <1>1
    <3>2. QED BY <1>5, <2>1, <3>1
  <2> DEFINE c == Children(heap, n)
             ss == [i \in DOMAIN c |-> f[c[i]]]
             C == [i \in DOMAIN c |-> Tree(heap, c[i])]
  <2>2. /\ IsSeq(c) /\ NoTwice(c)
        /\ \A i \in DOMAIN c : c[i] \in Held(heap[n]) /\ c[i] \in n + 1 .. L
    BY ChildrenHeld
  <2>3. f[n] = FlattenSeq(ss) \o IF heap[n].type = "JSON_OBJECT" THEN <<n>> ELSE <<>>
    BY <1>3 DEF Frees
  <2> HIDE DEF c
  <2>4. Len(c) \in Nat /\ DOMAIN c = 1 .. Len(c)
    BY <2>2, SeqAny
  <2>5. ss = [i \in 1 .. Len(c) |-> ss[i]] /\ \A i \in 1 .. Len(c) : ss[i] = f[c[i]]
    BY <2>4
  <2> HIDE DEF ss
  <2>6. IsSeq(ss) /\ Len(ss) = Len(c)
    BY <2>4, <2>5, MadeAny
  <2>7. ASSUME NEW i \in 1 .. Len(ss)
        PROVE  ss[i] \in Seq(C[i]) /\ NoTwice(ss[i])
    <3>1. i \in DOMAIN c /\ c[i] \in n + 1 .. L /\ ss[i] = f[c[i]] /\ C[i] = Tree(heap, c[i])
      BY <2>2, <2>4, <2>5, <2>6
    <3>2. c[i] \in 1 .. L /\ c[i] > L - k
      BY <1>1, <2>1, <3>1
    <3>3. Good(c[i])
      BY <1>5, <3>2
    <3>4. QED BY <3>1, <3>3
  <2>8. ASSUME NEW i \in 1 .. Len(ss), NEW j \in 1 .. Len(ss), i # j
        PROVE  C[i] \cap C[j] = {}
    <3>1. i \in DOMAIN c /\ j \in DOMAIN c
      BY <2>4, <2>6
    <3>2. c[i] # c[j] /\ c[i] \in Held(heap[n]) /\ c[j] \in Held(heap[n])
      BY <2>2, <2>8, <3>1 DEF NoTwice
    <3>3. C[i] = Tree(heap, c[i]) /\ C[j] = Tree(heap, c[j])
      BY <3>1
    <3>4. QED BY <3>2, <3>3, TreesApart
  <2> DEFINE U == UNION {C[i] : i \in 1 .. Len(ss)}
  <2>9. \A i \in 1 .. Len(ss) : C[i] \subseteq Tree(heap, n) /\ n \notin C[i]
    <3>1. SUFFICES ASSUME NEW i \in 1 .. Len(ss)
                   PROVE  C[i] \subseteq Tree(heap, n) /\ n \notin C[i]
      OBVIOUS
    <3>2. i \in DOMAIN c /\ c[i] \in Held(heap[n]) /\ c[i] \in n + 1 .. L
      BY <2>2, <2>4, <2>6
    <3>3. C[i] = Tree(heap, c[i]) /\ c[i] \in 1 .. L
      BY <1>1, <3>2
    <3>4. Tree(heap, c[i]) \subseteq Tree(heap, n)
      BY <3>2, TreeClosed
    <3>5. Tree(heap, c[i]) \subseteq c[i] .. L
      BY <3>3, TreeClosed
    <3>6. n \notin c[i] .. L
      BY <1>1, <3>2
    <3>7. QED BY <3>3, <3>4, <3>5, <3>6
  <2> HIDE DEF C
  <2>10. FlattenSeq(ss) \in Seq(U) /\ NoTwice(FlattenSeq(ss))
    BY <2>6, <2>7, <2>8, FlattenNoTwice
  <2>11. U \subseteq Tree(heap, n) /\ U \cap {n} = {}
    BY <2>9
  <2> HIDE DEF U
  <2>12. n \in Tree(heap, n)
    BY TreeClosed
  <2>13. CASE heap[n].type = "JSON_OBJECT"
    <3>1. <<n>> \in Seq({n}) /\ NoTwice(<<n>>)
      BY DEF NoTwice
    <3>2. FlattenSeq(ss) \o <<n>> \in Seq(U \cup {n}) /\ NoTwice(FlattenSeq(ss) \o <<n>>)
      BY ONLY <2>10, <2>11, <3>1, ConcatNoTwice
    <3>3. f[n] = FlattenSeq(ss) \o <<n>>
      BY <2>3, <2>13
    <3>4. U \cup {n} \subseteq Tree(heap, n)
      BY <2>11, <2>12
    <3>5. QED BY <3>2, <3>3, <3>4, SeqMonotonic
  <2>14. CASE heap[n].type # "JSON_OBJECT"
    <3>1. f[n] = FlattenSeq(ss) \o <<>>
      BY <2>3, <2>14
    <3>2. f[n] = FlattenSeq(ss)
      BY <2>10, <3>1, ConcatEmptySeq
    <3>3. QED BY <2>10, <2>11, <3>2, SeqMonotonic
  <2>15. QED BY <2>13, <2>14
<1> HIDE DEF S
<1>6. Nat \subseteq S
  BY <1>4, <1>5, Induction
<1>7. L \in S /\ node > L - L
  BY <1>1, <1>6
<1>8. Good(node)
  BY <1>7 DEF S
<1>9. QED BY <1>2, <1>8
-----------------------------------------------------------------------------
(* What is printed of a tree is a sequence: again the recursive function   *)
(* exists, and the texts are put together from the newest node on.         *)
TextOf(text, n) ==
    CASE nodes[n].type = "JSON_OBJECT" -> json_object_stringify(text, n)
      [] nodes[n].type = "JSON_ARRAY"  -> json_array_stringify(text, n)
      [] OTHER                         -> <<json_simple_stringify(n)>>
Prints(text, k) == text = [n \in k .. Len(nodes) |-> TextOf(text, n)]

(* The nodes whose texts the text of an object or array is made of         *)
LEMMA ObjectTexts ==
  ASSUME HeapInv(nodes), NEW n \in 1 .. Len(nodes), nodes[n].type = "JSON_OBJECT"
  PROVE  LET mappings == dict_foreach(nodes[n].data)
         IN  /\ \E count \in Nat : DOMAIN mappings = 1 .. count
             /\ \A i \in DOMAIN mappings : mappings[i].value \in n + 1 .. Len(nodes)
<1> DEFINE mappings == dict_foreach(nodes[n].data)
           c == [i \in DOMAIN mappings |-> mappings[i].value]
<1>1. Children(nodes, n) = c
  BY DEF Children
<1> HIDE DEF mappings
<1>2. IsSeq(c) /\ \A i \in DOMAIN c : c[i] \in n + 1 .. Len(nodes)
  BY <1>1, ChildrenHeld
<1>3. DOMAIN c = DOMAIN mappings /\ \A i \in DOMAIN mappings : c[i] = mappings[i].value
  OBVIOUS
<1> HIDE DEF c
<1>4. Len(c) \in Nat /\ DOMAIN c = 1 .. Len(c)
  BY <1>2, SeqAny
<1>5. QED BY <1>2, <1>3, <1>4 DEF mappings

LEMMA ArrayTexts ==
  ASSUME HeapInv(nodes), NEW n \in 1 .. Len(nodes), nodes[n].type = "JSON_ARRAY"
  PROVE  /\ json_get_length(n) \in Nat
         /\ \A i \in 1 .. json_get_length(n) : json_get_array(n, i - 1) \in n + 1 .. Len(nodes)
<1> DEFINE v == nodes[n].data
           c == [i \in 1 .. v.size |-> vect_get(v, i - 1)]
<1>1. VectInv(v, Nat) /\ json_get_length(n) = v.size
  BY DEF HeapInv, NodeInv, json_get_length
<1>2. v.size \in Nat
  BY <1>1 DEF VectInv, Vectors
<1>3. Children(nodes, n) = c
  BY DEF Children, Elements
<1>4. \A i \in 1 .. v.size : c[i] \in n + 1 .. Len(nodes)
  <2>1. \A i \in DOMAIN c : c[i] \in n + 1 .. Len(nodes)
    <3> HIDE DEF c
    <3>1. QED BY <1>3, ChildrenHeld
  <2>2. DOMAIN c = 1 .. v.size
    OBVIOUS
  <2> HIDE DEF c
  <2>3. QED BY <2>1, <2>2
<1>5. ASSUME NEW i \in 1 .. v.size
      PROVE  json_get_array(n, i - 1) = vect_get(v, i - 1)
  <2>1. vect_has(v, i - 1)
    BY <1>2 DEF vect_has
  <2> HIDE DEF v
  <2>2. QED BY <2>1 DEF json_get_array, v
<1>6. QED BY <1>1, <1>2, <1>4, <1>5

LEMMA TextSame ==
  ASSUME HeapInv(nodes), NEW n \in 1 .. Len(nodes), NEW f, NEW g,
         \A m \in n + 1 .. Len(nodes) : f[m] = g[m]
  PROVE  TextOf(f, n) = TextOf(g, n)
<1>1. CASE nodes[n].type = "JSON_OBJECT"
  <2> DEFINE data == nodes[n].data
             mappings == dict_foreach(data)
             ss(text) == [i \in DOMAIN mappings |-> foreach_stringify(text, mappings, i, data.size)]
  <2>1. \A i \in DOMAIN mappings : mappings[i].value \in n + 1 .. Len(nodes)
    BY <1>1, ObjectTexts
  <2>2. \A i \in DOMAIN mappings : foreach_stringify(f, mappings, i, data.size)
                                   = foreach_stringify(g, mappings, i, data.size)
    <3> HIDE DEF mappings, data
    <3>1. QED BY <2>1 DEF foreach_stringify
  <2>3. ss(f) = ss(g)
    <3> HIDE DEF mappings, data
    <3>1. QED BY <2>2
  <2>4. \A text : TextOf(text, n) =
                      <<Mark("TOK_LBRACE")>> \o FlattenSeq(ss(text)) \o <<Mark("TOK_RBRACE")>>
    BY <1>1 DEF TextOf, json_object_stringify
  <2> HIDE DEF ss
  <2>5. QED BY <2>3, <2>4
<1>2. CASE nodes[n].type = "JSON_ARRAY"
  <2> DEFINE size == json_get_length(n)
             ss(text) == [i \in 1 .. size |-> text[json_get_array(n, i - 1)] \o Comma(i, size)]
  <2>1. \A i \in 1 .. size : json_get_array(n, i - 1) \in n + 1 .. Len(nodes)
    BY <1>2, ArrayTexts
  <2>2. ss(f) = ss(g)
    <3> HIDE DEF size
    <3>1. \A i \in 1 .. size : f[json_get_array(n, i - 1)] = g[json_get_array(n, i - 1)]
      BY <2>1
    <3>2. QED BY <3>1
  <2>3. \A text : TextOf(text, n) =
                     <<Mark("TOK_LBRACKET")>> \o FlattenSeq(ss(text)) \o <<Mark("TOK_RBRACKET")>>
    BY <1>2 DEF TextOf, json_array_stringify
  <2> HIDE DEF ss
  <2>4. QED BY <2>2, <2>3
<1>3. CASE nodes[n].type \notin {"JSON_OBJECT", "JSON_ARRAY"}
  BY <1>3 DEF TextOf
<1>4. QED BY <1>1, <1>2, <1>3

LEMMA TextIsSeq ==
  ASSUME HeapInv(nodes), NEW n \in 1 .. Len(nodes), NEW f,
         \A m \in n + 1 .. Len(nodes) : IsSeq(f[m])
  PROVE  IsSeq(TextOf(f, n))
<1>1. \A x : IsSeq(<<x>>)
  <2>1. ASSUME NEW x
        PROVE  IsSeq(<<x>>)
    <3>1. <<x>> \in Seq({x})
      OBVIOUS
    <3>2. QED BY <3>1 DEF IsSeq
  <2>2. QED BY <2>1
<1>2. \A i, size : IsSeq(Comma(i, size))
  <2>1. IsSeq(<<>>)
    BY EmptySeq DEF IsSeq
  <2>2. QED BY <1>1, <2>1 DEF Comma
<1>3. ASSUME NEW ss, NEW count \in Nat, DOMAIN ss = 1 .. count, ss = [i \in 1 .. count |-> ss[i]],
             \A i \in 1 .. count : IsSeq(ss[i])
      PROVE  IsSeq(FlattenSeq(ss))
  <2>1. IsSeq(ss) /\ Len(ss) = count
    BY <1>3, MadeAny
  <2>2. QED BY <1>3, <2>1, FlattenAny
<1>4. CASE nodes[n].type = "JSON_OBJECT"
  <2> DEFINE data == nodes[n].data
             mappings == dict_foreach(data)
             ss == [i \in DOMAIN mappings |-> foreach_stringify(f, mappings, i, data.size)]
  <2>1. PICK count \in Nat : DOMAIN mappings = 1 .. count
    BY <1>4, ObjectTexts
  <2>2. \A i \in DOMAIN mappings : mappings[i].value \in n + 1 .. Len(nodes)
    BY <1>4, ObjectTexts
  <2>3. TextOf(f, n) = <<Mark("TOK_LBRACE")>> \o FlattenSeq(ss) \o <<Mark("TOK_RBRACE")>>
    BY <1>4 DEF TextOf, json_object_stringify
  <2> HIDE DEF mappings, data
  <2>4. ASSUME NEW i \in 1 .. count
        PROVE  IsSeq(ss[i])
    <3>1. ss[i] = <<Word(mappings[i].key), Mark("TOK_COLON")>> \o f[mappings[i].value]
                  \o Comma(i, data.size)
      BY <2>1 DEF foreach_stringify
    <3>2. IsSeq(<<Word(mappings[i].key), Mark("TOK_COLON")>>)
      <4>1. \A x, y : <<x, y>> \in Seq({x, y})
        OBVIOUS
      <4>2. QED BY <4>1 DEF IsSeq
    <3>3. IsSeq(f[mappings[i].value])
      BY <2>1, <2>2
    <3>4. IsSeq(<<Word(mappings[i].key), Mark("TOK_COLON")>> \o f[mappings[i].value])
      BY <3>2, <3>3, ConcatAny
    <3>5. QED BY <1>2, <3>1, <3>4, ConcatAny
  <2>5. DOMAIN ss = 1 .. count /\ ss = [i \in 1 .. count |-> ss[i]]
    BY <2>1
  <2> HIDE DEF ss
  <2>6. IsSeq(FlattenSeq(ss))
    BY <1>3, <2>4, <2>5
  <2>7. IsSeq(<<Mark("TOK_LBRACE")>> \o FlattenSeq(ss))
    BY <1>1, <2>6, ConcatAny
  <2>8. QED BY <1>1, <2>3, <2>7, ConcatAny
<1>5. CASE nodes[n].type = "JSON_ARRAY"
  <2> DEFINE size == json_get_length(n)
             ss == [i \in 1 .. size |-> f[json_get_array(n, i - 1)] \o Comma(i, size)]
  <2>1. size \in Nat /\ \A i \in 1 .. size : json_get_array(n, i - 1) \in n + 1 .. Len(nodes)
    BY <1>5, ArrayTexts
  <2>2. TextOf(f, n) = <<Mark("TOK_LBRACKET")>> \o FlattenSeq(ss) \o <<Mark("TOK_RBRACKET")>>
    BY <1>5 DEF TextOf, json_array_stringify
  <2> HIDE DEF size
  <2>3. ASSUME NEW i \in 1 .. size
        PROVE  IsSeq(ss[i])
    <3>1. ss[i] = f[json_get_array(n, i - 1)] \o Comma(i, size)
      OBVIOUS
    <3>2. IsSeq(f[json_get_array(n, i - 1)])
      BY <2>1
    <3>3. QED BY <1>2, <3>1, <3>2, ConcatAny
  <2>4. DOMAIN ss = 1 .. size /\ ss = [i \in 1 .. size |-> ss[i]]
    OBVIOUS
  <2> HIDE DEF ss
  <2>5. IsSeq(FlattenSeq(ss))
    BY <1>3, <2>1, <2>3, <2>4
  <2>6. IsSeq(<<Mark("TOK_LBRACKET")>> \o FlattenSeq(ss))
    BY <1>1, <2>5, ConcatAny
  <2>7. QED BY <1>1, <2>2, <2>6, ConcatAny
<1>6. CASE nodes[n].type \notin {"JSON_OBJECT", "JSON_ARRAY"}
  <2>1. TextOf(f, n) = <<json_simple_stringify(n)>>
    BY <1>6 DEF TextOf
  <2>2. QED BY <1>1, <2>1
<1>7. QED BY <1>4, <1>5, <1>6

LEMMA PrintsExists ==
  ASSUME HeapInv(nodes)
  PROVE  \E f : Prints(f, 1)
<1> DEFINE L == Len(nodes)
           S == {k \in Nat : k <= L => \E f : Prints(f, L + 1 - k)}
<1>1. L \in Nat
  BY SeqAny DEF HeapInv
<1>2. 0 \in S
  <2>1. Prints([n \in L + 1 .. L |-> 0], L + 1)
    BY <1>1 DEF Prints
  <2>2. L + 1 - 0 = L + 1
    BY <1>1
  <2>3. QED BY <2>1, <2>2
<1>3. ASSUME NEW k \in Nat, k \in S PROVE k + 1 \in S
  <2>1. SUFFICES ASSUME k + 1 <= L PROVE \E f : Prints(f, L + 1 - (k + 1))
    BY <1>1
  <2>2. PICK f : Prints(f, L + 1 - k)
    BY <1>1, <1>3, <2>1
  <2> DEFINE n == L - k
             g == [m \in n .. L |-> IF m = n THEN TextOf(f, n) ELSE f[m]]
  <2>3. n \in 1 .. L /\ L + 1 - k = n + 1 /\ L + 1 - (k + 1) = n
    BY <1>1, <2>1
  <2> HIDE DEF n
  <2>4. \A m \in n + 1 .. L : m \in n .. L /\ m # n /\ m \in 1 .. L
    BY <1>1, <2>3
  <2>5. \A m \in n + 1 .. L : g[m] = f[m] /\ f[m] = TextOf(f, m)
    BY <2>2, <2>3, <2>4 DEF Prints
  <2>6. ASSUME NEW m \in n .. L
        PROVE  g[m] = TextOf(g, m)
    <3>1. m \in 1 .. L /\ \A l \in m + 1 .. L : l \in n + 1 .. L
      BY <1>1, <2>3
    <3>2. \A l \in m + 1 .. L : g[l] = f[l]
      BY <2>5, <3>1
    <3>3. TextOf(g, m) = TextOf(f, m)
      <4> HIDE DEF g
      <4>1. QED BY <3>1, <3>2, TextSame
    <3>4. CASE m = n
      BY <3>3, <3>4
    <3>5. CASE m # n
      <4>1. m \in n + 1 .. L
        BY <1>1, <2>3, <3>5
      <4>2. QED BY <2>5, <3>3, <4>1
    <3>6. QED BY <3>4, <3>5
  <2>7. Prints(g, n)
    BY <2>6 DEF Prints
  <2>8. QED BY <2>3, <2>7
<1> HIDE DEF S
<1>4. Nat \subseteq S
  BY <1>2, <1>3, Induction
<1>5. L \in S /\ L + 1 - L = 1 /\ L <= L
  BY <1>1, <1>4
<1>6. QED BY <1>5 DEF S

LEMMA PrintsSeq ==
  ASSUME HeapInv(nodes), NEW node \in 1 .. Len(nodes)
  PROVE  IsSeq(json_node_stringify(node))
<1> DEFINE L == Len(nodes)
           text == CHOOSE f : Prints(f, 1)
<1>0. L \in Nat
  BY SeqAny DEF HeapInv
<1>1. L \in Nat /\ DOMAIN nodes = 1 .. L
  BY SeqAny DEF HeapInv
<1>2. Prints(text, 1)
  BY PrintsExists, Zenon
<1>3. json_node_stringify(node) = text[node]
  BY <1>1 DEF json_node_stringify, Prints, TextOf
<1> HIDE DEF text
<1>4. \A n \in 1 .. L : text[n] = TextOf(text, n)
  BY <1>2 DEF Prints
<1> DEFINE S == {k \in Nat : \A n \in 1 .. L : n > L - k => IsSeq(text[n])}
<1>5. 0 \in S
  BY <1>1
<1>6. ASSUME NEW k \in Nat, k \in S PROVE k + 1 \in S
  <2>1. SUFFICES ASSUME NEW n \in 1 .. L, n = L - k PROVE IsSeq(text[n])
    <3>1. \A n \in 1 .. L : n > L - (k + 1) => n > L - k \/ n = L - k
      BY <1>0
    <3>2. QED BY <1>6, <2>1, <3>1
  <2>2. \A m \in n + 1 .. L : m \in 1 .. L /\ m > L - k
    BY <1>1, <2>1
  <2>3. \A m \in n + 1 .. L : IsSeq(text[m])
    BY <1>6, <2>2
  <2>4. IsSeq(TextOf(text, n))
    BY <2>3, TextIsSeq
  <2>5. QED BY <1>4, <2>4
<1> HIDE DEF S
<1>7. Nat \subseteq S
  BY <1>5, <1>6, Induction
<1>8. L \in S /\ node > L - L
  BY <1>1, <1>7
<1>9. QED BY <1>3, <1>8 DEF S
-----------------------------------------------------------------------------
(* The inductive invariant for NoDoubleFree.  A node is dead when the tree *)
(* it is in was destroyed: trees die as wholes, and the tables that were   *)
(* freed are those of dead nodes.                                          *)
Dead(heap, D, tables) ==
    /\ D \subseteq 1 .. Len(heap)
    /\ tables \in Seq(D) /\ NoTwice(tables)
    /\ \A n \in 1 .. Len(heap) : \A c \in Held(heap[n]) : c \in D <=> n \in D

(* The calls that are under way have the roots of trees that grow apart,   *)
(* an inner call a newer one; a value that is returned is a root as well.  *)
FramesInv ==
    /\ IsSeq(frames)
    /\ \A i \in 1 .. Len(frames) :
           /\ frames[i] = [node |-> frames[i].node, key |-> frames[i].key]
           /\ IsRoot(nodes, frames[i].node)
           /\ nodes[frames[i].node].type \in {"JSON_OBJECT", "JSON_ARRAY"}
    /\ \A i, j \in 1 .. Len(frames) : i < j => frames[i].node < frames[j].node
    /\ pc = "return" /\ ret # NULL =>
           IsRoot(nodes, ret) /\ \A i \in 1 .. Len(frames) : frames[i].node < ret

RootInv ==
    /\ root # NULL => IsRoot(nodes, root)
    /\ pc \in {"build", "printed"} => root # NULL
    /\ pc \in {"idle", "build", "printed"} => freed = <<>>
    /\ pc \in {"lex", "analyze", "member", "return"} => root = NULL
    /\ pc \notin {"analyze", "member", "return"} => frames = <<>>
    /\ pc = "member" => frames # <<>>

(* What is in use is not dead.                                             *)
Alive(D) ==
    /\ \A i \in 1 .. Len(frames) : frames[i].node \notin D
    /\ root # NULL => root \notin D
    /\ pc = "return" /\ ret # NULL => ret \notin D

TreesInv ==
    /\ HeapInv(nodes)
    /\ FramesInv
    /\ RootInv
    /\ \E D : Dead(nodes, D, freed) /\ Alive(D)

(* Nothing is dead in a heap from which nothing was freed.                 *)
LEMMA DeadNone ==
  ASSUME NEW heap, HeapInv(heap)
  PROVE  Dead(heap, {}, <<>>)
<1>1. <<>> \in Seq({}) /\ DOMAIN <<>> = {}
  BY EmptySeq
<1>2. QED
  BY <1>1 DEF Dead, NoTwice

(* The heap may grow, and change where nothing is dead.                    *)
LEMMA DeadKeeps ==
  ASSUME NEW heap, HeapInv(heap), NEW new, HeapInv(new), Len(new) >= Len(heap),
         NEW D, NEW tables, Dead(heap, D, tables),
         \A n \in 1 .. Len(heap) : \A c \in Held(new[n]) :
             c \in Held(heap[n]) \/ (c \notin D /\ n \notin D),
         \A n \in Len(heap) + 1 .. Len(new) : \A c \in Held(new[n]) : c \notin D
  PROVE  Dead(new, D, tables)
<1>1. Len(heap) \in Nat /\ Len(new) \in Nat
  BY SeqAny DEF HeapInv
<1>2. D \subseteq 1 .. Len(heap)
  BY DEF Dead
<1>3. D \subseteq 1 .. Len(new)
  BY <1>1, <1>2
<1>4. ASSUME NEW n \in 1 .. Len(new), NEW c \in Held(new[n])
      PROVE  c \in D <=> n \in D
  <2>1. CASE n \in 1 .. Len(heap)
    BY <2>1 DEF Dead
  <2>2. CASE n \in Len(heap) + 1 .. Len(new)
    <3>1. n \notin D
      BY <1>1, <1>2, <2>2
    <3>2. QED
      BY <2>2, <3>1
  <2>3. QED
    BY <1>1, <2>1, <2>2
<1>5. QED
  BY <1>3, <1>4 DEF Dead

(* The tree of a root that is not dead has nothing in common with the dead *)
(* ones, nor with that of another root.                                    *)
LEMMA TreeAlive ==
  ASSUME NEW heap, HeapInv(heap), NEW D, NEW tables, Dead(heap, D, tables),
         NEW r, IsRoot(heap, r)
  PROVE  /\ r \in D => Tree(heap, r) \subseteq D
         /\ r \notin D => Tree(heap, r) \cap D = {}
<1> DEFINE N == 1 .. Len(heap)
<1>1. r \in N /\ D \subseteq N /\ \A n \in N : \A c \in Held(heap[n]) : c \in D <=> n \in D
  BY DEF IsRoot, Dead
<1>2. \A n \in N : Held(heap[n]) \subseteq N
  <2>1. Len(heap) \in Nat /\ \A n \in N : Held(heap[n]) \subseteq n + 1 .. Len(heap)
    BY SeqAny DEF HeapInv
  <2>2. QED BY <2>1
<1>3. Closed(heap, D) /\ Closed(heap, N \ D)
  BY <1>1, <1>2 DEF Closed
<1>4. ASSUME NEW C \in SUBSET N, Closed(heap, C), r \in C
      PROVE  Tree(heap, r) \subseteq C
  BY <1>4 DEF Tree
<1>5. N \ D \in SUBSET N /\ D \in SUBSET N
  BY <1>1
<1>6. r \notin D => Tree(heap, r) \subseteq N \ D
  BY <1>1, <1>3, <1>4, <1>5
<1>7. r \in D => Tree(heap, r) \subseteq D
  BY <1>3, <1>4, <1>5
<1>8. QED BY <1>6, <1>7

(* A tree that is alive dies as a whole, and no other tree with it.        *)
LEMMA DestroyKeeps ==
  ASSUME NEW heap, HeapInv(heap), NEW D, NEW tables, Dead(heap, D, tables),
         NEW r, IsRoot(heap, r), r \notin D
  PROVE  /\ Dead(heap, D \cup Tree(heap, r), tables \o json_node_destroy(heap, r))
         /\ \A n : IsRoot(heap, n) /\ n # r /\ n \notin D => n \notin D \cup Tree(heap, r)
<1> DEFINE T == Tree(heap, r)
<1>1. r \in 1 .. Len(heap)
  BY DEF IsRoot
<1>2. /\ r \in T /\ T \subseteq 1 .. Len(heap)
      /\ Closed(heap, T)
      /\ \A m \in T : m = r \/ \E p \in T : m \in Held(heap[p])
  BY <1>1, TreeClosed DEF Tree
<1>3. T \cap D = {}
  BY TreeAlive
<1>4. tables \o json_node_destroy(heap, r) \in Seq(D \cup T)
      /\ NoTwice(tables \o json_node_destroy(heap, r))
  <2>1. tables \in Seq(D) /\ NoTwice(tables)
    BY DEF Dead
  <2>2. json_node_destroy(heap, r) \in Seq(T) /\ NoTwice(json_node_destroy(heap, r))
    BY <1>1, DestroysTree
  <2>3. D \cap T = {}
    BY <1>3
  <2> HIDE DEF T
  <2>4. QED
    BY <2>1, <2>2, <2>3, ConcatNoTwice
<1>5. ASSUME NEW n \in 1 .. Len(heap), NEW c \in Held(heap[n])
      PROVE  c \in T <=> n \in T
  <2>1. n \in T => c \in T
    BY <1>2 DEF Closed
  <2>2. ASSUME c \in T
        PROVE  n \in T
    <3>1. c # r
      BY DEF IsRoot
    <3>2. PICK p \in T : c \in Held(heap[p])
      BY <1>2, <2>2, <3>1
    <3>3. p \in 1 .. Len(heap)
      BY <1>2
    <3>4. p = n
      BY <3>2, <3>3 DEF HeapInv
    <3>5. QED
      BY <3>4
  <2>3. QED
    BY <2>1, <2>2
<1>6. Dead(heap, D \cup T, tables \o json_node_destroy(heap, r))
  <2>1. D \cup T \subseteq 1 .. Len(heap)
    BY <1>2 DEF Dead
  <2>2. \A n \in 1 .. Len(heap) : \A c \in Held(heap[n]) : c \in D <=> n \in D
    BY DEF Dead
  <2> HIDE DEF T
  <2>3. QED
    BY <1>4, <1>5, <2>1, <2>2 DEF Dead
<1>7. ASSUME NEW n, IsRoot(heap, n), n # r, n \notin D
      PROVE  n \notin D \cup T
  BY <1>2, <1>7 DEF IsRoot
<1>8. QED
  BY <1>6, <1>7
-----------------------------------------------------------------------------
(* Every step keeps the trees apart, and frees no table of a dead one.     *)
LEMMA TreesInit == Init => TreesInv
<1> SUFFICES ASSUME Init PROVE TreesInv
  OBVIOUS
<1>1. nodes = <<>> /\ frames = <<>> /\ freed = <<>> /\ root = NULL /\ pc = "idle"
  BY DEF Init
<1>2. IsSeq(<<>>) /\ Len(<<>>) = 0 /\ 1 .. 0 = {}
  BY EmptySeq DEF IsSeq
<1>3. HeapInv(nodes) /\ Dead(nodes, {}, freed)
  BY <1>1, HeapEmpty, DeadNone
<1>4. FramesInv /\ RootInv /\ Alive({})
  BY <1>1, <1>2 DEF FramesInv, RootInv, Alive
<1>5. QED
  BY <1>3, <1>4 DEF TreesInv

LEMMA TreesCreate ==
  ASSUME TreesInv, json_create
  PROVE  TreesInv'
<1>1. /\ pc = "idle" /\ pc' = "build" /\ root' = 1 /\ freed' = freed /\ frames' = frames
      /\ frames = <<>> /\ freed = <<>>
  BY DEF json_create, TreesInv, RootInv
<1>2. PICK type \in Types : nodes' = json_node_create(<<>>, type)
  BY DEF json_create
<1>3. IsSeq(<<>>) /\ Len(<<>>) = 0 /\ 1 .. 0 = {}
  BY EmptySeq DEF IsSeq
<1>4. HeapInv(nodes') /\ IsRoot(nodes', 1)
  BY <1>2, <1>3, HeapEmpty, HeapCreate
<1>5. Dead(nodes', {}, freed')
  BY <1>1, <1>4, DeadNone
<1>6. FramesInv' /\ RootInv' /\ Alive({})'
  BY <1>1, <1>3, <1>4 DEF FramesInv, RootInv, Alive, NULL
<1>7. QED
  BY <1>4, <1>5, <1>6 DEF TreesInv

(* While a tree is built nothing is dead.                                  *)
LEMMA TreesBuilt ==
  ASSUME TreesInv, pc = "build", pc' = pc, root' = root, freed' = freed, frames' = frames,
         HeapInv(nodes'), IsRoot(nodes', root)
  PROVE  TreesInv'
<1>1. root # NULL /\ freed = <<>> /\ frames = <<>>
  BY DEF TreesInv, RootInv
<1>2. IsSeq(<<>>) /\ Len(<<>>) = 0 /\ 1 .. 0 = {}
  BY EmptySeq DEF IsSeq
<1>3. Dead(nodes', {}, freed')
  BY <1>1, DeadNone
<1>4. FramesInv' /\ RootInv' /\ Alive({})'
  BY <1>1, <1>2 DEF FramesInv, RootInv, Alive
<1>5. QED
  BY <1>3, <1>4 DEF TreesInv

LEMMA TreesPut ==
  ASSUME TreesInv, json_node_put
  PROVE  TreesInv'
<1>1. pc = "build" /\ pc' = pc /\ root' = root /\ freed' = freed /\ frames' = frames
  BY DEF json_node_put
<1>2. PICK obj \in DOMAIN nodes, name \in Keys, type \in Types :
          /\ nodes[obj].type = "JSON_OBJECT"
          /\ nodes' = json_node_putn(json_node_create(nodes, type), obj, name, New(nodes))
  BY DEF json_node_put
<1> DEFINE mid == json_node_create(nodes, type)
<1>3. HeapInv(nodes) /\ Len(nodes) \in Nat /\ DOMAIN nodes = 1 .. Len(nodes) /\ IsRoot(nodes, root)
  BY <1>1, SeqAny DEF TreesInv, RootInv, HeapInv
<1>4. /\ HeapInv(mid) /\ Len(mid) = Len(nodes) + 1 /\ mid[obj].type = "JSON_OBJECT"
      /\ IsRoot(mid, root) /\ IsRoot(mid, New(nodes))
  BY <1>2, <1>3, HeapCreate DEF New, IsRoot
<1>5. obj \in 1 .. Len(mid) /\ New(nodes) > obj /\ root # New(nodes) /\ root \in 1 .. Len(mid)
  BY <1>2, <1>3, <1>4 DEF New, IsRoot
<1> HIDE DEF mid
<1> DEFINE new == json_node_putn(mid, obj, name, New(nodes))
<1>6. HeapInv(new) /\ IsRoot(new, root)
  BY <1>4, <1>5, HeapPut DEF Stores
<1>7. nodes' = new
  BY <1>2 DEF mid
<1> HIDE DEF new
<1>8. QED
  BY <1>1, <1>6, <1>7, TreesBuilt

LEMMA TreesAdd ==
  ASSUME TreesInv, json_node_add
  PROVE  TreesInv'
<1>1. pc = "build" /\ pc' = pc /\ root' = root /\ freed' = freed /\ frames' = frames
  BY DEF json_node_add
<1>2. PICK array \in DOMAIN nodes, type \in Types :
          /\ nodes[array].type = "JSON_ARRAY"
          /\ nodes' = json_node_addn(json_node_create(nodes, type), array, New(nodes))
  BY DEF json_node_add
<1> DEFINE mid == json_node_create(nodes, type)
<1>3. HeapInv(nodes) /\ Len(nodes) \in Nat /\ DOMAIN nodes = 1 .. Len(nodes) /\ IsRoot(nodes, root)
  BY <1>1, SeqAny DEF TreesInv, RootInv, HeapInv
<1>4. /\ HeapInv(mid) /\ Len(mid) = Len(nodes) + 1 /\ mid[array].type = "JSON_ARRAY"
      /\ IsRoot(mid, root) /\ IsRoot(mid, New(nodes))
  BY <1>2, <1>3, HeapCreate DEF New, IsRoot
<1>5. array \in 1 .. Len(mid) /\ New(nodes) > array /\ root # New(nodes) /\ root \in 1 .. Len(mid)
  BY <1>2, <1>3, <1>4 DEF New, IsRoot
<1> HIDE DEF mid
<1> DEFINE new == json_node_addn(mid, array, New(nodes))
<1>6. HeapInv(new) /\ IsRoot(new, root)
  BY <1>4, <1>5, HeapAdd DEF Stores
<1>7. nodes' = new
  BY <1>2 DEF mid
<1> HIDE DEF new
<1>8. QED
  BY <1>1, <1>6, <1>7, TreesBuilt

LEMMA TreesSet ==
  ASSUME TreesInv, json_set
  PROVE  TreesInv'
<1>1. pc = "build" /\ pc' = pc /\ root' = root /\ freed' = freed /\ frames' = frames
  BY DEF json_set
<1>2. HeapInv(nodes) /\ Len(nodes) \in Nat /\ IsRoot(nodes, root)
  BY <1>1, SeqAny DEF TreesInv, RootInv, HeapInv
<1>3. Len(nodes) \in 1 .. Len(nodes)
  BY <1>2 DEF IsRoot
<1>4. PICK data : /\ nodes' = [nodes EXCEPT ![Len(nodes)].data = data]
                  /\ nodes[Len(nodes)].type \notin {"JSON_OBJECT", "JSON_ARRAY"}
  BY DEF json_set
<1> DEFINE new == [nodes EXCEPT ![Len(nodes)].data = data]
<1>5. HeapInv(new) /\ \A m \in 1 .. Len(nodes) : IsRoot(nodes, m) => IsRoot(new, m)
  BY <1>2, <1>3, <1>4, HeapValue
<1>6. root \in 1 .. Len(nodes) /\ nodes' = new
  BY <1>2, <1>4 DEF IsRoot
<1> HIDE DEF new
<1>7. QED
  BY <1>1, <1>2, <1>5, <1>6, TreesBuilt

(* A step that leaves the trees and the calls alone                        *)
LEMMA TreesStay ==
  ASSUME TreesInv, nodes' = nodes, root' = root, freed' = freed, frames' = frames, RootInv',
         pc' = "return" => ret' = NULL
  PROVE  TreesInv'
<1>1. FramesInv'
  BY DEF TreesInv, FramesInv
<1>2. PICK D : Dead(nodes, D, freed) /\ Alive(D)
  BY DEF TreesInv
<1>3. Alive(D)'
  BY <1>2 DEF Alive
<1>4. HeapInv(nodes') /\ Dead(nodes', D, freed')
  BY <1>2 DEF TreesInv
<1>5. QED
  BY <1>1, <1>3, <1>4 DEF TreesInv

(* A tree that is destroyed while no call is under way                     *)
LEMMA TreesDestroy ==
  ASSUME TreesInv, json_destroy
  PROVE  TreesInv'
<1>1. /\ pc \in {"printed", "done"} /\ root # NULL /\ root' = NULL
      /\ freed' = freed \o json_node_destroy(nodes, root)
      /\ pc' \in {"sent", "over"} /\ nodes' = nodes /\ frames' = frames
  BY DEF json_destroy
<1>2. HeapInv(nodes) /\ IsRoot(nodes, root) /\ frames = <<>>
  BY <1>1 DEF TreesInv, RootInv
<1>3. PICK D : Dead(nodes, D, freed) /\ root \notin D
  BY <1>1 DEF TreesInv, Alive
<1>4. PICK E : Dead(nodes, E, freed \o json_node_destroy(nodes, root))
  BY <1>2, <1>3, DestroyKeeps
<1>5. IsSeq(<<>>) /\ Len(<<>>) = 0 /\ 1 .. 0 = {}
  BY EmptySeq DEF IsSeq
<1>6. FramesInv' /\ RootInv' /\ Alive(E)'
  BY <1>1, <1>2, <1>5 DEF FramesInv, RootInv, Alive, NULL
<1>7. QED
  BY <1>1, <1>2, <1>4, <1>6 DEF TreesInv

LEMMA TreesParse ==
  ASSUME TreesInv, json_parse
  PROVE  TreesInv'
<1>1. /\ nodes' = <<>> /\ root' = NULL /\ freed' = <<>> /\ pc' = "lex" /\ frames' = <<>>
  BY DEF json_parse, TreesInv, RootInv
<1>2. IsSeq(<<>>) /\ Len(<<>>) = 0 /\ 1 .. 0 = {}
  BY EmptySeq DEF IsSeq
<1>3. HeapInv(nodes') /\ Dead(nodes', {}, freed')
  BY <1>1, HeapEmpty, DeadNone
<1>4. FramesInv' /\ RootInv' /\ Alive({})'
  BY <1>1, <1>2 DEF FramesInv, RootInv, Alive, NULL
<1>5. QED
  BY <1>3, <1>4 DEF TreesInv

(* What was read becomes the root.                                         *)
LEMMA TreesSetRoot ==
  ASSUME TreesInv, json_set_root
  PROVE  TreesInv'
<1>1. /\ pc = "return" /\ frames = <<>> /\ root' = ret /\ pc' = "done"
      /\ nodes' = nodes /\ freed' = freed /\ frames' = frames
  BY DEF json_set_root
<1>2. ret # NULL => IsRoot(nodes, ret)
  BY <1>1 DEF TreesInv, FramesInv
<1>3. PICK D : Dead(nodes, D, freed) /\ Alive(D)
  BY DEF TreesInv
<1>4. IsSeq(<<>>) /\ Len(<<>>) = 0 /\ 1 .. 0 = {}
  BY EmptySeq DEF IsSeq
<1>5. FramesInv' /\ RootInv' /\ Alive(D)'
  BY <1>1, <1>2, <1>3, <1>4 DEF FramesInv, RootInv, Alive
<1>6. HeapInv(nodes') /\ Dead(nodes', D, freed')
  BY <1>1, <1>3 DEF TreesInv
<1>7. QED
  BY <1>5, <1>6 DEF TreesInv

(* Objects and arrays are opened, and values read: a node is created.      *)
LEMMA TreesNew ==
  ASSUME TreesInv, pc = "analyze", pc' = "return", ret' = New(nodes), root' = root,
         freed' = freed, frames' = frames,
         NEW new, nodes' = new, HeapInv(new), Len(new) = Len(nodes) + 1,
         \A n \in 1 .. Len(nodes) : new[n] = nodes[n] /\ (IsRoot(nodes, n) => IsRoot(new, n)),
         Held(new[Len(nodes) + 1]) = {}, IsRoot(new, Len(nodes) + 1)
  PROVE  TreesInv'
<1>1. Len(nodes) \in Nat /\ HeapInv(nodes)
  BY SeqAny DEF TreesInv, HeapInv
<1>2. PICK D : Dead(nodes, D, freed) /\ Alive(D)
  BY DEF TreesInv
<1>3. D \subseteq 1 .. Len(nodes)
  BY <1>2 DEF Dead
<1>4. Dead(new, D, freed)
  BY <1>1, <1>2, DeadKeeps
<1>5. root = NULL
  BY DEF TreesInv, RootInv
<1>6. Alive(D)'
  BY <1>1, <1>2, <1>3, <1>5 DEF Alive, New
<1>7. RootInv'
  BY <1>5 DEF RootInv
<1>8. \A i \in 1 .. Len(frames) : frames[i].node \in 1 .. Len(nodes)
  BY DEF TreesInv, FramesInv, IsRoot
<1>9. FramesInv'
  <2>1. \A i \in 1 .. Len(frames) : frames[i].node < ret'
    BY <1>1, <1>8 DEF New
  <2>2. QED
    BY <1>8, <2>1 DEF TreesInv, FramesInv, New
<1>10. QED
  BY <1>4, <1>6, <1>7, <1>9 DEF TreesInv

LEMMA TreesEmpty ==
  ASSUME TreesInv, json_analyze_empty
  PROVE  TreesInv'
<1> DEFINE type == types(Token(0))
           new == json_node_create(nodes, type)
<1>1. /\ pc = "analyze" /\ pc' = "return" /\ ret' = New(nodes) /\ root' = root
      /\ freed' = freed /\ frames' = frames /\ nodes' = new
  BY DEF json_analyze_empty, Analyzes, Returns
<1>2. HeapInv(nodes)
  BY DEF TreesInv
<1> HIDE DEF type
<1>3. /\ HeapInv(new) /\ Len(new) = Len(nodes) + 1
      /\ \A n \in 1 .. Len(nodes) : new[n] = nodes[n] /\ (IsRoot(nodes, n) => IsRoot(new, n))
      /\ Held(new[Len(nodes) + 1]) = {} /\ IsRoot(new, Len(nodes) + 1)
  BY <1>2, HeapCreate
<1> HIDE DEF new
<1>4. QED
  BY <1>1, <1>3, TreesNew

LEMMA TreesValue ==
  ASSUME TreesInv, json_analyze_value
  PROVE  TreesInv'
<1> DEFINE type == types(Token(0))
           new == json_node_create(nodes, type)
<1>1. /\ pc = "analyze" /\ pc' = "return" /\ ret' = New(nodes) /\ root' = root
      /\ freed' = freed /\ frames' = frames
      /\ Token(0) \in {"TOK_STRING", "TOK_INT", "TOK_BOOL", "TOK_NULL"}
  BY DEF json_analyze_value, Analyzes, Returns
<1>2. HeapInv(nodes) /\ Len(nodes) \in Nat
  BY SeqAny DEF TreesInv, HeapInv
<1> HIDE DEF type
<1>3. /\ HeapInv(new) /\ Len(new) = Len(nodes) + 1
      /\ \A n \in 1 .. Len(nodes) : new[n] = nodes[n] /\ (IsRoot(nodes, n) => IsRoot(new, n))
      /\ Held(new[Len(nodes) + 1]) = {} /\ IsRoot(new, Len(nodes) + 1)
      /\ new[Len(nodes) + 1].type = type
  BY <1>2, HeapCreate
<1>4. nodes' = new \/ nodes' = [new EXCEPT ![New(nodes)].data = pop_value]
  BY DEF json_analyze_value, type
<1>5. type \notin {"JSON_OBJECT", "JSON_ARRAY"}
  BY <1>1 DEF type, types
<1> HIDE DEF new
<1>6. CASE nodes' = new
  BY <1>1, <1>3, <1>6, TreesNew
<1>7. CASE nodes' = [new EXCEPT ![New(nodes)].data = pop_value]
  <2> DEFINE set == [new EXCEPT ![New(nodes)].data = pop_value]
  <2>1. New(nodes) \in 1 .. Len(new) /\ New(nodes) = Len(nodes) + 1
    BY <1>2, <1>3 DEF New
  <2>2. new[New(nodes)].type \notin {"JSON_OBJECT", "JSON_ARRAY"}
    BY <1>3, <1>5, <2>1
  <2>3. /\ HeapInv(set) /\ Len(set) = Len(new)
        /\ \A m \in 1 .. Len(new) : Held(set[m]) \subseteq Held(new[m])
        /\ \A m \in 1 .. Len(new) : m # New(nodes) => set[m] = new[m]
        /\ \A m \in 1 .. Len(new) : IsRoot(new, m) => IsRoot(set, m)
    BY <1>3, <2>1, <2>2, HeapValue
  <2> HIDE DEF set
  <2>4. Held(set[Len(nodes) + 1]) = {} /\ IsRoot(set, Len(nodes) + 1)
    BY <1>3, <2>1, <2>3
  <2>5. \A n \in 1 .. Len(nodes) : n \in 1 .. Len(new) /\ n # New(nodes)
    BY <1>2, <1>3 DEF New
  <2>6. \A n \in 1 .. Len(nodes) : set[n] = nodes[n] /\ (IsRoot(nodes, n) => IsRoot(set, n))
    BY <1>3, <2>3, <2>5
  <2>7. nodes' = set
    BY <1>7 DEF set
  <2>8. QED
    BY <1>1, <1>3, <2>3, <2>4, <2>6, <2>7, TreesNew
<1>8. QED
  BY <1>4, <1>6, <1>7

LEMMA TreesOpen ==
  ASSUME TreesInv, json_analyze_open
  PROVE  TreesInv'
<1> DEFINE type == types(Token(0))
           new == json_node_create(nodes, type)
           top == [node |-> New(nodes), key |-> Nothing]
<1>1. /\ pc = "analyze" /\ pc' \in {"member", "analyze"} /\ root' = root
      /\ freed' = freed /\ frames' = Append(frames, top) /\ nodes' = new
      /\ Token(0) \in {"TOK_LBRACE", "TOK_LBRACKET"}
  BY DEF json_analyze_open, Analyzes
<1>2. HeapInv(nodes) /\ Len(nodes) \in Nat /\ root = NULL
  BY <1>1, SeqAny DEF TreesInv, HeapInv, RootInv
<1>3. top = [node |-> top.node, key |-> top.key] /\ top.node = Len(nodes) + 1
  BY DEF New
<1> HIDE DEF type, top
<1>4. /\ HeapInv(new) /\ Len(new) = Len(nodes) + 1
      /\ \A n \in 1 .. Len(nodes) : new[n] = nodes[n] /\ (IsRoot(nodes, n) => IsRoot(new, n))
      /\ Held(new[Len(nodes) + 1]) = {} /\ IsRoot(new, Len(nodes) + 1)
      /\ new[Len(nodes) + 1].type = type
  <2>1. HeapInv(nodes)
    BY <1>2
  <2>2. /\ HeapInv(new)
        /\ Len(new) = Len(nodes) + 1
        /\ \A n \in 1 .. Len(nodes) : new[n] = nodes[n]
        /\ new[Len(nodes) + 1].type = type
        /\ Held(new[Len(nodes) + 1]) = {}
        /\ \A n \in 1 .. Len(nodes) : IsRoot(nodes, n) => IsRoot(new, n)
        /\ IsRoot(new, Len(nodes) + 1)
    BY <2>1, HeapCreate
  <2> HIDE DEF new
  <2>3. QED
    BY <2>2
<1>5. type \in {"JSON_OBJECT", "JSON_ARRAY"}
  BY <1>1 DEF type, types
<1> HIDE DEF new
<1>6. IsSeq(frames) /\ Len(frames) \in Nat
  BY SeqAny DEF TreesInv, FramesInv
<1>7. /\ IsSeq(frames') /\ Len(frames') = Len(frames) + 1
      /\ \A i \in 1 .. Len(frames) : frames'[i] = frames[i]
      /\ frames'[Len(frames) + 1] = top
  BY <1>1, <1>6, AppendAny
<1>8. \A i \in 1 .. Len(frames') : i \in 1 .. Len(frames) \/ i = Len(frames) + 1
  BY <1>6, <1>7
<1>9. \A i \in 1 .. Len(frames) :
          /\ frames[i] = [node |-> frames[i].node, key |-> frames[i].key]
          /\ IsRoot(nodes, frames[i].node) /\ frames[i].node \in 1 .. Len(nodes)
          /\ nodes[frames[i].node].type \in {"JSON_OBJECT", "JSON_ARRAY"}
  BY DEF TreesInv, FramesInv, IsRoot
<1>10. \A i \in 1 .. Len(frames') :
           /\ frames'[i] = [node |-> frames'[i].node, key |-> frames'[i].key]
           /\ IsRoot(nodes', frames'[i].node)
           /\ nodes'[frames'[i].node].type \in {"JSON_OBJECT", "JSON_ARRAY"}
  BY <1>1, <1>4, <1>5, <1>7, <1>3, <1>8, <1>9
<1>11. \A i, j \in 1 .. Len(frames') : i < j => frames'[i].node < frames'[j].node
  <2>1. \A i, j \in 1 .. Len(frames) : i < j => frames[i].node < frames[j].node
    BY DEF TreesInv, FramesInv
  <2>2. ASSUME NEW i \in 1 .. Len(frames'), NEW j \in 1 .. Len(frames'), i < j
        PROVE  frames'[i].node < frames'[j].node
    <3>1. i \in 1 .. Len(frames)
      BY <1>6, <1>7, <2>2
    <3>2. frames[i].node < Len(nodes) + 1
      <4>1. frames[i].node \in 1 .. Len(nodes)
        BY <1>9, <3>1
      <4>2. QED
        BY ONLY <1>2, <4>1
    <3>3. QED
      BY <1>7, <1>3, <1>8, <2>1, <2>2, <3>1, <3>2
  <2>3. QED
    BY <2>2
<1>12. FramesInv'
  BY <1>1, <1>7, <1>10, <1>11 DEF FramesInv
<1>13. RootInv'
  <2>1. frames' # <<>>
    BY <1>6, <1>7, SeqAny
  <2>2. QED
    BY <1>1, <1>2, <2>1 DEF RootInv
<1>14. PICK D : Dead(nodes, D, freed) /\ Alive(D)
  BY DEF TreesInv
<1>15. Dead(new, D, freed)
  BY <1>2, <1>4, <1>14, DeadKeeps
<1>16. Alive(D)'
  <2>1. Len(nodes) + 1 \notin D
    BY <1>2, <1>14 DEF Dead
  <2>2. \A i \in 1 .. Len(frames') : frames'[i].node \notin D
    BY <1>7, <1>3, <1>8, <1>14, <2>1 DEF Alive
  <2>3. QED
    BY <1>1, <1>2, <2>2 DEF Alive
<1>17. QED
  BY <1>1, <1>4, <1>12, <1>13, <1>15, <1>16 DEF TreesInv

LEMMA TreesName ==
  ASSUME TreesInv, json_analyze_name
  PROVE  TreesInv'
<1> DEFINE key == pop_value[2]
           top == [node |-> frames[Len(frames)].node, key |-> key]
           new == [frames EXCEPT ![Len(frames)] = top]
<1>1. /\ pc = "member" /\ pc' = "analyze" /\ nodes' = nodes /\ root' = root /\ freed' = freed
      /\ frames' = [frames EXCEPT ![Len(frames)].key = key]
  BY DEF json_analyze_name, heapVars
<1> HIDE DEF key
<1>2. IsSeq(frames) /\ Len(frames) \in Nat /\ Len(frames) # 0 /\ root = NULL
  BY <1>1, SeqAny DEF TreesInv, FramesInv, RootInv
<1>3. Len(frames) \in 1 .. Len(frames)
  BY <1>2
<1>4. frames[Len(frames)] = [node |-> frames[Len(frames)].node, key |-> frames[Len(frames)].key]
  BY <1>3 DEF TreesInv, FramesInv
<1>5. top.node = frames[Len(frames)].node /\ top = [node |-> top.node, key |-> top.key]
  BY <1>4
<1>6. /\ IsSeq(frames') /\ Len(frames') = Len(frames)
      /\ \A i \in 1 .. Len(frames) : frames'[i] = IF i = Len(frames) THEN top ELSE frames[i]
  <2>1. [frames[Len(frames)] EXCEPT !.key = key] = top
    BY <1>4
  <2>2. frames' = new
    BY <1>1, <2>1
  <2> HIDE DEF top
  <2>3. /\ IsSeq(new) /\ Len(new) = Len(frames)
        /\ \A i \in 1 .. Len(frames) : new[i] = IF i = Len(frames) THEN top ELSE frames[i]
    BY <1>2, <1>3, ExceptAny
  <2> HIDE DEF new
  <2>4. QED
    BY <2>2, <2>3
<1> HIDE DEF top, new
<1>7. \A i \in 1 .. Len(frames) :
          /\ frames'[i].node = frames[i].node
          /\ frames'[i] = [node |-> frames'[i].node, key |-> frames'[i].key]
  <2>1. \A i \in 1 .. Len(frames) :
            frames[i] = [node |-> frames[i].node, key |-> frames[i].key]
    BY DEF TreesInv, FramesInv
  <2>2. QED
    BY <1>5, <1>6, <2>1
<1>8. FramesInv'
  BY <1>1, <1>6, <1>7 DEF TreesInv, FramesInv
<1>9. RootInv'
  BY <1>1, <1>2 DEF RootInv
<1>10. PICK D : Dead(nodes, D, freed) /\ Alive(D)
  BY DEF TreesInv
<1>11. Alive(D)'
  BY <1>1, <1>2, <1>6, <1>7, <1>10 DEF Alive
<1>12. HeapInv(nodes') /\ Dead(nodes', D, freed')
  BY <1>1, <1>10 DEF TreesInv
<1>13. QED
  BY <1>8, <1>9, <1>11, <1>12 DEF TreesInv

(* A call returns nothing, or its own object or array.                     *)
LEMMA FramesFront ==
  ASSUME TreesInv, frames # <<>>, frames' = Front(frames), pc' = "return",
         ret' = NULL \/ ret' = Top.node,
         \A m \in 1 .. Len(nodes) : nodes'[m].type = nodes[m].type,
         \A i \in 1 .. Len(frames) : IsRoot(nodes', frames[i].node)
  PROVE  /\ FramesInv'
         /\ \A i \in 1 .. Len(frames') :
                i \in 1 .. Len(frames) /\ frames'[i] = frames[i] /\ frames[i].node # Top.node
<1>1. IsSeq(frames) /\ Len(frames) \in Nat /\ Len(frames) # 0
  BY SeqAny DEF TreesInv, FramesInv
<1>2. /\ IsSeq(frames') /\ Len(frames') = Len(frames) - 1
      /\ \A i \in 1 .. Len(frames) - 1 : frames'[i] = frames[i]
  BY <1>1, FrontAny
<1>3. \A i \in 1 .. Len(frames') : i \in 1 .. Len(frames) /\ i < Len(frames)
  BY <1>1, <1>2
<1>4. Len(frames) \in 1 .. Len(frames)
  BY <1>1
<1>5. \A i \in 1 .. Len(frames) : frames[i].node \in 1 .. Len(nodes)
  BY DEF TreesInv, FramesInv, IsRoot
<1>6. \A i, j \in 1 .. Len(frames) : i < j => frames[i].node < frames[j].node
  BY DEF TreesInv, FramesInv
<1>7. \A i \in 1 .. Len(frames') :
          frames'[i] = frames[i] /\ frames[i].node < Top.node
  BY <1>2, <1>3, <1>4, <1>6 DEF Top
<1>8. \A i \in 1 .. Len(frames') : frames[i].node # Top.node
  <2>1. ASSUME NEW i \in 1 .. Len(frames')
        PROVE  frames[i].node # Top.node
    <3>1. frames[i].node < Top.node /\ frames[i].node \in 1 .. Len(nodes)
      BY <1>3, <1>5, <1>7
    <3>2. Len(nodes) \in Nat
      BY SeqAny DEF TreesInv, HeapInv
    <3>3. QED
      BY ONLY <3>1, <3>2
  <2>2. QED
    BY <2>1
<1>9. \A i \in 1 .. Len(frames') :
          /\ frames'[i] = [node |-> frames'[i].node, key |-> frames'[i].key]
          /\ IsRoot(nodes', frames'[i].node)
          /\ nodes'[frames'[i].node].type \in {"JSON_OBJECT", "JSON_ARRAY"}
  BY <1>3, <1>5, <1>7 DEF TreesInv, FramesInv
<1>10. \A i, j \in 1 .. Len(frames') : i < j => frames'[i].node < frames'[j].node
  BY <1>3, <1>6, <1>7
<1>11. ret' # NULL =>
           IsRoot(nodes', ret') /\ \A i \in 1 .. Len(frames') : frames'[i].node < ret'
  BY <1>4, <1>7 DEF Top
<1>12. FramesInv'
  BY <1>2, <1>9, <1>10, <1>11 DEF FramesInv
<1>13. QED
  BY <1>3, <1>7, <1>8, <1>12

(* What the call of a failed document destroys                             *)
LEMMA TreesFails ==
  ASSUME TreesInv, frames # <<>>, root' = root, root = NULL, frames' = Front(frames),
         pc' = "return", ret' = NULL,
         NEW new, nodes' = new, HeapInv(new),
         \A m \in 1 .. Len(nodes) : new[m].type = nodes[m].type,
         \A i \in 1 .. Len(frames) : IsRoot(new, frames[i].node),
         freed' = freed \o json_node_destroy(new, Top.node),
         NEW D, Dead(new, D, freed), Alive(D)
  PROVE  TreesInv'
<1>1. /\ FramesInv'
      /\ \A i \in 1 .. Len(frames') :
             i \in 1 .. Len(frames) /\ frames'[i] = frames[i] /\ frames[i].node # Top.node
  BY FramesFront
<1>2. Len(frames) \in 1 .. Len(frames)
  BY SeqAny DEF TreesInv, FramesInv
<1>3. IsRoot(new, Top.node) /\ Top.node \notin D
  BY <1>2 DEF Alive, Top
<1> DEFINE X == D \cup Tree(new, Top.node)
<1>4. /\ Dead(new, X, freed \o json_node_destroy(new, Top.node))
      /\ \A n : IsRoot(new, n) /\ n # Top.node /\ n \notin D => n \notin X
  BY <1>3, DestroyKeeps
<1> HIDE DEF X
<1>5. PICK E : /\ Dead(new, E, freed \o json_node_destroy(new, Top.node))
               /\ \A n : IsRoot(new, n) /\ n # Top.node /\ n \notin D => n \notin E
  BY <1>4
<1>6. Alive(E)'
  BY <1>1, <1>5 DEF Alive
<1>7. RootInv'
  BY DEF RootInv
<1>8. QED
  BY <1>1, <1>5, <1>6, <1>7 DEF TreesInv

LEMMA TreesFailed ==
  ASSUME TreesInv, json_analyze_not_a_name \/ json_analyze_failed
  PROVE  TreesInv'
<1>1. /\ pc \in {"member", "return"} /\ (pc = "return" => frames # <<>>)
      /\ freed' = freed \o json_node_destroy(nodes, Top.node) /\ frames' = Front(frames)
      /\ pc' = "return" /\ ret' = NULL /\ nodes' = nodes /\ root' = root
  BY DEF json_analyze_not_a_name, json_analyze_failed, Fails, Returns
<1>2. frames # <<>> /\ root = NULL /\ HeapInv(nodes)
  BY <1>1 DEF TreesInv, RootInv
<1>3. PICK D : Dead(nodes, D, freed) /\ Alive(D)
  BY DEF TreesInv
<1>4. \A i \in 1 .. Len(frames) : IsRoot(nodes, frames[i].node)
  BY DEF TreesInv, FramesInv
<1>5. QED
  BY <1>1, <1>2, <1>3, <1>4, TreesFails

(* The call returns without destroying what it has made.                   *)
LEMMA TreesNoColon ==
  ASSUME TreesInv, json_analyze_no_colon
  PROVE  TreesInv'
<1>1. /\ pc = "member" /\ pc' = "return" /\ ret' = NULL /\ frames' = Front(frames)
      /\ nodes' = nodes /\ root' = root /\ freed' = freed
  BY DEF json_analyze_no_colon, Returns
<1>2. frames # <<>> /\ root = NULL /\ HeapInv(nodes)
  BY <1>1 DEF TreesInv, RootInv
<1>3. PICK D : Dead(nodes, D, freed) /\ Alive(D)
  BY DEF TreesInv
<1>4. \A i \in 1 .. Len(frames) : IsRoot(nodes, frames[i].node)
  BY DEF TreesInv, FramesInv
<1>5. /\ FramesInv'
      /\ \A i \in 1 .. Len(frames') :
             i \in 1 .. Len(frames) /\ frames'[i] = frames[i] /\ frames[i].node # Top.node
  BY <1>1, <1>2, <1>4, FramesFront
<1>6. RootInv' /\ Alive(D)'
  BY <1>1, <1>2, <1>3, <1>5 DEF RootInv, Alive
<1>7. HeapInv(nodes') /\ Dead(nodes', D, freed')
  BY <1>1, <1>2, <1>3
<1>8. QED
  BY <1>5, <1>6, <1>7 DEF TreesInv

(* A value that was read is stored in the innermost object or array.       *)
LEMMA TreesStored ==
  ASSUME TreesInv, pc = "return", frames # <<>>, ret # NULL
  PROVE  /\ HeapInv(Stored(nodes)) /\ Len(Stored(nodes)) = Len(nodes)
         /\ \A m \in 1 .. Len(nodes) : Stored(nodes)[m].type = nodes[m].type
         /\ \A i \in 1 .. Len(frames) : IsRoot(Stored(nodes), frames[i].node)
         /\ \A D : Dead(nodes, D, freed) /\ Alive(D) => Dead(Stored(nodes), D, freed)
<1>1. HeapInv(nodes) /\ IsRoot(nodes, ret) /\ Len(nodes) \in Nat
  BY SeqAny DEF TreesInv, FramesInv, HeapInv
<1>2. Len(frames) \in 1 .. Len(frames)
  BY SeqAny DEF TreesInv, FramesInv
<1>3. /\ Top.node \in 1 .. Len(nodes) /\ ret > Top.node
      /\ nodes[Top.node].type \in {"JSON_OBJECT", "JSON_ARRAY"}
  <2>1. IsRoot(nodes, Top.node) /\ Top.node < ret
        /\ nodes[Top.node].type \in {"JSON_OBJECT", "JSON_ARRAY"}
    BY <1>2 DEF TreesInv, FramesInv, Top
  <2>2. Top.node \in 1 .. Len(nodes) /\ ret \in 1 .. Len(nodes)
    BY <1>1, <2>1 DEF IsRoot
  <2>3. ret > Top.node
    BY ONLY <1>1, <2>1, <2>2
  <2>4. QED
    BY <2>1, <2>2, <2>3
<1>4. Stores(nodes, Stored(nodes), Top.node, ret)
  <2>1. CASE IsObject(Top)
    <3>1. nodes[Top.node].type = "JSON_OBJECT"
      BY <2>1 DEF IsObject
    <3>2. Stores(nodes, json_node_putn(nodes, Top.node, Top.key, ret), Top.node, ret)
      BY ONLY <1>1, <1>3, <3>1, HeapPut
    <3>3. QED
      BY <2>1, <3>2 DEF Stored
  <2>2. CASE ~IsObject(Top)
    <3>1. nodes[Top.node].type = "JSON_ARRAY"
      BY <1>3, <2>2 DEF IsObject
    <3>2. Stores(nodes, json_node_addn(nodes, Top.node, ret), Top.node, ret)
      BY ONLY <1>1, <1>3, <3>1, HeapAdd
    <3>3. QED
      BY <2>2, <3>2 DEF Stored
  <2>3. QED
    BY <2>1, <2>2
<1> DEFINE new == Stored(nodes)
<1> HIDE DEF new
<1>5. /\ HeapInv(new) /\ Len(new) = Len(nodes)
      /\ \A m \in 1 .. Len(nodes) : new[m].type = nodes[m].type
      /\ \A m \in 1 .. Len(nodes) : Held(new[m]) \subseteq Held(nodes[m]) \cup {ret}
      /\ \A m \in 1 .. Len(nodes) : m # Top.node => new[m] = nodes[m]
      /\ \A m \in 1 .. Len(nodes) : IsRoot(nodes, m) /\ m # ret => IsRoot(new, m)
  BY <1>4 DEF new, Stores
<1>6. ASSUME NEW i \in 1 .. Len(frames)
      PROVE  IsRoot(new, frames[i].node)
  <2>1. IsRoot(nodes, frames[i].node) /\ frames[i].node < ret
    BY DEF TreesInv, FramesInv
  <2>2. frames[i].node \in 1 .. Len(nodes) /\ ret \in 1 .. Len(nodes)
    BY <1>1, <2>1 DEF IsRoot
  <2>3. frames[i].node # ret
    BY ONLY <1>1, <2>1, <2>2
  <2>4. QED
    BY <1>5, <2>1, <2>2, <2>3
<1>7. ASSUME NEW D, Dead(nodes, D, freed), Alive(D)
      PROVE  Dead(new, D, freed)
  <2>1. ret \notin D /\ Top.node \notin D
    BY <1>2, <1>7 DEF Alive, Top
  <2>2. \A n \in 1 .. Len(nodes) : \A c \in Held(new[n]) :
            c \in Held(nodes[n]) \/ (c \notin D /\ n \notin D)
    BY <1>5, <2>1
  <2>3. \A n \in Len(nodes) + 1 .. Len(new) : \A c \in Held(new[n]) : c \notin D
    <3>1. Len(nodes) + 1 .. Len(new) = {}
      BY <1>1, <1>5
    <3>2. QED
      BY <3>1
  <2>4. Len(new) >= Len(nodes)
    BY <1>1, <1>5
  <2>5. QED
    BY <1>1, <1>5, <1>7, <2>2, <2>3, <2>4, DeadKeeps
<1>8. QED
  BY <1>5, <1>6, <1>7 DEF new

LEMMA TreesNext ==
  ASSUME TreesInv, json_analyze_next
  PROVE  TreesInv'
<1> DEFINE new == Stored(nodes)
<1>1. pc = "return" /\ frames # <<>> /\ ret # NULL /\ nodes' = new /\ root' = root
  BY DEF json_analyze_next
<1>2. /\ HeapInv(new) /\ Len(new) = Len(nodes)
      /\ \A m \in 1 .. Len(nodes) : new[m].type = nodes[m].type
      /\ \A i \in 1 .. Len(frames) : IsRoot(new, frames[i].node)
      /\ \A D : Dead(nodes, D, freed) /\ Alive(D) => Dead(new, D, freed)
  BY <1>1, TreesStored
<1> HIDE DEF new
<1>3. root = NULL
  BY <1>1 DEF TreesInv, RootInv
<1>4. PICK D : Dead(nodes, D, freed) /\ Alive(D)
  BY DEF TreesInv
<1>5. Dead(new, D, freed)
  BY <1>2, <1>4
<1>6. Len(frames) \in 1 .. Len(frames)
  BY <1>1, SeqAny DEF TreesInv, FramesInv
<1>7. CASE pc' \in {"member", "analyze"} /\ freed' = freed /\ frames' = frames /\ ret' = ret
  <2>1. \A i \in 1 .. Len(frames) : frames[i].node \in 1 .. Len(nodes)
    BY DEF TreesInv, FramesInv, IsRoot
  <2>2. FramesInv'
    BY <1>1, <1>2, <1>7, <2>1 DEF TreesInv, FramesInv
  <2>3. RootInv' /\ Alive(D)'
    BY <1>1, <1>3, <1>4, <1>7 DEF RootInv, Alive
  <2>4. QED
    BY <1>1, <1>2, <1>5, <1>7, <2>2, <2>3 DEF TreesInv
<1>8. CASE frames' = Front(frames) /\ ret' = Top.node /\ pc' = "return" /\ freed' = freed
  <2>1. /\ FramesInv'
        /\ \A i \in 1 .. Len(frames') :
               i \in 1 .. Len(frames) /\ frames'[i] = frames[i] /\ frames[i].node # Top.node
    BY <1>1, <1>2, <1>8, FramesFront
  <2>2. RootInv'
    BY <1>1, <1>3, <1>8 DEF RootInv
  <2>3. Top.node \notin D
    BY <1>4, <1>6 DEF Alive, Top
  <2>4. Alive(D)'
    BY <1>1, <1>3, <1>4, <1>8, <2>1, <2>3 DEF Alive
  <2>5. QED
    BY <1>1, <1>2, <1>5, <1>8, <2>1, <2>2, <2>4 DEF TreesInv
<1>9. CASE /\ freed' = freed \o json_node_destroy(nodes', Top.node)
           /\ frames' = Front(frames) /\ ret' = NULL /\ pc' = "return"
  BY <1>1, <1>2, <1>3, <1>4, <1>5, <1>9, TreesFails
<1>10. QED
  BY <1>7, <1>8, <1>9 DEF json_analyze_next, Returns

LEMMA TreesStep == TreesInv /\ [Next]_vars => TreesInv'
<1> SUFFICES ASSUME TreesInv, [Next]_vars PROVE TreesInv'
  OBVIOUS
<1>1. CASE UNCHANGED vars
  BY <1>1 DEF vars, heapVars, TreesInv, FramesInv, RootInv, Alive
<1>2. CASE json_stringify
  BY <1>2, TreesStay DEF json_stringify, heapVars, TreesInv, RootInv
<1>3. CASE json_analyze_deep \/ json_analyze_unexpected
  BY <1>3, TreesStay
     DEF json_analyze_deep, json_analyze_unexpected, Analyzes, Returns, heapVars, TreesInv, RootInv
<1>4. CASE lex_token \/ lex_number \/ lex_number_restores \/ lex_end \/ lex_aborts
  <2>1. /\ pc = "lex" /\ pc' \in {"lex", "done", "corrupted", "analyze", "aborted"}
        /\ nodes' = nodes /\ root' = root /\ freed' = freed /\ frames' = frames
    BY <1>4 DEF lex_token, lex_number, lex_number_restores, lex_end, lex_aborts, Lexes, heapVars
  <2>2. QED
    BY <2>1, TreesStay DEF TreesInv, RootInv
<1>5. CASE Building
  BY <1>5, TreesCreate, TreesPut, TreesAdd, TreesSet DEF Building
<1>6. CASE json_destroy \/ json_parse \/ json_set_root
  BY <1>6, TreesDestroy, TreesParse, TreesSetRoot
<1>7. CASE \/ json_analyze_value \/ json_analyze_empty \/ json_analyze_open
           \/ json_analyze_name \/ json_analyze_not_a_name \/ json_analyze_no_colon
           \/ json_analyze_failed \/ json_analyze_next
  BY <1>7, TreesValue, TreesEmpty, TreesOpen, TreesName, TreesFailed, TreesNoColon, TreesNext
<1>8. QED
  BY <1>1, <1>2, <1>3, <1>4, <1>5, <1>6, <1>7 DEF Next, Parsing

(* The nodes are a forest at every moment, and trees die as wholes         *)
(* (json_node_create, json_node_put, json_node_add, json_node_destroy, the *)
(* calls of json_analyze).                                                 *)
THEOREM TreesCorrect == Spec => []TreesInv
<1>1. QED
  BY TreesInit, TreesStep, PTL DEF Spec

(* No table is freed twice (json_node_destroy, json_destroy,               *)
(* json_analyze_obj and json_analyze_array), whatever the document.        *)
THEOREM NoDoubleFreeCorrect == Spec => []NoDoubleFree
<1>1. TreesInv => NoDoubleFree
  BY DEF TreesInv, Dead, NoTwice, NoDoubleFree
<1>2. QED
  BY <1>1, TreesCorrect, PTL
-----------------------------------------------------------------------------
(* The elements of a concatenation, and of several                         *)
LEMMA ConcatElements ==
  ASSUME NEW s, IsSeq(s), NEW t, IsSeq(t), NEW x
  PROVE  x \in Range(s \o t) <=> x \in Range(s) \/ x \in Range(t)
<1> DEFINE u == s \o t
<1>1. /\ Len(s) \in Nat /\ DOMAIN s = 1 .. Len(s) /\ Len(t) \in Nat /\ DOMAIN t = 1 .. Len(t)
  BY SeqAny
<1>2. /\ IsSeq(u) /\ Len(u) = Len(s) + Len(t)
      /\ \A i \in 1 .. Len(s) + Len(t) :
            u[i] = IF i <= Len(s) THEN s[i] ELSE t[i - Len(s)]
  BY ConcatAny
<1> HIDE DEF u
<1>3. DOMAIN u = 1 .. Len(s) + Len(t)
  BY <1>2, SeqAny
<1>4. ASSUME NEW i \in 1 .. Len(s) + Len(t)
      PROVE  u[i] \in Range(s) \/ u[i] \in Range(t)
  <2>1. CASE i <= Len(s)
    <3>1. i \in DOMAIN s
      BY <1>1, <2>1
    <3>2. QED BY <1>2, <2>1, <3>1 DEF Range
  <2>2. CASE ~(i <= Len(s))
    <3>1. i - Len(s) \in DOMAIN t
      BY <1>1, <2>2
    <3>2. QED BY <1>2, <2>2, <3>1 DEF Range
  <2>3. QED BY <2>1, <2>2
<1>5. ASSUME NEW i \in DOMAIN s
      PROVE  s[i] \in Range(u)
  <2>1. i \in 1 .. Len(s) + Len(t) /\ i <= Len(s)
    BY <1>1
  <2>2. QED BY <1>2, <1>3, <2>1 DEF Range
<1>6. ASSUME NEW i \in DOMAIN t
      PROVE  t[i] \in Range(u)
  <2> DEFINE j == Len(s) + i
  <2>1. j \in 1 .. Len(s) + Len(t) /\ ~(j <= Len(s)) /\ j - Len(s) = i
    BY <1>1
  <2> HIDE DEF j
  <2>2. u[j] = t[i]
    BY <1>2, <2>1
  <2>3. QED BY <1>3, <2>1, <2>2 DEF Range
<1>7. x \in Range(u) <=> x \in Range(s) \/ x \in Range(t)
  <2>1. x \in Range(u) => x \in Range(s) \/ x \in Range(t)
    BY <1>3, <1>4 DEF Range
  <2>2. x \in Range(s) => x \in Range(u)
    BY <1>5 DEF Range
  <2>3. x \in Range(t) => x \in Range(u)
    BY <1>6 DEF Range
  <2>4. QED BY <2>1, <2>2, <2>3
<1>8. QED BY <1>7 DEF u

LEMMA FlattenElements ==
  ASSUME NEW ss, IsSeq(ss), \A i \in 1 .. Len(ss) : IsSeq(ss[i]), NEW x
  PROVE  x \in Range(FlattenSeq(ss)) <=> \E i \in 1 .. Len(ss) : x \in Range(ss[i])
<1> DEFINE N == Len(ss)
<1>1. N \in Nat
  BY SeqAny
<1>2. CASE N = 0
  <2>1. ss = <<>> /\ FlattenSeq(ss) = ss
    BY <1>2, SeqAny DEF FlattenSeq
  <2>2. Range(<<>>) = {}
    BY EmptySeq DEF Range
  <2>3. 1 .. N = {}
    BY <1>2
  <2>4. QED BY <2>1, <2>2, <2>3
<1>3. CASE N # 0
  <2>1. PICK f : Flat(f, ss, N) /\ FlattenSeq(ss) = f[N]
    BY <1>1, <1>3, FlattenDef
  <2> DEFINE Good(n) == IsSeq(f[n]) /\ (x \in Range(f[n]) <=> \E i \in 1 .. n : x \in Range(ss[i]))
             S == {n \in Nat : n + 1 <= N => Good(n + 1)}
  <2>2. \A i \in 1 .. N : f[i] = IF i = 1 THEN ss[i] ELSE f[i - 1] \o ss[i]
    BY <2>1 DEF Flat
  <2>3. 0 \in S
    <3>1. SUFFICES ASSUME 1 <= N PROVE Good(1)
      OBVIOUS
    <3>2. f[1] = ss[1] /\ IsSeq(ss[1])
      BY <1>1, <2>2, <3>1
    <3>3. 1 .. 1 = {1}
      OBVIOUS
    <3>4. QED BY <3>2, <3>3
  <2>4. ASSUME NEW n \in Nat, n \in S PROVE n + 1 \in S
    <3>1. SUFFICES ASSUME n + 2 <= N PROVE Good(n + 2)
      BY <1>1
    <3>2. f[n + 2] = f[n + 1] \o ss[n + 2]
      <4>1. n + 2 \in 1 .. N /\ n + 2 # 1 /\ (n + 2) - 1 = n + 1
        BY <1>1, <3>1
      <4>2. f[n + 2] = f[(n + 2) - 1] \o ss[n + 2]
        BY <2>2, <4>1
      <4>3. QED BY <4>1, <4>2
    <3>3. Good(n + 1) /\ IsSeq(ss[n + 2])
      BY <1>1, <2>4, <3>1
    <3>4. /\ IsSeq(f[n + 2])
          /\ x \in Range(f[n + 2]) <=> x \in Range(f[n + 1]) \/ x \in Range(ss[n + 2])
      BY <3>2, <3>3, ConcatAny, ConcatElements
    <3>5. 1 .. n + 2 = (1 .. n + 1) \cup {n + 2}
      OBVIOUS
    <3>6. QED BY ONLY <3>3, <3>4, <3>5
  <2> HIDE DEF S, Good
  <2>5. Nat \subseteq S
    BY <2>3, <2>4, Induction
  <2>6. N - 1 \in S /\ (N - 1) + 1 = N
    BY <1>1, <1>3, <2>5
  <2>7. Good(N)
    BY <1>1, <2>6 DEF S
  <2>8. QED BY <2>1, <2>7 DEF Good
<1>4. QED BY <1>2, <1>3

(* The tables of a heap are never full, so that nothing is lost in them    *)
(* and Children finds all that a node leads to.                            *)
Full(heap) == \A n \in 1 .. Len(heap) : heap[n].type = "JSON_OBJECT" => Roomy(heap[n].data)

(* The children of a node are all the nodes it holds: dict_foreach and the *)
(* loop over the vector pass by none.                                      *)
LEMMA ChildrenAre ==
  ASSUME NEW heap, HeapInv(heap), Full(heap), NEW n \in 1 .. Len(heap)
  PROVE  Range(Children(heap, n)) = Held(heap[n])
<1>1. \A x \in Range(Children(heap, n)) : x \in Held(heap[n])
  BY ChildrenHeld DEF Range
<1>2. NodeInv(heap[n])
  BY DEF HeapInv
<1>3. ASSUME NEW x \in Held(heap[n])
      PROVE  x \in Range(Children(heap, n))
  <2>1. CASE heap[n].type = "JSON_OBJECT"
    <3> DEFINE d == heap[n].data
               mappings == dict_foreach(d)
               c == [i \in DOMAIN mappings |-> mappings[i].value]
    <3>1. DictInv(d) /\ Held(heap[n]) = Values(d) /\ Roomy(d)
      BY <1>2, <2>1 DEF NodeInv, Held, Full
    <3>2. Children(heap, n) = c
      BY <2>1 DEF Children
    <3> HIDE DEF d
    <3>3. PICK i \in Used(d) : x = d.slots[i].value
      BY <1>3, <3>1 DEF Values
    <3>4. PICK m \in DOMAIN mappings : mappings[m] = d.slots[i]
      BY <3>1, ForeachVisits
    <3> HIDE DEF mappings
    <3>5. m \in DOMAIN c /\ c[m] = x
      BY <3>3, <3>4
    <3>6. QED BY <3>2, <3>5 DEF Range
  <2>2. CASE heap[n].type = "JSON_ARRAY"
    <3> DEFINE v == heap[n].data
               c == [i \in 1 .. v.size |-> vect_get(v, i - 1)]
    <3>1. VectInv(v, Nat) /\ Held(heap[n]) = Gets(v)
      BY <1>2, <2>2 DEF NodeInv, Held
    <3>2. Children(heap, n) = c
      BY <2>2 DEF Children, Elements
    <3> HIDE DEF v
    <3>3. v.size \in Nat
      BY <3>1 DEF VectInv, Vectors
    <3>4. PICK i \in 0 .. v.size - 1 : x = vect_get(v, i)
      BY <1>3, <3>1 DEF Gets
    <3>5. i + 1 \in 1 .. v.size /\ (i + 1) - 1 = i
      BY <3>3
    <3>6. c[i + 1] = vect_get(v, (i + 1) - 1) /\ DOMAIN c = 1 .. v.size
      BY <3>5
    <3>7. c[i + 1] = x
      BY <3>4, <3>5, <3>6
    <3> HIDE DEF c
    <3>8. QED BY <3>2, <3>5, <3>6, <3>7 DEF Range
  <2>3. CASE heap[n].type \notin {"JSON_OBJECT", "JSON_ARRAY"}
    BY <1>3, <2>3 DEF Held
  <2>4. QED BY <2>1, <2>2, <2>3
<1>4. QED BY <1>1, <1>3

(* A tree is a node and the trees of what it leads to.                     *)
LEMMA TreeParts ==
  ASSUME NEW heap, HeapInv(heap), NEW n \in 1 .. Len(heap), NEW m
  PROVE  m \in Tree(heap, n) <=> m = n \/ \E c \in Held(heap[n]) : m \in Tree(heap, c)
<1> DEFINE N == 1 .. Len(heap)
           C == {n} \cup UNION {Tree(heap, c) : c \in Held(heap[n])}
<1>1. Len(heap) \in Nat /\ Held(heap[n]) \subseteq N
  <2>1. Len(heap) \in Nat /\ Held(heap[n]) \subseteq n + 1 .. Len(heap)
    BY SeqAny DEF HeapInv
  <2>2. QED BY <2>1
<1>2. n \in Tree(heap, n) /\ \A c \in Held(heap[n]) : Tree(heap, c) \subseteq Tree(heap, n)
  BY TreeClosed
<1>3. C \in SUBSET N /\ n \in C
  BY DEF Tree
<1>4. ASSUME NEW l \in C
      PROVE  Held(heap[l]) \subseteq C
  <2>1. CASE l = n
    <3>1. \A c \in Held(heap[n]) : c \in Tree(heap, c)
      BY <1>1, TreeClosed
    <3>2. QED BY <2>1, <3>1
  <2>2. CASE l # n
    <3>1. PICK c \in Held(heap[n]) : l \in Tree(heap, c)
      BY <2>2
    <3>2. Closed(heap, Tree(heap, c))
      BY <1>1, TreeClosed
    <3>3. Held(heap[l]) \subseteq Tree(heap, c)
      BY <3>1, <3>2 DEF Closed
    <3>4. QED BY <3>3
  <2>3. QED BY <2>1, <2>2
<1>5. Closed(heap, C)
  BY <1>4 DEF Closed
<1>6. Tree(heap, n) \subseteq C
  <2> HIDE DEF C
  <2>1. QED BY <1>3, <1>5 DEF Tree
<1>7. QED BY <1>2, <1>6

(* Every node is in the tree of a root.                                    *)
LEMMA TreeOfRoot ==
  ASSUME NEW heap, HeapInv(heap), NEW n \in 1 .. Len(heap)
  PROVE  \E r : IsRoot(heap, r) /\ n \in Tree(heap, r)
<1> DEFINE S == {k \in 1 .. Len(heap) : n \in Tree(heap, k)}
<1>1. n \in S /\ S \subseteq Nat
  BY TreeClosed
<1>2. PICK r \in S : \A k \in S : r <= k
  BY <1>1, Least
<1>3. ASSUME NEW m \in 1 .. Len(heap), r \in Held(heap[m])
      PROVE  FALSE
  <2>1. Tree(heap, r) \subseteq Tree(heap, m)
    BY <1>3, TreeClosed
  <2>2. m \in S
    BY <1>2, <2>1
  <2>3. Held(heap[m]) \subseteq m + 1 .. Len(heap) /\ Len(heap) \in Nat
    BY SeqAny DEF HeapInv
  <2>4. r \in m + 1 .. Len(heap) /\ r <= m
    BY <1>2, <1>3, <2>2, <2>3
  <2>5. QED BY <2>3, <2>4
<1>4. QED BY <1>2, <1>3 DEF IsRoot

(* json_node_destroy frees all tables of the tree, and no others.          *)
LEMMA DestroysAll ==
  ASSUME NEW heap, HeapInv(heap), Full(heap), NEW node \in 1 .. Len(heap), NEW m
  PROVE  m \in Range(json_node_destroy(heap, node)) <=>
             m \in Tree(heap, node) /\ heap[m].type = "JSON_OBJECT"
<1> DEFINE L == Len(heap)
<1>1. L \in Nat
  BY SeqAny DEF HeapInv
<1>2. PICK f : Destroys(f, heap, 1) /\ \A n : json_node_destroy(heap, n) = f[n]
  BY DestroyDef
<1>3. \A n \in 1 .. L : f[n] = Frees(f, heap, n)
  BY <1>2 DEF Destroys
<1> DEFINE Good(n) == m \in Range(f[n]) <=> m \in Tree(heap, n) /\ heap[m].type = "JSON_OBJECT"
           S == {k \in Nat : \A n \in 1 .. L : n > L - k => Good(n)}
<1>4. 0 \in S
  BY <1>1
<1>5. ASSUME NEW k \in Nat, k \in S PROVE k + 1 \in S
  <2>1. SUFFICES ASSUME NEW n \in 1 .. L, n = L - k PROVE Good(n)
    <3>1. \A n \in 1 .. L : n > L - (k + 1) => n > L - k \/ n = L - k
      BY <1>1
    <3>2. QED BY <1>5, <2>1, <3>1
  <2> DEFINE c == Children(heap, n)
             ss == [i \in DOMAIN c |-> f[c[i]]]
             tail == IF heap[n].type = "JSON_OBJECT" THEN <<n>> ELSE <<>>
  <2>2. /\ IsSeq(c)
        /\ \A i \in DOMAIN c : c[i] \in Held(heap[n]) /\ c[i] \in n + 1 .. L
    BY ChildrenHeld
  <2>3. f[n] = FlattenSeq(ss) \o tail
    BY <1>3 DEF Frees
  <2>4. Range(c) = Held(heap[n])
    BY ChildrenAre
  <2>5. IsSeq(tail) /\ (m \in Range(tail) <=> m = n /\ heap[n].type = "JSON_OBJECT")
    <3>1. IsSeq(<<n>>) /\ Range(<<n>>) = {n}
      BY DEF IsSeq, Range
    <3>2. IsSeq(<<>>) /\ Range(<<>>) = {}
      BY EmptySeq DEF IsSeq, Range
    <3>3. QED BY <3>1, <3>2
  <2> HIDE DEF c, tail
  <2>6. Len(c) \in Nat /\ DOMAIN c = 1 .. Len(c)
    BY <2>2, SeqAny
  <2>7. ss = [i \in 1 .. Len(c) |-> ss[i]] /\ \A i \in 1 .. Len(c) : ss[i] = f[c[i]]
    BY <2>6
  <2> HIDE DEF ss
  <2>8. IsSeq(ss) /\ Len(ss) = Len(c)
    BY <2>6, <2>7, MadeAny
  <2>9. ASSUME NEW i \in 1 .. Len(ss)
        PROVE  IsSeq(ss[i]) /\ ss[i] = f[c[i]] /\ Good(c[i])
    <3>1. i \in DOMAIN c /\ c[i] \in n + 1 .. L /\ ss[i] = f[c[i]]
      BY <2>2, <2>6, <2>7, <2>8
    <3>2. c[i] \in 1 .. L /\ c[i] > L - k
      BY <1>1, <2>1, <3>1
    <3>3. Good(c[i])
      BY <1>5, <3>2
    <3>4. json_node_destroy(heap, c[i]) \in Seq(Tree(heap, c[i]))
      BY <3>2, DestroysTree
    <3>5. IsSeq(f[c[i]])
      BY <1>2, <3>4 DEF IsSeq
    <3>6. QED BY <3>1, <3>3, <3>5
  <2> HIDE DEF Good
  <2>10. IsSeq(FlattenSeq(ss))
    BY <2>8, <2>9, FlattenAny
  <2>11. m \in Range(FlattenSeq(ss)) <=> \E i \in 1 .. Len(ss) : m \in Range(ss[i])
    BY <2>8, <2>9, FlattenElements
  <2>12. m \in Range(f[n]) <=> m \in Range(FlattenSeq(ss)) \/ m \in Range(tail)
    BY <2>3, <2>5, <2>10, ConcatElements
  <2>13. m \in Range(FlattenSeq(ss)) <=>
             \E d \in Held(heap[n]) : m \in Tree(heap, d) /\ heap[m].type = "JSON_OBJECT"
    <3>1. \A i \in 1 .. Len(ss) : m \in Range(ss[i]) <=>
                                      m \in Tree(heap, c[i]) /\ heap[m].type = "JSON_OBJECT"
      BY <2>9 DEF Good
    <3>2. \A d : d \in Held(heap[n]) <=> \E i \in 1 .. Len(ss) : d = c[i]
      BY <2>4, <2>6, <2>8 DEF Range
    <3>3. QED BY <2>11, <3>1, <3>2
  <2>14. m \in Tree(heap, n) <=> m = n \/ \E d \in Held(heap[n]) : m \in Tree(heap, d)
    BY TreeParts
  <2>15. QED BY <2>5, <2>12, <2>13, <2>14 DEF Good
<1> HIDE DEF S, Good
<1>6. Nat \subseteq S
  BY <1>4, <1>5, Induction
<1>7. L \in S /\ node > L - L
  BY <1>1, <1>6
<1>8. Good(node)
  BY <1>7 DEF S
<1>9. QED BY <1>2, <1>8 DEF Good

(* The roots are those of dead trees, of which all tables were freed, the  *)
(* lost ones, and those in use.                                            *)
Sorted(heap, D, tables, L, U) ==
    /\ Full(heap)
    /\ Dead(heap, D, tables)
    /\ \A n : n \in Range(tables) <=> n \in D /\ heap[n].type = "JSON_OBJECT"
    /\ \A n \in L \cup U : IsRoot(heap, n) /\ n \notin D
    /\ L \cap U = {}
    /\ \A n : IsRoot(heap, n) => n \in D \cup L \cup U

(* Before the first node there is nothing to sort.                         *)
LEMMA SortedEmpty == Sorted(<<>>, {}, <<>>, {}, {})
<1>1. Len(<<>>) = 0 /\ Range(<<>>) = {} /\ 1 .. 0 = {}
  BY EmptySeq DEF Range
<1>2. Dead(<<>>, {}, <<>>)
  BY HeapEmpty, DeadNone
<1>3. Full(<<>>) /\ \A n : ~IsRoot(<<>>, n)
  BY <1>1 DEF Full, IsRoot
<1>4. QED
  BY <1>1, <1>2, <1>3 DEF Sorted

(* A new table has room.                                                   *)
LEMMA CreateFull ==
  ASSUME NEW heap, HeapInv(heap), Full(heap), NEW type
  PROVE  Full(json_node_create(heap, type))
<1> DEFINE node == [type |-> type, data |-> Zero(type)]
           new == json_node_create(heap, type)
<1>1. IsSeq(heap) /\ Len(heap) \in Nat
  BY SeqAny DEF HeapInv
<1>2. new = Append(heap, node)
  BY DEF json_node_create
<1>3. node.type = type /\ node.data = Zero(type)
  OBVIOUS
<1> HIDE DEF node, new
<1>4. /\ Len(new) = Len(heap) + 1 /\ new[Len(heap) + 1] = node
      /\ \A n \in 1 .. Len(heap) : new[n] = heap[n]
  BY <1>1, <1>2, AppendAny
<1>5. type = "JSON_OBJECT" => Roomy(Zero(type))
  BY RoomyInit DEF Zero
<1>6. \A n \in 1 .. Len(new) : n \in 1 .. Len(heap) \/ n = Len(heap) + 1
  BY <1>1, <1>4
<1>7. Full(new)
  BY <1>3, <1>4, <1>5, <1>6 DEF Full
<1>8. QED BY <1>7 DEF new

(* A new node is a root that is in use.                                    *)
LEMMA SortedCreate ==
  ASSUME NEW heap, HeapInv(heap), NEW D, NEW tables, NEW L, NEW U,
         Sorted(heap, D, tables, L, U), NEW type
  PROVE  Sorted(json_node_create(heap, type), D, tables, L, U \cup {New(heap)})
<1> DEFINE new == json_node_create(heap, type)
           last == Len(heap) + 1
<1>1. Len(heap) \in Nat
  BY SeqAny DEF HeapInv
<1>2. /\ HeapInv(new)
      /\ Len(new) = Len(heap) + 1
      /\ \A n \in 1 .. Len(heap) : new[n] = heap[n]
      /\ Held(new[last]) = {}
      /\ \A n \in 1 .. Len(heap) : IsRoot(heap, n) => IsRoot(new, n)
      /\ IsRoot(new, last)
  BY HeapCreate
<1>3. Full(new)
  BY CreateFull DEF Sorted
<1>4. New(heap) = last
  BY DEF New
<1> HIDE DEF new
<1>5. D \subseteq 1 .. Len(heap) /\ Dead(heap, D, tables)
  BY DEF Sorted, Dead
<1>6. Dead(new, D, tables)
  <2>1. Len(new) >= Len(heap) /\ \A n \in Len(heap) + 1 .. Len(new) : n = last
    BY <1>1, <1>2
  <2>2. QED
    BY <1>2, <1>5, <2>1, DeadKeeps
<1>7. \A n : n \in Range(tables) <=> n \in D /\ new[n].type = "JSON_OBJECT"
  BY <1>2, <1>5 DEF Sorted
<1>8. \A n \in L \cup U : n \in 1 .. Len(heap) /\ IsRoot(heap, n) /\ n \notin D
  BY DEF Sorted, IsRoot
<1>9. last \notin 1 .. Len(heap)
  BY <1>1
<1>10. ASSUME NEW n, IsRoot(new, n)
       PROVE  n \in D \cup L \cup U \cup {last}
  <2>1. n \in 1 .. Len(heap) \/ n = last
    BY <1>1, <1>2, <1>10 DEF IsRoot
  <2>2. ASSUME n \in 1 .. Len(heap)
        PROVE  IsRoot(heap, n)
    <3>1. \A m \in 1 .. Len(heap) : m \in 1 .. Len(new) /\ new[m] = heap[m]
      BY <1>1, <1>2
    <3>2. QED
      BY <1>10, <2>2, <3>1 DEF IsRoot
  <2>3. QED
    BY <2>1, <2>2 DEF Sorted
<1>11. L \cap (U \cup {last}) = {}
  BY <1>8, <1>9 DEF Sorted
<1> HIDE DEF last
<1>12. Sorted(new, D, tables, L, U \cup {last})
  BY <1>2, <1>3, <1>5, <1>6, <1>7, <1>8, <1>9, <1>10, <1>11 DEF Sorted
<1>13. QED
  BY <1>4, <1>12 DEF new

(* A store takes a root out of use; what it overwrites is lost.            *)
LEMMA SortedStore ==
  ASSUME NEW heap, HeapInv(heap), NEW D, NEW tables, NEW L, NEW U,
         Sorted(heap, D, tables, L, U),
         NEW new, NEW node \in 1 .. Len(heap), NEW sub \in U, node \notin D,
         Stores(heap, new, node, sub), Full(new), sub \in Held(new[node])
  PROVE  Sorted(new, D, tables, L \cup (Held(heap[node]) \ Held(new[node])), U \ {sub})
<1> DEFINE over == Held(heap[node]) \ Held(new[node])
           N == 1 .. Len(heap)
<1>1. /\ HeapInv(new) /\ Len(new) = Len(heap)
      /\ \A m \in N : new[m].type = heap[m].type
      /\ \A m \in N : Held(new[m]) \subseteq Held(heap[m]) \cup {sub}
      /\ \A m \in N : m # node => new[m] = heap[m]
      /\ \A m \in N : IsRoot(heap, m) /\ m # sub => IsRoot(new, m)
  BY DEF Stores
<1>2. /\ Dead(heap, D, tables) /\ D \subseteq N
      /\ \A n \in N : \A c \in Held(heap[n]) : c \in D <=> n \in D
  BY DEF Sorted, Dead
<1>3. IsRoot(heap, sub) /\ sub \notin D
  BY DEF Sorted
<1>4. Dead(new, D, tables)
  <2>1. Len(heap) \in Nat
    BY SeqAny DEF HeapInv
  <2>2. Len(new) >= Len(heap) /\ Len(heap) + 1 .. Len(new) = {}
    BY <1>1, <2>1
  <2>3. \A n \in N : \A c \in Held(new[n]) : c \in Held(heap[n]) \/ (c \notin D /\ n \notin D)
    BY <1>1, <1>3
  <2>4. QED
    BY <1>1, <1>2, <2>2, <2>3, DeadKeeps
<1>5. \A n : n \in Range(tables) <=> n \in D /\ new[n].type = "JSON_OBJECT"
  BY <1>1, <1>2 DEF Sorted
<1>6. ASSUME NEW n \in over
      PROVE  IsRoot(new, n) /\ n \notin D /\ n \notin U
  <2>1. n \in N
    <3>1. Held(heap[node]) \subseteq node + 1 .. Len(heap) /\ Len(heap) \in Nat
      BY SeqAny DEF HeapInv
    <3>2. QED
      BY <3>1
  <2>2. n \notin U
    BY DEF Sorted, IsRoot
  <2>3. n \notin D
    BY <1>2
  <2>4. ASSUME NEW m \in N
        PROVE  n \notin Held(new[m])
    <3>1. CASE m = node
      BY <3>1
    <3>2. CASE m # node
      <4>1. Held(heap[m]) \cap Held(heap[node]) = {}
        BY <3>2 DEF HeapInv
      <4>2. QED
        BY <1>1, <3>2, <4>1
    <3>3. QED
      BY <3>1, <3>2
  <2>5. QED
    BY <1>1, <2>1, <2>2, <2>3, <2>4 DEF IsRoot
<1>7. ASSUME NEW n, IsRoot(new, n)
      PROVE  n \in D \cup (L \cup over) \cup (U \ {sub})
  <2>1. n \in N /\ n # sub /\ \A m \in N : n \notin Held(new[m])
    BY <1>1, <1>7 DEF IsRoot
  <2>2. CASE IsRoot(heap, n)
    BY <2>1, <2>2 DEF Sorted
  <2>3. CASE ~IsRoot(heap, n)
    <3>1. PICK m \in N : n \in Held(heap[m])
      BY <2>1, <2>3 DEF IsRoot
    <3>2. m = node
      BY <1>1, <2>1, <3>1
    <3>3. QED
      BY <2>1, <3>1, <3>2
  <2>4. QED
    BY <2>2, <2>3
<1>8. \A n \in L \cup (U \ {sub}) : IsRoot(new, n) /\ n \notin D
  <2>1. \A n \in L \cup U : IsRoot(heap, n) /\ n \notin D /\ n \in N
    BY DEF Sorted, IsRoot
  <2>2. sub \notin L
    BY DEF Sorted
  <2>3. QED
    BY <1>1, <2>1, <2>2
<1>9. (L \cup over) \cap (U \ {sub}) = {}
  BY <1>6 DEF Sorted
<1> HIDE DEF over
<1>10. Sorted(new, D, tables, L \cup over, U \ {sub})
  BY <1>4, <1>5, <1>6, <1>7, <1>8, <1>9 DEF Sorted
<1>11. QED
  BY <1>10 DEF over

(* A root in use is lost.                                                  *)
LEMMA SortedLose ==
  ASSUME NEW heap, NEW D, NEW tables, NEW L, NEW U, Sorted(heap, D, tables, L, U), NEW r \in U
  PROVE  Sorted(heap, D, tables, L \cup {r}, U \ {r})
<1>1. \A n \in (L \cup {r}) \cup (U \ {r}) : n \in L \cup U
  OBVIOUS
<1>2. (L \cup {r}) \cap (U \ {r}) = {}
  BY DEF Sorted
<1>3. \A n : n \in D \cup L \cup U => n \in D \cup (L \cup {r}) \cup (U \ {r})
  OBVIOUS
<1>4. QED
  BY <1>1, <1>2, <1>3 DEF Sorted

(* A tree in use is destroyed.                                             *)
LEMMA SortedDestroy ==
  ASSUME NEW heap, HeapInv(heap), NEW D, NEW tables, NEW L, NEW U,
         Sorted(heap, D, tables, L, U), NEW r \in U
  PROVE  Sorted(heap, D \cup Tree(heap, r), tables \o json_node_destroy(heap, r), L, U \ {r})
<1> DEFINE T == Tree(heap, r)
           more == json_node_destroy(heap, r)
<1>1. IsRoot(heap, r) /\ r \notin D /\ Dead(heap, D, tables) /\ Full(heap)
  BY DEF Sorted
<1>2. Dead(heap, D \cup T, tables \o more)
  BY <1>1, DestroyKeeps
<1>3. /\ r \in 1 .. Len(heap) /\ r \in T /\ T \cap D = {} /\ T \subseteq 1 .. Len(heap)
      /\ \A m \in T : m = r \/ \E p \in T : m \in Held(heap[p])
  BY <1>1, TreeClosed, TreeAlive DEF IsRoot, Tree
<1>4. ASSUME NEW n
      PROVE  n \in Range(tables \o more) <=> n \in D \cup T /\ heap[n].type = "JSON_OBJECT"
  <2>1. IsSeq(tables) /\ IsSeq(more)
    <3>1. more \in Seq(Tree(heap, r))
      BY <1>3, DestroysTree
    <3>2. tables \in Seq(D)
      BY <1>1 DEF Dead
    <3> HIDE DEF more
    <3>3. QED BY <3>1, <3>2 DEF IsSeq
  <2>2. n \in Range(tables \o more) <=> n \in Range(tables) \/ n \in Range(more)
    <3> HIDE DEF more
    <3>1. QED BY <2>1, ConcatElements
  <2>3. n \in Range(more) <=> n \in T /\ heap[n].type = "JSON_OBJECT"
    BY <1>1, <1>3, DestroysAll
  <2>4. n \in Range(tables) <=> n \in D /\ heap[n].type = "JSON_OBJECT"
    BY DEF Sorted
  <2>5. QED BY <2>2, <2>3, <2>4
<1>5. ASSUME NEW n, IsRoot(heap, n), n # r
      PROVE  n \notin T
  BY <1>3, <1>5 DEF IsRoot
<1>6. \A n \in L \cup (U \ {r}) : IsRoot(heap, n) /\ n \notin D \cup T
  <2>1. r \notin L
    BY DEF Sorted
  <2>2. \A n \in L \cup (U \ {r}) : IsRoot(heap, n) /\ n \notin D /\ n # r
    BY <2>1 DEF Sorted
  <2>3. QED BY <1>5, <2>2
<1>7. \A n : IsRoot(heap, n) => n \in (D \cup T) \cup L \cup (U \ {r})
  BY <1>3 DEF Sorted
<1>8. L \cap (U \ {r}) = {}
  BY DEF Sorted
<1> HIDE DEF T, more
<1>9. Sorted(heap, D \cup T, tables \o more, L, U \ {r})
  BY <1>1, <1>2, <1>4, <1>6, <1>7, <1>8 DEF Sorted
<1>10. QED BY <1>9 DEF T, more

(* When nothing is in use, the tables that were not freed are lost.        *)
LEMMA SortedOver ==
  ASSUME NEW heap, HeapInv(heap), NEW D, NEW tables, NEW L, Sorted(heap, D, tables, L, {})
  PROVE  Range(tables) = {n \in DOMAIN heap : heap[n].type = "JSON_OBJECT"}
                             \ UNION {Range(json_node_destroy(heap, l)) : l \in L}
<1> DEFINE N == 1 .. Len(heap)
           X == UNION {Range(json_node_destroy(heap, l)) : l \in L}
<1>1. DOMAIN heap = N
  BY SeqAny DEF HeapInv
<1>2. /\ Full(heap) /\ Dead(heap, D, tables) /\ D \subseteq N
      /\ \A l \in L : IsRoot(heap, l) /\ l \notin D /\ l \in N
      /\ \A n : IsRoot(heap, n) => n \in D \cup L
      /\ \A n : n \in Range(tables) <=> n \in D /\ heap[n].type = "JSON_OBJECT"
  BY DEF Sorted, Dead, IsRoot
<1>3. ASSUME NEW n
      PROVE  n \in X <=> heap[n].type = "JSON_OBJECT" /\ \E l \in L : n \in Tree(heap, l)
  <2>1. \A l \in L : n \in Range(json_node_destroy(heap, l)) <=>
                         n \in Tree(heap, l) /\ heap[n].type = "JSON_OBJECT"
    BY <1>2, DestroysAll
  <2>2. QED BY <2>1
<1>4. ASSUME NEW n \in N
      PROVE  n \in D <=> ~\E l \in L : n \in Tree(heap, l)
  <2>1. \A l \in L : Tree(heap, l) \cap D = {}
    BY <1>2, TreeAlive
  <2>2. PICK r : IsRoot(heap, r) /\ n \in Tree(heap, r)
    BY TreeOfRoot
  <2>3. r \in D \/ r \in L
    BY <1>2, <2>2
  <2>4. r \in D => n \in D
    BY <1>2, <2>2, TreeAlive
  <2>5. QED BY <2>1, <2>2, <2>3, <2>4
<1> HIDE DEF X
<1>5. Range(tables) = {n \in N : heap[n].type = "JSON_OBJECT"} \ X
  BY <1>2, <1>3, <1>4
<1>6. QED BY <1>1, <1>5 DEF X

(* A store in a table or a vector that is not full loses nothing of it but *)
(* what a put overwrites.                                                  *)
LEMMA PutFull ==
  ASSUME NEW heap, HeapInv(heap), Full(heap), NEW obj \in 1 .. Len(heap),
         heap[obj].type = "JSON_OBJECT", NEW name, NEW sub
  PROVE  LET new == json_node_putn(heap, obj, name, sub)
         IN  Full(new) /\ sub \in Held(new[obj])
<1> DEFINE d == heap[obj].data
           data == dict_put(d, name, sub)
           node == [type |-> heap[obj].type, data |-> data]
           new == [heap EXCEPT ![obj].data = data]
<1>1. heap[obj] = [type |-> heap[obj].type, data |-> d] /\ DictInv(d) /\ Roomy(d) /\ IsSeq(heap)
  BY DEF HeapInv, NodeInv, Full
<1>2. new = json_node_putn(heap, obj, name, sub)
  BY Zenon DEF json_node_putn
<1> HIDE DEF d
<1>3. Roomy(data) /\ sub \in Values(data)
  <2>1. d.size \in Nat
    BY <1>1 DEF DictInv
  <2>2. QED BY <1>1, <2>1, RoomyPut, PutIsThere
<1> HIDE DEF data
<1>4. [heap[obj] EXCEPT !.data = data] = node
  BY <1>1
<1>5. new = [heap EXCEPT ![obj] = node]
  BY <1>4
<1>6. node.type = "JSON_OBJECT" /\ node.data = data
  OBVIOUS
<1> HIDE DEF node, new
<1>7. Len(new) = Len(heap) /\ \A i \in 1 .. Len(heap) : new[i] = IF i = obj THEN node ELSE heap[i]
  BY <1>1, <1>5, ExceptAny
<1>8. Full(new)
  BY <1>3, <1>6, <1>7 DEF Full
<1>9. sub \in Held(new[obj])
  BY <1>3, <1>6, <1>7 DEF Held
<1>10. QED BY <1>2, <1>8, <1>9

LEMMA AddFull ==
  ASSUME NEW heap, HeapInv(heap), Full(heap), NEW array \in 1 .. Len(heap),
         heap[array].type = "JSON_ARRAY", NEW sub \in Nat
  PROVE  LET new == json_node_addn(heap, array, sub)
         IN  /\ Full(new) /\ sub \in Held(new[array])
             /\ Held(heap[array]) \subseteq Held(new[array])
<1> DEFINE v == heap[array].data
           data == vect_add(v, sub)
           node == [type |-> heap[array].type, data |-> data]
           new == [heap EXCEPT ![array].data = data]
<1>1. /\ heap[array] = [type |-> heap[array].type, data |-> v] /\ IsSeq(heap)
      /\ VectInv(v, Nat) /\ Held(heap[array]) = Gets(v)
  BY DEF HeapInv, NodeInv, Held
<1>2. new = json_node_addn(heap, array, sub)
  BY Zenon DEF json_node_addn
<1> HIDE DEF v
<1>3. /\ data.size = v.size + 1 /\ v.size \in Nat
      /\ \A i \in Nat : i < v.size => vect_get(data, i) = vect_get(v, i)
      /\ vect_get(data, v.size) = sub
  <2>1. v.size \in Nat
    BY <1>1 DEF VectInv, Vectors
  <2>2. QED BY <1>1, <2>1, VectAdd
<1> HIDE DEF data
<1>4. sub \in Gets(data)
  <2>1. v.size \in 0 .. data.size - 1
    BY <1>3
  <2>2. QED BY <1>3, <2>1 DEF Gets
<1>5. Gets(v) \subseteq Gets(data)
  <2>1. \A i \in 0 .. v.size - 1 : i \in 0 .. data.size - 1 /\ vect_get(data, i) = vect_get(v, i)
    BY <1>3
  <2>2. QED BY <2>1 DEF Gets
<1>6. [heap[array] EXCEPT !.data = data] = node
  BY <1>1
<1>7. new = [heap EXCEPT ![array] = node]
  BY <1>6
<1>8. node.type = "JSON_ARRAY" /\ node.data = data
  OBVIOUS
<1> HIDE DEF node, new
<1>9. Len(new) = Len(heap)
      /\ \A i \in 1 .. Len(heap) : new[i] = IF i = array THEN node ELSE heap[i]
  BY <1>1, <1>7, ExceptAny
<1>10. Full(new)
  BY <1>8, <1>9 DEF Full
<1>11. Held(new[array]) = Gets(data)
  BY <1>8, <1>9 DEF Held
<1>12. QED BY <1>1, <1>2, <1>4, <1>5, <1>10, <1>11

(* The child that a table takes over is in use by nobody else; what it takes*)
(* the place of is lost.                                                   *)
LEMMA SortedPut ==
  ASSUME NEW heap, HeapInv(heap), NEW D, NEW tables, NEW L, NEW U,
         Sorted(heap, D, tables, L, U),
         NEW obj \in 1 .. Len(heap), heap[obj].type = "JSON_OBJECT", obj \notin D,
         NEW name, NEW sub \in U, sub > obj
  PROVE  LET new == json_node_putn(heap, obj, name, sub)
         IN  /\ Sorted(new, D, tables, L \cup Overwritten(heap, obj, new), U \ {sub})
             /\ Range(Children(new, obj)) = Held(new[obj])
             /\ HeapInv(new)
<1> DEFINE new == json_node_putn(heap, obj, name, sub)
<1>1. IsRoot(heap, sub) /\ Full(heap)
  BY DEF Sorted
<1>2. Stores(heap, new, obj, sub)
  BY <1>1, HeapPut
<1>3. Full(new) /\ sub \in Held(new[obj])
  BY <1>1, PutFull
<1> HIDE DEF new
<1>4. HeapInv(new) /\ obj \in 1 .. Len(new)
  BY <1>2 DEF Stores
<1>5. Range(Children(heap, obj)) = Held(heap[obj]) /\ Range(Children(new, obj)) = Held(new[obj])
  BY <1>1, <1>3, <1>4, ChildrenAre
<1>6. Overwritten(heap, obj, new) = Held(heap[obj]) \ Held(new[obj])
  BY <1>5 DEF Overwritten
<1>7. Sorted(new, D, tables, L \cup Overwritten(heap, obj, new), U \ {sub})
  BY <1>2, <1>3, <1>6, SortedStore
<1>8. QED BY <1>4, <1>5, <1>7 DEF new

(* The same for an array, which loses nothing                              *)
LEMMA SortedAdd ==
  ASSUME NEW heap, HeapInv(heap), NEW D, NEW tables, NEW L, NEW U,
         Sorted(heap, D, tables, L, U),
         NEW array \in 1 .. Len(heap), heap[array].type = "JSON_ARRAY", array \notin D,
         NEW sub \in U, sub > array
  PROVE  LET new == json_node_addn(heap, array, sub)
         IN  /\ Sorted(new, D, tables, L, U \ {sub})
             /\ Overwritten(heap, array, new) = {}
             /\ HeapInv(new)
<1> DEFINE new == json_node_addn(heap, array, sub)
<1>1. IsRoot(heap, sub) /\ Full(heap)
  BY DEF Sorted
<1>2. sub \in Nat
  BY <1>1 DEF IsRoot
<1>3. Stores(heap, new, array, sub)
  BY <1>1, HeapAdd
<1>4. Full(new) /\ sub \in Held(new[array]) /\ Held(heap[array]) \subseteq Held(new[array])
  BY <1>1, <1>2, AddFull
<1> HIDE DEF new
<1>5. HeapInv(new) /\ array \in 1 .. Len(new)
  BY <1>3 DEF Stores
<1>6. Range(Children(heap, array)) = Held(heap[array])
      /\ Range(Children(new, array)) = Held(new[array])
  BY <1>1, <1>4, <1>5, ChildrenAre
<1>7. Overwritten(heap, array, new) = {} /\ L \cup (Held(heap[array]) \ Held(new[array])) = L
  BY <1>4, <1>6 DEF Overwritten
<1>8. Sorted(new, D, tables, L \cup (Held(heap[array]) \ Held(new[array])), U \ {sub})
  BY <1>3, <1>4, SortedStore
<1>9. QED BY <1>5, <1>7, <1>8 DEF new

(* A scalar may change its value.                                          *)
LEMMA SortedValue ==
  ASSUME NEW heap, HeapInv(heap), NEW D, NEW tables, NEW L, NEW U,
         Sorted(heap, D, tables, L, U),
         NEW n \in 1 .. Len(heap), heap[n].type \notin {"JSON_OBJECT", "JSON_ARRAY"}, NEW data
  PROVE  Sorted([heap EXCEPT ![n].data = data], D, tables, L, U)
<1> DEFINE new == [heap EXCEPT ![n].data = data]
           N == 1 .. Len(heap)
<1>1. /\ HeapInv(new)
      /\ Len(new) = Len(heap)
      /\ \A m \in N : new[m].type = heap[m].type
      /\ \A m \in N : Held(new[m]) \subseteq Held(heap[m])
      /\ \A m \in N : m # n => new[m] = heap[m]
      /\ \A m \in N : IsRoot(heap, m) => IsRoot(new, m)
  BY HeapValue
<1> HIDE DEF new
<1>2. Held(heap[n]) = {}
  BY DEF Held
<1>3. \A m \in N : Held(new[m]) = Held(heap[m])
  BY <1>1, <1>2
<1>4. \A m : IsRoot(new, m) <=> IsRoot(heap, m)
  BY <1>1, <1>3 DEF IsRoot
<1>5. Full(new)
  BY <1>1 DEF Full, Sorted
<1>6. Dead(new, D, tables) /\ D \subseteq N
  BY <1>1, <1>3 DEF Dead, Sorted
<1>7. \A m : m \in Range(tables) <=> m \in D /\ new[m].type = "JSON_OBJECT"
  BY <1>1, <1>6 DEF Sorted
<1>8. Sorted(new, D, tables, L, U)
  BY <1>4, <1>5, <1>6, <1>7 DEF Sorted
<1>9. QED BY <1>8 DEF new

(* The inductive invariant for NoTableLeaks: every root is dead, lost or   *)
(* in use, by the owner of the tree or by a call of the parser.            *)
FrameNodes(calls) == {calls[i].node : i \in 1 .. Len(calls)}
InUse == (FrameNodes(frames) \cup {root} \cup IF pc = "return" THEN {ret} ELSE {}) \ {NULL}
LeaksInv ==
    /\ pc = "idle" => nodes = <<>>
    /\ pc \in {"sent", "over"} => root = NULL
    /\ \E D : /\ Sorted(nodes, D, freed, lost, InUse)
              /\ pc \in {"idle", "build", "printed"} => D = {}

(* The nodes of the calls when there is none, one more, and one fewer      *)
LEMMA NoFrames == FrameNodes(<<>>) = {}
<1>1. Len(<<>>) = 0 /\ 1 .. 0 = {}
  BY EmptySeq
<1>2. QED
  BY <1>1 DEF FrameNodes

LEMMA FramesOpen ==
  ASSUME NEW calls, IsSeq(calls), NEW call
  PROVE  FrameNodes(Append(calls, call)) = FrameNodes(calls) \cup {call.node}
<1> DEFINE more == Append(calls, call)
<1>1. Len(calls) \in Nat
  BY SeqAny
<1>2. /\ Len(more) = Len(calls) + 1 /\ more[Len(calls) + 1] = call
      /\ \A i \in 1 .. Len(calls) : more[i] = calls[i]
  BY AppendAny
<1> HIDE DEF more
<1>3. 1 .. Len(more) = (1 .. Len(calls)) \cup {Len(calls) + 1}
  BY <1>1, <1>2
<1>4. FrameNodes(more) = FrameNodes(calls) \cup {call.node}
  BY <1>2, <1>3 DEF FrameNodes
<1>5. QED
  BY <1>4 DEF more

LEMMA FramesClose ==
  ASSUME NEW calls, IsSeq(calls), calls # <<>>,
         \A i, j \in 1 .. Len(calls) : calls[i].node = calls[j].node => i = j
  PROVE  FrameNodes(Front(calls)) = FrameNodes(calls) \ {calls[Len(calls)].node}
<1>1. Len(calls) \in Nat /\ Len(calls) # 0
  BY SeqAny
<1>2. /\ Len(Front(calls)) = Len(calls) - 1
      /\ \A i \in 1 .. Len(calls) - 1 : Front(calls)[i] = calls[i]
  BY FrontAny
<1> DEFINE fewer == Front(calls)
<1> HIDE DEF fewer
<1>3. /\ Len(fewer) = Len(calls) - 1 /\ \A i \in 1 .. Len(calls) - 1 : fewer[i] = calls[i]
      /\ \A i \in 1 .. Len(calls) - 1 : i \in 1 .. Len(calls) /\ i # Len(calls)
      /\ \A i \in 1 .. Len(calls) : i # Len(calls) => i \in 1 .. Len(calls) - 1
      /\ Len(calls) \in 1 .. Len(calls)
  BY <1>1, <1>2 DEF fewer
<1>4. FrameNodes(fewer) = FrameNodes(calls) \ {calls[Len(calls)].node}
  <2>1. ASSUME NEW i \in 1 .. Len(calls) - 1
        PROVE  fewer[i].node \in FrameNodes(calls) \ {calls[Len(calls)].node}
    BY <1>3 DEF FrameNodes
  <2>2. ASSUME NEW i \in 1 .. Len(calls), calls[i].node # calls[Len(calls)].node
        PROVE  calls[i].node \in FrameNodes(fewer)
    <3>1. i \in 1 .. Len(calls) - 1
      BY <1>3, <2>2
    <3>2. QED
      BY <1>3, <3>1 DEF FrameNodes
  <2> DEFINE A == FrameNodes(fewer)
             B == FrameNodes(calls) \ {calls[Len(calls)].node}
  <2>3. ASSUME NEW x \in A
        PROVE  x \in B
    <3>1. PICK i \in 1 .. Len(calls) - 1 : x = fewer[i].node
      BY <1>3 DEF FrameNodes
    <3>2. QED
      BY <2>1, <3>1
  <2>4. ASSUME NEW x \in B
        PROVE  x \in A
    <3>1. PICK i \in 1 .. Len(calls) : x = calls[i].node
      BY DEF FrameNodes
    <3>2. QED
      BY <2>2, <3>1
  <2> HIDE DEF A, B
  <2>5. A = B
    BY <2>3, <2>4
  <2>6. QED
    BY <2>5 DEF A, B
<1>5. QED
  BY <1>4 DEF fewer

(* The invariant holds at first.                                           *)
LEMMA LeaksInit == Init => LeaksInv
<1> SUFFICES ASSUME Init PROVE LeaksInv
  OBVIOUS
<1>1. nodes = <<>> /\ pc = "idle" /\ freed = <<>> /\ lost = {}
  BY DEF Init
<1>2. frames = <<>> /\ root = NULL
  BY DEF Init
<1>3. InUse = {}
  BY <1>1, <1>2, NoFrames DEF InUse
<1>4. QED
  BY <1>1, <1>3, SortedEmpty DEF LeaksInv

(* Building a document and writing it                                      *)
LEMMA LeaksCreate ==
  ASSUME TreesInv, LeaksInv, json_create
  PROVE  LeaksInv'
<1>1. /\ pc = "idle" /\ pc' = "build" /\ root' = 1 /\ freed' = freed /\ frames' = frames
      /\ lost' = lost /\ frames = <<>> /\ freed = <<>> /\ nodes = <<>>
  BY DEF json_create, TreesInv, RootInv, LeaksInv
<1>2. PICK type \in Types : nodes' = json_node_create(<<>>, type)
  BY DEF json_create
<1>3. IsSeq(<<>>) /\ Len(<<>>) = 0 /\ 1 .. 0 = {}
  BY EmptySeq DEF IsSeq
<1>4. lost = {}
  BY <1>1, <1>3 DEF LeaksInv, Sorted, IsRoot
<1>5. Sorted(nodes', {}, freed', lost', {1})
  <2>1. Sorted(nodes', {}, <<>>, {}, {} \cup {New(<<>>)})
    BY <1>2, HeapEmpty, SortedEmpty, SortedCreate
  <2>2. {} \cup {New(<<>>)} = {1}
    BY <1>3 DEF New
  <2>3. QED
    BY <1>1, <1>4, <2>1, <2>2
<1>6. InUse' = {1}
  BY <1>1, NoFrames DEF InUse, NULL
<1>7. QED
  BY <1>1, <1>5, <1>6 DEF LeaksInv

(* While a tree is built its root is in use.                               *)
LEMMA UsedBuilding ==
  ASSUME TreesInv, pc \in {"build", "printed"}
  PROVE  /\ InUse = {root} /\ IsRoot(nodes, root) /\ frames = <<>> /\ freed = <<>>
         /\ HeapInv(nodes) /\ Len(nodes) \in Nat /\ DOMAIN nodes = 1 .. Len(nodes)
<1>1. IsRoot(nodes, root) /\ frames = <<>> /\ freed = <<>>
  BY DEF TreesInv, RootInv
<1>2. root # NULL
  BY DEF TreesInv, RootInv
<1>3. InUse = {root}
  BY <1>1, <1>2, NoFrames DEF InUse
<1>4. QED
  BY <1>1, <1>3, SeqAny DEF TreesInv, HeapInv

LEMMA LeaksBuilt ==
  ASSUME TreesInv, pc = "build", pc' \in {"build", "printed"}, TreesInv', root' = root,
         Sorted(nodes', {}, freed, lost', {root}), freed' = freed
  PROVE  LeaksInv'
<1>1. InUse' = {root'}
  <2>1. root' # NULL /\ frames' = <<>>
    BY DEF TreesInv, RootInv
  <2>2. QED
    BY <2>1, NoFrames DEF InUse
<1>2. QED
  BY <1>1 DEF LeaksInv

LEMMA LeaksPut ==
  ASSUME TreesInv, LeaksInv, json_node_put, TreesInv'
  PROVE  LeaksInv'
<1>1. pc = "build" /\ pc' = pc /\ root' = root /\ freed' = freed
  BY DEF json_node_put
<1>2. PICK obj \in DOMAIN nodes, name \in Keys, type \in Types :
          /\ nodes[obj].type = "JSON_OBJECT"
          /\ nodes' = json_node_putn(json_node_create(nodes, type), obj, name, New(nodes))
          /\ lost' = lost \cup Overwritten(nodes, obj, nodes')
  BY DEF json_node_put
<1>3. /\ InUse = {root} /\ IsRoot(nodes, root)
      /\ HeapInv(nodes) /\ Len(nodes) \in Nat /\ DOMAIN nodes = 1 .. Len(nodes)
  BY <1>1, UsedBuilding
<1>4. Sorted(nodes, {}, freed, lost, {root})
  BY <1>1, <1>3 DEF LeaksInv
<1> DEFINE mid == json_node_create(nodes, type)
           U == {root} \cup {New(nodes)}
<1>5. /\ HeapInv(mid) /\ Len(mid) = Len(nodes) + 1
      /\ mid[obj] = nodes[obj]
  BY <1>2, <1>3, HeapCreate
<1>6. Sorted(mid, {}, freed, lost, U)
  BY <1>3, <1>4, SortedCreate
<1>7. obj \in 1 .. Len(mid) /\ New(nodes) > obj /\ New(nodes) \in U /\ U \ {New(nodes)} = {root}
  BY <1>2, <1>3, <1>5 DEF New, IsRoot
<1> HIDE DEF mid, U
<1> DEFINE new == json_node_putn(mid, obj, name, New(nodes))
<1>8. Sorted(new, {}, freed, lost \cup Overwritten(mid, obj, new), U \ {New(nodes)})
  BY <1>2, <1>5, <1>6, <1>7, SortedPut
<1>9. nodes' = new
  BY <1>2 DEF mid
<1> HIDE DEF new
<1>10. Overwritten(mid, obj, new) = Overwritten(nodes, obj, new)
  BY <1>5 DEF Overwritten, Children
<1>11. Sorted(nodes', {}, freed, lost', {root})
  BY <1>2, <1>7, <1>8, <1>9, <1>10
<1>12. QED
  BY <1>1, <1>11, LeaksBuilt

LEMMA LeaksAdd ==
  ASSUME TreesInv, LeaksInv, json_node_add, TreesInv'
  PROVE  LeaksInv'
<1>1. pc = "build" /\ pc' = pc /\ root' = root /\ freed' = freed /\ lost' = lost
  BY DEF json_node_add
<1>2. PICK array \in DOMAIN nodes, type \in Types :
          /\ nodes[array].type = "JSON_ARRAY"
          /\ nodes' = json_node_addn(json_node_create(nodes, type), array, New(nodes))
  BY DEF json_node_add
<1>3. /\ InUse = {root} /\ IsRoot(nodes, root)
      /\ HeapInv(nodes) /\ Len(nodes) \in Nat /\ DOMAIN nodes = 1 .. Len(nodes)
  BY <1>1, UsedBuilding
<1>4. Sorted(nodes, {}, freed, lost, {root})
  BY <1>1, <1>3 DEF LeaksInv
<1> DEFINE mid == json_node_create(nodes, type)
           U == {root} \cup {New(nodes)}
<1>5. /\ HeapInv(mid) /\ Len(mid) = Len(nodes) + 1
      /\ mid[array] = nodes[array]
  BY <1>2, <1>3, HeapCreate
<1>6. Sorted(mid, {}, freed, lost, U)
  BY <1>3, <1>4, SortedCreate
<1>7. /\ array \in 1 .. Len(mid) /\ New(nodes) > array
      /\ New(nodes) \in U /\ U \ {New(nodes)} = {root}
  BY <1>2, <1>3, <1>5 DEF New, IsRoot
<1> HIDE DEF mid, U
<1>8. Sorted(json_node_addn(mid, array, New(nodes)), {}, freed, lost, U \ {New(nodes)})
  BY <1>2, <1>5, <1>6, <1>7, SortedAdd
<1>9. nodes' = json_node_addn(mid, array, New(nodes))
  BY <1>2 DEF mid
<1>10. QED
  BY <1>1, <1>7, <1>8, <1>9, LeaksBuilt

LEMMA LeaksSet ==
  ASSUME TreesInv, LeaksInv, json_set, TreesInv'
  PROVE  LeaksInv'
<1>1. pc = "build" /\ pc' = pc /\ root' = root /\ freed' = freed /\ lost' = lost
  BY DEF json_set
<1>2. InUse = {root} /\ IsRoot(nodes, root) /\ HeapInv(nodes) /\ Len(nodes) \in Nat
  BY <1>1, UsedBuilding
<1>3. Sorted(nodes, {}, freed, lost, {root})
  BY <1>1, <1>2 DEF LeaksInv
<1>4. Len(nodes) \in 1 .. Len(nodes)
  BY <1>2 DEF IsRoot
<1>5. PICK data : /\ nodes' = [nodes EXCEPT ![Len(nodes)].data = data]
                  /\ nodes[Len(nodes)].type \notin {"JSON_OBJECT", "JSON_ARRAY"}
  BY DEF json_set
<1>6. Sorted(nodes', {}, freed, lost, {root})
  BY <1>2, <1>3, <1>4, <1>5, SortedValue
<1>7. QED
  BY <1>1, <1>6, LeaksBuilt

LEMMA LeaksStringify ==
  ASSUME TreesInv, LeaksInv, json_stringify, TreesInv'
  PROVE  LeaksInv'
<1>1. /\ pc = "build" /\ pc' = "printed" /\ root' = root /\ freed' = freed /\ lost' = lost
      /\ nodes' = nodes
  BY DEF json_stringify, heapVars
<1>2. InUse = {root}
  BY <1>1, UsedBuilding
<1>3. Sorted(nodes', {}, freed, lost', {root})
  BY <1>1, <1>2 DEF LeaksInv
<1>4. QED
  BY <1>1, <1>3, LeaksBuilt

(* json_destroy kills the tree of the root; json_parse starts with none.   *)
LEMMA LeaksDestroy ==
  ASSUME TreesInv, LeaksInv, json_destroy
  PROVE  LeaksInv'
<1>1. /\ pc \in {"printed", "done"} /\ root # NULL /\ root' = NULL
      /\ freed' = freed \o json_node_destroy(nodes, root)
      /\ pc' \in {"sent", "over"} /\ nodes' = nodes /\ frames' = frames /\ lost' = lost
  BY DEF json_destroy
<1>2. HeapInv(nodes) /\ IsRoot(nodes, root) /\ frames = <<>>
  BY <1>1 DEF TreesInv, RootInv
<1>3. InUse = {root}
  BY <1>1, <1>2, NoFrames DEF InUse
<1>4. InUse' = {}
  BY <1>1, <1>2, NoFrames DEF InUse
<1>5. PICK D : Sorted(nodes, D, freed, lost, {root})
  BY <1>3 DEF LeaksInv
<1>6. root \in {root} /\ {root} \ {root} = {}
  OBVIOUS
<1>7. Sorted(nodes, D \cup Tree(nodes, root), freed \o json_node_destroy(nodes, root), lost,
             {root} \ {root})
  BY <1>2, <1>5, <1>6, SortedDestroy
<1>8. Sorted(nodes', D \cup Tree(nodes, root), freed', lost', InUse')
  BY <1>1, <1>4, <1>6, <1>7
<1>9. QED
  BY <1>1, <1>8 DEF LeaksInv

LEMMA LeaksParse ==
  ASSUME TreesInv, json_parse
  PROVE  LeaksInv'
<1>1. /\ nodes' = <<>> /\ freed' = <<>> /\ lost' = {} /\ pc' = "lex"
      /\ root' = NULL /\ frames' = <<>>
  BY DEF json_parse, TreesInv, RootInv
<1>2. InUse' = {}
  BY <1>1, NoFrames DEF InUse
<1>3. QED
  BY <1>1, <1>2, SortedEmpty DEF LeaksInv

(* How a state after a step is shown to satisfy the invariant              *)
LEMMA LeaksTo ==
  ASSUME pc' \notin {"idle", "build", "printed", "sent", "over"},
         NEW D, NEW U, Sorted(nodes', D, freed', lost', U), InUse' = U
  PROVE  LeaksInv'
BY DEF LeaksInv

(* A step that leaves the trees and their users alone                      *)
LEMMA LeaksStay ==
  ASSUME LeaksInv, nodes' = nodes, freed' = freed, lost' = lost, InUse' = InUse,
         pc' \notin {"idle", "build", "printed", "sent", "over"}
  PROVE  LeaksInv'
<1>1. PICK D : Sorted(nodes, D, freed, lost, InUse)
  BY DEF LeaksInv
<1>2. QED
  BY <1>1, LeaksTo

(* The lexer touches no node.                                              *)
LEMMA LeaksLex ==
  ASSUME LeaksInv, lex_token \/ lex_number \/ lex_number_restores \/ lex_end \/ lex_aborts
  PROVE  LeaksInv'
<1>1. /\ pc = "lex" /\ pc' \in {"lex", "done", "corrupted", "analyze", "aborted"}
      /\ nodes' = nodes /\ root' = root /\ freed' = freed /\ frames' = frames /\ lost' = lost
  BY DEF lex_token, lex_number, lex_number_restores, lex_end, lex_aborts, Lexes, heapVars
<1>2. InUse' = InUse
  BY <1>1 DEF InUse
<1>3. QED
  BY <1>1, <1>2, LeaksStay

(* A call that fails before it has a node                                  *)
LEMMA LeaksNothing ==
  ASSUME LeaksInv, json_analyze_deep \/ json_analyze_unexpected
  PROVE  LeaksInv'
<1>1. /\ pc = "analyze" /\ pc' = "return" /\ ret' = NULL
      /\ nodes' = nodes /\ root' = root /\ freed' = freed /\ frames' = frames /\ lost' = lost
  BY DEF json_analyze_deep, json_analyze_unexpected, Analyzes, Returns, heapVars
<1>2. InUse' = InUse
  BY <1>1 DEF InUse
<1>3. QED
  BY <1>1, <1>2, LeaksStay

(* The outermost call hands its node to the owner.                         *)
LEMMA LeaksSetRoot ==
  ASSUME TreesInv, LeaksInv, json_set_root
  PROVE  LeaksInv'
<1>1. /\ pc = "return" /\ frames = <<>> /\ root' = ret /\ pc' = "done"
      /\ nodes' = nodes /\ freed' = freed /\ frames' = frames /\ lost' = lost
  BY DEF json_set_root
<1>2. root = NULL
  BY <1>1 DEF TreesInv, RootInv
<1>3. InUse' = InUse
  BY <1>1, <1>2, NoFrames DEF InUse
<1>4. QED
  BY <1>1, <1>3, LeaksStay

(* What the parser has made so far is in use, and no more.                 *)
LEMMA UsedParsing ==
  ASSUME TreesInv, pc \in {"analyze", "member", "return"}
  PROVE  /\ root = NULL /\ HeapInv(nodes) /\ IsSeq(frames)
         /\ InUse = FrameNodes(frames) \cup IF pc = "return" /\ ret # NULL THEN {ret} ELSE {}
         /\ FrameNodes(frames) \subseteq 1 .. Len(nodes)
<1>1. root = NULL /\ HeapInv(nodes) /\ IsSeq(frames)
  BY DEF TreesInv, RootInv, FramesInv
<1>2. FrameNodes(frames) \subseteq 1 .. Len(nodes)
  BY DEF FrameNodes, TreesInv, FramesInv, IsRoot
<1>3. NULL \notin FrameNodes(frames)
  BY <1>2 DEF NULL
<1>4. QED
  BY <1>1, <1>2, <1>3 DEF InUse

(* The name of a member                                                    *)
LEMMA LeaksName ==
  ASSUME TreesInv, LeaksInv, json_analyze_name
  PROVE  LeaksInv'
<1>1. /\ pc = "member" /\ pc' = "analyze" /\ nodes' = nodes /\ root' = root /\ freed' = freed
      /\ lost' = lost /\ frames # <<>>
      /\ frames' = [frames EXCEPT ![Len(frames)].key = pop_value[2]]
  BY DEF json_analyze_name, heapVars, TreesInv, RootInv
<1> DEFINE key == pop_value[2]
           top == [frames[Len(frames)] EXCEPT !.key = key]
           new == [frames EXCEPT ![Len(frames)] = top]
<1>2. IsSeq(frames) /\ Len(frames) \in 1 .. Len(frames)
  BY <1>1, SeqAny DEF TreesInv, FramesInv
<1>3. frames[Len(frames)] = [node |-> frames[Len(frames)].node, key |-> frames[Len(frames)].key]
  BY <1>2 DEF TreesInv, FramesInv
<1> HIDE DEF key
<1>4. top.node = frames[Len(frames)].node
  BY <1>3
<1>5. frames' = new
  BY <1>1 DEF key
<1> HIDE DEF top
<1>6. Len(new) = Len(frames)
      /\ \A i \in 1 .. Len(frames) : new[i] = IF i = Len(frames) THEN top ELSE frames[i]
  BY <1>2, ExceptAny
<1> HIDE DEF new
<1>7. \A i \in 1 .. Len(frames) : new[i].node = frames[i].node
  BY <1>4, <1>6
<1>8. FrameNodes(new) = FrameNodes(frames)
  BY <1>6, <1>7 DEF FrameNodes
<1>9. InUse' = InUse
  BY <1>1, <1>5, <1>8 DEF InUse
<1>10. QED
  BY <1>1, <1>9, LeaksStay

(* A call that creates a scalar or an empty node and returns it            *)
LEMMA LeaksNew ==
  ASSUME TreesInv, LeaksInv, json_analyze_value \/ json_analyze_empty
  PROVE  LeaksInv'
<1> DEFINE type == types(Token(0))
           new == json_node_create(nodes, type)
           U == InUse \cup {New(nodes)}
<1>1. /\ pc = "analyze" /\ pc' = "return" /\ ret' = New(nodes) /\ root' = root
      /\ freed' = freed /\ frames' = frames /\ lost' = lost
  BY DEF json_analyze_value, json_analyze_empty, Analyzes, Returns
<1>2. HeapInv(nodes) /\ Len(nodes) \in Nat
  BY SeqAny DEF TreesInv, HeapInv
<1>3. \/ nodes' = new
      \/ /\ nodes' = [new EXCEPT ![New(nodes)].data = pop_value]
         /\ type \notin {"JSON_OBJECT", "JSON_ARRAY"}
  <2>1. CASE json_analyze_empty
    BY <2>1 DEF json_analyze_empty
  <2>2. CASE json_analyze_value
    <3>1. type \notin {"JSON_OBJECT", "JSON_ARRAY"}
      BY <2>2 DEF json_analyze_value, types
    <3>2. QED
      BY <2>2, <3>1 DEF json_analyze_value
  <2>3. QED
    BY <2>1, <2>2
<1> HIDE DEF type
<1>4. PICK D : Sorted(nodes, D, freed, lost, InUse)
  BY DEF LeaksInv
<1>5. /\ HeapInv(new) /\ Len(new) = Len(nodes) + 1 /\ new[Len(nodes) + 1].type = type
  BY <1>2, HeapCreate
<1>6. Sorted(new, D, freed, lost, U)
  BY <1>2, <1>4, SortedCreate
<1> HIDE DEF new
<1>7. Sorted(nodes', D, freed', lost', U)
  <2>1. CASE nodes' = new
    BY <1>1, <1>6, <2>1
  <2>2. CASE /\ nodes' = [new EXCEPT ![New(nodes)].data = pop_value]
             /\ type \notin {"JSON_OBJECT", "JSON_ARRAY"}
    <3>1. New(nodes) \in 1 .. Len(new) /\ New(nodes) = Len(nodes) + 1
      BY <1>2, <1>5 DEF New
    <3>2. new[New(nodes)].type \notin {"JSON_OBJECT", "JSON_ARRAY"}
      BY <1>5, <2>2, <3>1
    <3>3. Sorted([new EXCEPT ![New(nodes)].data = pop_value], D, freed, lost, U)
      BY <1>5, <1>6, <3>1, <3>2, SortedValue
    <3>4. QED
      BY <1>1, <2>2, <3>3
  <2>3. QED
    BY <1>3, <2>1, <2>2
<1>8. InUse' = U
  <2>1. New(nodes) # NULL
    BY <1>2 DEF New, NULL
  <2>2. QED
    BY <1>1, <2>1 DEF InUse
<1> HIDE DEF U
<1>9. QED
  BY <1>1, <1>7, <1>8, LeaksTo

(* A call that creates a node and waits for the first child of it          *)
LEMMA LeaksOpen ==
  ASSUME TreesInv, LeaksInv, json_analyze_open
  PROVE  LeaksInv'
<1> DEFINE top == [node |-> New(nodes), key |-> Nothing]
           U == InUse \cup {New(nodes)}
<1>1. /\ pc = "analyze" /\ pc' \in {"member", "analyze"} /\ root' = root
      /\ freed' = freed /\ frames' = Append(frames, top) /\ lost' = lost
      /\ nodes' = json_node_create(nodes, types(Token(0)))
  BY DEF json_analyze_open, Analyzes
<1>2. HeapInv(nodes) /\ Len(nodes) \in Nat /\ IsSeq(frames)
  BY SeqAny DEF TreesInv, HeapInv, FramesInv
<1>3. PICK D : Sorted(nodes, D, freed, lost, InUse)
  BY DEF LeaksInv
<1>4. Sorted(nodes', D, freed', lost', U)
  BY <1>1, <1>2, <1>3, SortedCreate
<1>5. FrameNodes(frames') = FrameNodes(frames) \cup {top.node}
  BY <1>1, <1>2, FramesOpen
<1>6. InUse' = U
  <2>1. New(nodes) # NULL /\ top.node = New(nodes)
    BY <1>2 DEF New, NULL
  <2>2. QED
    BY <1>1, <1>5, <2>1 DEF InUse
<1> HIDE DEF U
<1>7. QED
  BY <1>1, <1>4, <1>6, LeaksTo

(* The innermost call returns.                                             *)
LEMMA UsedClose ==
  ASSUME TreesInv, pc \in {"member", "return"}, frames # <<>>
  PROVE  /\ Top.node \in FrameNodes(frames) /\ Top.node # NULL
         /\ pc = "return" /\ ret # NULL => ret \notin FrameNodes(frames) /\ ret > Top.node
         /\ nodes[Top.node].type \in {"JSON_OBJECT", "JSON_ARRAY"}
         /\ FrameNodes(Front(frames)) = FrameNodes(frames) \ {Top.node}
<1> DEFINE N == Len(frames)
<1>1. IsSeq(frames) /\ N \in Nat /\ N \in 1 .. N
  <2>1. IsSeq(frames)
    BY DEF TreesInv, FramesInv
  <2>2. QED
    BY <2>1, SeqAny
<1>2. /\ \A i \in 1 .. N : frames[i].node \in Nat \ {0}
      /\ \A i, j \in 1 .. N : i < j => frames[i].node < frames[j].node
      /\ nodes[Top.node].type \in {"JSON_OBJECT", "JSON_ARRAY"}
  <2>1. /\ \A i \in 1 .. N : IsRoot(nodes, frames[i].node)
        /\ \A i \in 1 .. N : nodes[frames[i].node].type \in {"JSON_OBJECT", "JSON_ARRAY"}
        /\ \A i, j \in 1 .. N : i < j => frames[i].node < frames[j].node
    BY DEF TreesInv, FramesInv
  <2>2. \A i \in 1 .. N : frames[i].node \in Nat \ {0}
    BY <2>1 DEF IsRoot
  <2>3. nodes[Top.node].type \in {"JSON_OBJECT", "JSON_ARRAY"}
    BY <1>1, <2>1 DEF Top
  <2>4. QED
    BY <2>1, <2>2, <2>3
<1>3. \A i, j \in 1 .. N : frames[i].node = frames[j].node => i = j
  <2>1. ASSUME NEW i \in 1 .. N, NEW j \in 1 .. N, frames[i].node = frames[j].node
        PROVE  i = j
    <3>1. ~(i < j) /\ ~(j < i)
      BY <1>2, <2>1
    <3>2. QED
      BY <1>1, <3>1
  <2>2. QED
    BY <2>1
<1>4. FrameNodes(Front(frames)) = FrameNodes(frames) \ {Top.node}
  BY <1>1, <1>3, FramesClose DEF Top
<1>5. ASSUME pc = "return", ret # NULL
      PROVE  ret \notin FrameNodes(frames) /\ ret > Top.node
  <2>1. /\ ret \in Nat /\ \A i \in 1 .. N : frames[i].node < ret
    BY <1>5 DEF TreesInv, FramesInv, IsRoot
  <2>2. ret \notin FrameNodes(frames)
    BY <1>2, <2>1 DEF FrameNodes
  <2>3. Top.node < ret /\ Top.node \in Nat
    BY <1>1, <1>2, <2>1 DEF Top
  <2>4. QED
    BY <2>1, <2>2, <2>3
<1>6. QED
  BY <1>1, <1>2, <1>4, <1>5 DEF Top, FrameNodes, NULL

(* A call that fails destroys its node, which has all the children it got. *)
LEMMA LeaksFailed ==
  ASSUME TreesInv, LeaksInv, json_analyze_not_a_name \/ json_analyze_failed
  PROVE  LeaksInv'
<1>1. /\ pc \in {"member", "return"} /\ (pc = "return" => ret = NULL) /\ frames # <<>>
      /\ freed' = freed \o json_node_destroy(nodes, Top.node) /\ frames' = Front(frames)
      /\ pc' = "return" /\ ret' = NULL /\ nodes' = nodes /\ root' = root /\ lost' = lost
  BY DEF json_analyze_not_a_name, json_analyze_failed, Fails, Returns, TreesInv, RootInv
<1>2. HeapInv(nodes) /\ root = NULL /\ InUse = FrameNodes(frames)
  BY <1>1, UsedParsing
<1>3. Top.node \in FrameNodes(frames) /\ NULL \notin FrameNodes(frames)
      /\ FrameNodes(Front(frames)) = FrameNodes(frames) \ {Top.node}
  BY <1>1, <1>2, UsedClose DEF InUse
<1>4. PICK D : Sorted(nodes, D, freed, lost, FrameNodes(frames))
  BY <1>2 DEF LeaksInv
<1> DEFINE E == D \cup Tree(nodes, Top.node)
           U == FrameNodes(frames) \ {Top.node}
<1>5. Sorted(nodes', E, freed', lost', U)
  BY <1>1, <1>2, <1>3, <1>4, SortedDestroy
<1>6. InUse' = U
  BY <1>1, <1>2, <1>3 DEF InUse
<1> HIDE DEF E, U
<1>7. QED
  BY <1>1, <1>5, <1>6, LeaksTo

(* The object whose name has no colon after it is lost.                    *)
LEMMA LeaksNoColon ==
  ASSUME TreesInv, LeaksInv, json_analyze_no_colon
  PROVE  LeaksInv'
<1>1. /\ pc = "member" /\ pc' = "return" /\ ret' = NULL /\ frames' = Front(frames)
      /\ nodes' = nodes /\ root' = root /\ freed' = freed /\ lost' = lost \cup {Top.node}
      /\ frames # <<>>
  BY DEF json_analyze_no_colon, Returns, TreesInv, RootInv
<1>2. root = NULL /\ InUse = FrameNodes(frames)
  BY <1>1, UsedParsing
<1>3. Top.node \in FrameNodes(frames) /\ NULL \notin FrameNodes(frames)
      /\ FrameNodes(Front(frames)) = FrameNodes(frames) \ {Top.node}
  BY <1>1, <1>2, UsedClose DEF InUse
<1>4. PICK D : Sorted(nodes, D, freed, lost, FrameNodes(frames))
  BY <1>2 DEF LeaksInv
<1> DEFINE U == FrameNodes(frames) \ {Top.node}
<1>5. Sorted(nodes', D, freed', lost', U)
  BY <1>1, <1>3, <1>4, SortedLose
<1>6. InUse' = U
  BY <1>1, <1>2, <1>3 DEF InUse
<1> HIDE DEF U
<1>7. QED
  BY <1>1, <1>5, <1>6, LeaksTo

(* A value goes out of use when it is stored.                              *)
LEMMA LeaksNext ==
  ASSUME TreesInv, LeaksInv, json_analyze_next
  PROVE  LeaksInv'
<1> DEFINE F == FrameNodes(frames)
<1>1. /\ pc = "return" /\ frames # <<>> /\ ret # NULL /\ nodes' = Stored(nodes)
      /\ root' = root /\ lost' = lost \cup Overwritten(nodes, Top.node, nodes')
  BY DEF json_analyze_next
<1>2. HeapInv(nodes) /\ root = NULL /\ InUse = F \cup {ret} /\ F \subseteq 1 .. Len(nodes)
  BY <1>1, UsedParsing
<1>3. /\ Top.node \in F /\ Top.node # NULL /\ ret \notin F /\ ret > Top.node
      /\ nodes[Top.node].type \in {"JSON_OBJECT", "JSON_ARRAY"}
      /\ FrameNodes(Front(frames)) = F \ {Top.node}
  BY <1>1, UsedClose
<1>4. NULL \notin F
  BY <1>2 DEF NULL
<1> HIDE DEF F
<1>5. PICK D : Sorted(nodes, D, freed, lost, F \cup {ret})
  BY <1>2 DEF LeaksInv
<1>6. (F \cup {ret}) \ {ret} = F /\ Top.node \in 1 .. Len(nodes)
  BY <1>2, <1>3
<1>7. Top.node \notin D
  BY <1>3, <1>5 DEF Sorted
<1>8. Sorted(nodes', D, freed, lost', F) /\ HeapInv(nodes')
  <2> DEFINE U == F \cup {ret}
  <2>1. ret \in U /\ U \ {ret} = F
    BY <1>6
  <2> HIDE DEF U
  <2>2. Sorted(nodes, D, freed, lost, U)
    BY <1>5 DEF U
  <2>3. CASE IsObject(Top)
    <3>1. nodes[Top.node].type = "JSON_OBJECT"
      BY <2>3 DEF IsObject
    <3> DEFINE new == json_node_putn(nodes, Top.node, Top.key, ret)
    <3>2. /\ Sorted(new, D, freed, lost \cup Overwritten(nodes, Top.node, new), U \ {ret})
          /\ HeapInv(new)
      BY <1>2, <1>3, <1>6, <1>7, <2>1, <2>2, <3>1, SortedPut
    <3>3. nodes' = new
      BY <1>1, <2>3 DEF Stored
    <3> HIDE DEF new
    <3>4. QED
      BY <1>1, <2>1, <3>2, <3>3
  <2>4. CASE ~IsObject(Top)
    <3>1. nodes[Top.node].type = "JSON_ARRAY"
      BY <1>3, <2>4 DEF IsObject
    <3> DEFINE new == json_node_addn(nodes, Top.node, ret)
    <3>2. /\ Sorted(new, D, freed, lost, U \ {ret})
          /\ Overwritten(nodes, Top.node, new) = {}
          /\ HeapInv(new)
      BY <1>2, <1>3, <1>6, <1>7, <2>1, <2>2, <3>1, SortedAdd
    <3>3. nodes' = new
      BY <1>1, <2>4 DEF Stored
    <3> HIDE DEF new
    <3>4. lost' = lost
      BY <1>1, <3>2, <3>3
    <3>5. QED
      BY <2>1, <3>2, <3>3, <3>4
  <2>5. QED
    BY <2>3, <2>4
<1>9. CASE pc' \in {"member", "analyze"} /\ freed' = freed /\ frames' = frames
  <2>1. InUse' = F
    BY <1>1, <1>2, <1>4, <1>9 DEF InUse, F
  <2>2. QED
    BY <1>8, <1>9, <2>1, LeaksTo
<1>10. CASE frames' = Front(frames) /\ ret' = Top.node /\ pc' = "return" /\ freed' = freed
  <2>1. InUse' = F
    BY <1>1, <1>2, <1>3, <1>4, <1>10 DEF InUse
  <2>2. QED
    BY <1>8, <1>10, <2>1, LeaksTo
<1>11. CASE /\ freed' = freed \o json_node_destroy(nodes', Top.node)
            /\ frames' = Front(frames) /\ ret' = NULL /\ pc' = "return"
  <2> DEFINE E == D \cup Tree(nodes', Top.node)
             U == F \ {Top.node}
  <2>1. Sorted(nodes', E, freed', lost', U)
    BY <1>3, <1>8, <1>11, SortedDestroy
  <2>2. InUse' = U
    BY <1>1, <1>2, <1>3, <1>4, <1>11 DEF InUse
  <2> HIDE DEF E, U
  <2>3. QED
    BY <1>11, <2>1, <2>2, LeaksTo
<1>12. QED
  BY <1>9, <1>10, <1>11 DEF json_analyze_next, Returns

(* Every step keeps the invariant.                                         *)
LEMMA LeaksStep == LeaksInv /\ TreesInv /\ TreesInv' /\ [Next]_vars => LeaksInv'
<1> SUFFICES ASSUME LeaksInv, TreesInv, TreesInv', [Next]_vars PROVE LeaksInv'
  OBVIOUS
<1>1. CASE UNCHANGED vars
  BY <1>1 DEF vars, heapVars, LeaksInv, InUse
<1>2. CASE Building
  BY <1>2, LeaksCreate, LeaksPut, LeaksAdd, LeaksSet DEF Building
<1>3. CASE json_stringify \/ json_destroy \/ json_parse \/ json_set_root
  BY <1>3, LeaksStringify, LeaksDestroy, LeaksParse, LeaksSetRoot
<1>4. CASE lex_token \/ lex_number \/ lex_number_restores \/ lex_end \/ lex_aborts
  BY <1>4, LeaksLex
<1>5. CASE \/ json_analyze_deep \/ json_analyze_unexpected \/ json_analyze_value
           \/ json_analyze_empty \/ json_analyze_open \/ json_analyze_name
           \/ json_analyze_not_a_name \/ json_analyze_no_colon \/ json_analyze_failed
           \/ json_analyze_next
  BY <1>5, LeaksNothing, LeaksNew, LeaksOpen, LeaksName, LeaksFailed, LeaksNoColon, LeaksNext
<1>6. QED
  BY <1>1, <1>2, <1>3, <1>4, <1>5 DEF Next, Parsing

(* Every root is dead, lost or in use, and the tables of the dead trees    *)
(* were freed (json_node_destroy, dict_put, dict_foreach).                 *)
THEOREM LeaksCorrect == Spec => []LeaksInv
<1>1. TreesInv /\ [Next]_vars => TreesInv'
  BY TreesStep
<1>2. QED
  BY LeaksInit, LeaksStep, <1>1, TreesCorrect, PTL DEF Spec

(* The tables of all objects are freed once, whatever is built or parsed,  *)
(* but for those under a name that was put again and those of an object    *)
(* whose name has no colon (json_node_destroy, json_analyze_obj).          *)
THEOREM TablesFreedOnceCorrect == Spec => []TablesFreedOnce
<1>1. LeaksInv /\ TreesInv => NoTableLeaks
  <2> SUFFICES ASSUME LeaksInv, TreesInv, pc \in {"sent", "over"} \/ (pc = "done" /\ root = NULL)
               PROVE  Range(freed) = {n \in DOMAIN nodes : nodes[n].type = "JSON_OBJECT"} \ Leaked
    BY DEF NoTableLeaks
  <2>1. root = NULL /\ frames = <<>> /\ HeapInv(nodes)
    BY DEF LeaksInv, TreesInv, RootInv
  <2>2. InUse = {}
    BY <2>1, NoFrames DEF InUse
  <2>3. PICK D : Sorted(nodes, D, freed, lost, {})
    BY <2>2 DEF LeaksInv
  <2>4. QED
    BY <2>1, <2>3, SortedOver DEF Leaked
<1>2. QED
  BY <1>1, LeaksCorrect, TreesCorrect, NoDoubleFreeCorrect, PTL DEF TablesFreedOnce
-----------------------------------------------------------------------------
(* How many of the first lexemes have a value, one by one                  *)
LEMMA ValuedNat ==
  ASSUME NEW l, NEW n \in Nat
  PROVE  Valued(l, n) \in Nat /\ IsFiniteSet({i \in 1 .. n : token_has_value(l[i].tok)})
<1> DEFINE V == {i \in 1 .. n : token_has_value(l[i].tok)}
<1>1. IsFiniteSet(1 .. n)
  BY FS_Interval
<1>2. V \in SUBSET (1 .. n)
  OBVIOUS
<1>3. Valued(l, n) = Cardinality(V)
  BY DEF Valued
<1> HIDE DEF V
<1>4. IsFiniteSet(V) /\ Cardinality(V) \in Nat
  BY <1>1, <1>2, FS_Subset, FS_CardinalityType
<1>5. QED
  BY <1>3, <1>4 DEF V

LEMMA ValuedZero ==
  ASSUME NEW l
  PROVE  Valued(l, 0) = 0
<1>1. {i \in 1 .. 0 : token_has_value(l[i].tok)} = {}
  OBVIOUS
<1>2. QED
  BY <1>1, FS_EmptySet DEF Valued

LEMMA ValuedNext ==
  ASSUME NEW l, NEW n \in Nat
  PROVE  Valued(l, n + 1) = IF token_has_value(l[n + 1].tok)
                            THEN Valued(l, n) + 1
                            ELSE Valued(l, n)
<1> DEFINE has(i) == token_has_value(l[i].tok)
           V == {i \in 1 .. n : has(i)}
           W == {i \in 1 .. n + 1 : has(i)}
<1>1. IsFiniteSet(V)
  BY ValuedNat
<1>2. Valued(l, n) = Cardinality(V) /\ Valued(l, n + 1) = Cardinality(W)
  BY DEF Valued
<1> HIDE DEF has
<1>3. has(n + 1) <=> token_has_value(l[n + 1].tok)
  BY DEF has
<1>4. CASE has(n + 1)
  <2>1. W = V \cup {n + 1} /\ n + 1 \notin V
    BY <1>4
  <2> HIDE DEF V, W
  <2>2. Cardinality(W) = Cardinality(V) + 1
    BY <1>1, <2>1, FS_AddElement
  <2>3. QED
    BY <1>2, <1>3, <1>4, <2>2
<1>5. CASE ~has(n + 1)
  <2>1. W = V
    BY <1>5
  <2> HIDE DEF V, W
  <2>2. QED
    BY <1>2, <1>3, <1>5, <2>1
<1>6. QED
  BY <1>4, <1>5

LEMMA ValuedSame ==
  ASSUME NEW l, NEW m, NEW n \in Nat, \A i \in 1 .. n : l[i] = m[i]
  PROVE  Valued(l, n) = Valued(m, n)
<1>1. {i \in 1 .. n : token_has_value(l[i].tok)} = {i \in 1 .. n : token_has_value(m[i].tok)}
  OBVIOUS
<1>2. QED
  BY <1>1 DEF Valued

LEMMA ValuedGrows ==
  ASSUME NEW l, NEW n \in Nat, NEW m \in 0 .. n
  PROVE  Valued(l, m) <= Valued(l, n)
<1> DEFINE V == {i \in 1 .. m : token_has_value(l[i].tok)}
           W == {i \in 1 .. n : token_has_value(l[i].tok)}
<1>1. IsFiniteSet(W)
  BY ValuedNat
<1>2. V \in SUBSET W
  OBVIOUS
<1>3. Valued(l, m) = Cardinality(V) /\ Valued(l, n) = Cardinality(W)
  BY DEF Valued
<1> HIDE DEF V, W
<1>4. QED
  BY <1>1, <1>2, <1>3, FS_Subset

(* A growing vector, whatever its elements are                             *)
AnyVect(v) == \E T : VectInv(v, T)

LEMMA VectAddAny ==
  ASSUME NEW v, AnyVect(v), NEW e
  PROVE  /\ v.size \in Nat
         /\ AnyVect(vect_add(v, e)) /\ vect_add(v, e).size = v.size + 1
         /\ \A i \in Nat : i < v.size => vect_get(vect_add(v, e), i) = vect_get(v, i)
         /\ vect_get(vect_add(v, e), v.size) = e
<1>1. PICK S : VectInv(v, S)
  BY DEF AnyVect
<1> DEFINE T == S \cup {e}
<1>2. VectInv(v, T)
  <2>1. v \in Vectors(S)
    BY <1>1 DEF VectInv
  <2>2. v \in Vectors(T)
    <3>1. \A s \in Seq(S) : s \in Seq(T)
      OBVIOUS
    <3> DEFINE A == Seq(S)
               B == Seq(T)
    <3>2. \A s \in Seq(A) : s \in Seq(B)
      <4> HIDE DEF A, B
      <4>1. \A s \in A : s \in B
        BY <3>1 DEF A, B
      <4>2. QED
        BY <4>1
    <3>3. QED
      BY <2>1, <3>2 DEF Vectors
  <2>3. QED
    BY <1>1, <2>2 DEF VectInv
<1>3. e \in T /\ v.size \in Nat
  BY <1>1 DEF VectInv, Vectors
<1> HIDE DEF T
<1> DEFINE w == vect_add(v, e)
<1>4. /\ VectInv(w, T)
      /\ w.size = v.size + 1
      /\ \A i \in Nat : i < v.size => vect_get(w, i) = vect_get(v, i)
      /\ vect_get(w, v.size) = e
  BY <1>2, <1>3, VectAdd
<1>5. QED
  BY <1>3, <1>4 DEF AnyVect
(* The inductive invariant for TokensInStep: the tokens and values in the  *)
(* two lists are those of a sequence of lexemes.                           *)
Agrees(list, values, seen) ==
    /\ IsSeq(seen) /\ AnyVect(list) /\ AnyVect(values)
    /\ list.size = Len(seen)
    /\ \A i \in 1 .. Len(seen) : vect_get(list, i - 1) = seen[i].tok
    /\ values.size = Valued(seen, Len(seen))
    /\ \A i \in 1 .. Len(seen) :
           token_has_value(seen[i].tok) => vect_get(values, Valued(seen, i) - 1) = seen[i].val

LEMMA AgreesInit ==
  Agrees(vect_init_dynamic(16, "TOK_LBRACE"), vect_init_dynamic(4, Nothing), <<>>)
<1>1. IsSeq(<<>>) /\ Len(<<>>) = 0 /\ 1 .. 0 = {}
  BY EmptySeq DEF IsSeq
<1>2. Valued(<<>>, 0) = 0
  BY ValuedZero
<1> DEFINE list == vect_init_dynamic(16, "TOK_LBRACE")
           values == vect_init_dynamic(4, Nothing)
<1>3. VectInv(list, {"TOK_LBRACE"}) /\ list.size = 0
  BY VectInit
<1>4. VectInv(values, {Nothing}) /\ values.size = 0
  BY VectInit
<1> HIDE DEF list, values
<1>5. AnyVect(list) /\ AnyVect(values)
  BY <1>3, <1>4 DEF AnyVect
<1>6. Agrees(list, values, <<>>)
  BY <1>1, <1>2, <1>3, <1>4, <1>5 DEF Agrees
<1>7. QED
  BY <1>6 DEF list, values

(* json_lex adds a token, and its value if it has one.                     *)
LEMMA AgreesAdd ==
  ASSUME NEW list, NEW values, NEW seen, Agrees(list, values, seen), NEW lexeme
  PROVE  Agrees(vect_add(list, lexeme.tok),
                IF token_has_value(lexeme.tok) THEN vect_add(values, lexeme.val) ELSE values,
                Append(seen, lexeme))
<1> DEFINE tok == lexeme.tok
           val == lexeme.val
           new == Append(seen, lexeme)
           longer == vect_add(list, tok)
           more == vect_add(values, val)
           result == IF token_has_value(tok) THEN more ELSE values
           L == Len(seen)
<1>1. IsSeq(seen) /\ AnyVect(list) /\ AnyVect(values) /\ L \in Nat
  BY SeqAny DEF Agrees
<1>2. /\ IsSeq(new) /\ Len(new) = L + 1
      /\ \A i \in 1 .. L : new[i] = seen[i]
      /\ new[L + 1] = lexeme
  BY <1>1, AppendAny
<1> HIDE DEF new
<1>3. /\ AnyVect(longer) /\ longer.size = list.size + 1
      /\ \A i \in Nat : i < list.size => vect_get(longer, i) = vect_get(list, i)
      /\ vect_get(longer, list.size) = tok
  BY <1>1, VectAddAny
<1>4. /\ values.size \in Nat
      /\ AnyVect(more) /\ more.size = values.size + 1
      /\ \A i \in Nat : i < values.size => vect_get(more, i) = vect_get(values, i)
      /\ vect_get(more, values.size) = val
  BY <1>1, VectAddAny
<1> HIDE DEF longer, more, tok, val
<1>5. list.size = L /\ values.size = Valued(seen, L)
  BY DEF Agrees
<1>6. \A i \in 1 .. Len(new) : i \in 1 .. L \/ i = L + 1
  BY <1>1, <1>2
<1>7. ASSUME NEW i \in 1 .. Len(new)
      PROVE  vect_get(longer, i - 1) = new[i].tok
  <2>1. CASE i \in 1 .. L
    <3>1. i - 1 \in Nat /\ i - 1 < list.size
      BY <1>1, <1>5, <2>1
    <3>2. vect_get(longer, i - 1) = vect_get(list, i - 1)
      BY <1>3, <3>1
    <3>3. vect_get(list, i - 1) = seen[i].tok
      BY <2>1 DEF Agrees
    <3>4. QED
      BY <1>2, <2>1, <3>2, <3>3
  <2>2. CASE i = L + 1
    <3>1. i - 1 = list.size
      BY <1>1, <1>5, <2>2
    <3>2. QED
      BY <1>2, <1>3, <2>2, <3>1 DEF tok
  <2>3. QED
    BY <1>6, <2>1, <2>2
<1>8. \A i \in 0 .. L : Valued(new, i) = Valued(seen, i)
  <2>1. ASSUME NEW i \in 0 .. L
        PROVE  Valued(new, i) = Valued(seen, i)
    <3>1. i \in Nat /\ \A j \in 1 .. i : j \in 1 .. L
      BY <1>1
    <3>2. \A j \in 1 .. i : new[j] = seen[j]
      BY <1>2, <3>1
    <3>3. QED
      BY <3>1, <3>2, ValuedSame
  <2>2. QED
    BY <2>1
<1>9. Valued(new, L) = Valued(seen, L) /\ Valued(seen, L) \in Nat
  <2>1. L \in 0 .. L
    BY <1>1
  <2>2. Valued(seen, L) \in Nat
    BY <1>1, ValuedNat
  <2> HIDE DEF L
  <2>3. QED
    BY <1>8, <2>1, <2>2
<1>10. Valued(new, L + 1) = IF token_has_value(tok) THEN Valued(seen, L) + 1 ELSE Valued(seen, L)
  BY <1>1, <1>2, <1>9, ValuedNext DEF tok
<1>11. AnyVect(result) /\ result.size = Valued(new, L + 1)
  BY <1>1, <1>4, <1>5, <1>10
<1>12. \A i \in Nat : i < values.size => vect_get(result, i) = vect_get(values, i)
  BY <1>4
<1>13. token_has_value(tok) => vect_get(result, Valued(seen, L)) = val
  BY <1>4, <1>5
<1> HIDE DEF result
<1>14. ASSUME NEW i \in 1 .. Len(new), token_has_value(new[i].tok)
       PROVE  vect_get(result, Valued(new, i) - 1) = new[i].val
  <2>1. CASE i \in 1 .. L
    <3> DEFINE V == Valued(seen, i)
               W == Valued(seen, i - 1)
               Z == Valued(seen, L)
    <3>1. i \in Nat /\ i - 1 \in Nat /\ (i - 1) + 1 = i /\ i \in 0 .. L
      BY <1>1, <2>1
    <3>2. new[i] = seen[i] /\ Valued(new, i) = V
      BY <1>2, <1>8, <2>1, <3>1
    <3>3. V = W + 1 /\ W \in Nat
      BY <1>14, <3>1, <3>2, ValuedNat, ValuedNext
    <3>4. V <= Z /\ Z \in Nat
      BY <1>1, <3>1, ValuedGrows, ValuedNat
    <3>5. vect_get(values, V - 1) = seen[i].val
      BY <1>14, <2>1, <3>2 DEF Agrees
    <3> HIDE DEF V, W, Z
    <3>6. V - 1 \in Nat /\ V - 1 < Z
      BY ONLY <3>3, <3>4
    <3>7. values.size = Z
      BY <1>5 DEF Z
    <3>8. vect_get(result, V - 1) = vect_get(values, V - 1)
      BY <1>12, <3>6, <3>7
    <3>9. QED
      BY <3>2, <3>5, <3>8
  <2>2. CASE i = L + 1
    <3>1. token_has_value(tok) /\ new[i].val = val
      BY <1>2, <1>14, <2>2 DEF tok, val
    <3>2. Valued(new, i) - 1 = Valued(seen, L)
      BY <1>9, <1>10, <2>2, <3>1
    <3>3. QED
      BY <1>13, <3>1, <3>2
  <2>3. QED
    BY <1>6, <2>1, <2>2
<1>15. longer.size = Len(new) /\ result.size = Valued(new, Len(new))
  BY <1>2, <1>3, <1>5, <1>11
<1>16. Agrees(longer, result, new)
  BY <1>2, <1>3, <1>7, <1>11, <1>14, <1>15 DEF Agrees
<1>17. QED
  BY <1>16 DEF longer, more, result, new, tok, val

(* Nothing was lexed yet.                                                  *)
Fresh ==
    /\ tok_list = vect_init_dynamic(16, "TOK_LBRACE") /\ tok_values = vect_init_dynamic(4, Nothing)
    /\ idx = 0 /\ val_idx = 0 /\ ret = NULL

(* The document is what was lexed and the input.                           *)
InputInv ==
    /\ IsSeq(input) /\ Len(input) <= Len(source)
    /\ \A i \in 1 .. Len(input) : input[i] = source[Len(source) - Len(input) + i]
    /\ \/ vect_size(tok_list) = Len(source) - Len(input)
       \/ input = <<>> /\ vect_size(tok_list) = Len(source) + 1
    /\ pc \in {"lex", "corrupted", "aborted"} => vect_size(tok_list) = Len(source) - Len(input)
    /\ pc \in {"analyze", "member", "return"} => vect_size(tok_list) = Len(source) + 1

(* While there is something to parse, TOK_EOF is not behind the parser.    *)
PlaceInv ==
    /\ idx \in 0 .. Len(Seen) /\ val_idx \in Nat
    /\ pc = "lex" => idx = 0 /\ val_idx = 0 /\ ret = NULL
    /\ pc \in {"analyze", "member"} \/ (pc = "return" /\ ret # NULL) => idx < Len(Seen)
    /\ pc \in {"lex", "analyze", "member"} \/ ret # NULL => val_idx = Valued(Seen, idx)

NoMinus == \A i \in DOMAIN source : source[i].tok # "MINUS"
NotParsing == pc \in {"idle", "build", "printed", "sent"}

TokensInv ==
    /\ IsSeq(source)
    /\ NotParsing => Fresh
    /\ ~NotParsing /\ NoMinus => InputInv /\ PlaceInv /\ Agrees(tok_list, tok_values, Seen)

LEMMA TokensInit == Init => TokensInv
<1>1. IsSeq(<<>>)
  BY EmptySeq DEF IsSeq
<1>2. QED
  BY <1>1 DEF Init, TokensInv, Fresh, NotParsing

(* What is seen of a document, by what is left of it and the tokens        *)
LexedOf(doc, rest) == SubSeq(doc, 1, Len(doc) - Len(rest))
SeenOf(doc, rest, size) ==
    IF size > Len(LexedOf(doc, rest)) THEN Append(LexedOf(doc, rest), Mark("TOK_EOF"))
                                      ELSE LexedOf(doc, rest)

LEMMA SeenIs ==
  /\ Seen = SeenOf(source, input, vect_size(tok_list))
  /\ Seen' = SeenOf(source', input', vect_size(tok_list'))
BY DEF Seen, Lexed, SeenOf, LexedOf, vect_size

LEMMA LexedIs ==
  ASSUME NEW doc, IsSeq(doc), NEW rest, IsSeq(rest), Len(rest) <= Len(doc)
  PROVE  /\ IsSeq(LexedOf(doc, rest)) /\ Len(LexedOf(doc, rest)) = Len(doc) - Len(rest)
         /\ Len(doc) - Len(rest) \in Nat
         /\ \A i \in 1 .. Len(doc) - Len(rest) : LexedOf(doc, rest)[i] = doc[i]
<1> DEFINE n == Len(doc) - Len(rest)
<1>1. Len(doc) \in Nat /\ Len(rest) \in Nat /\ Len(rest) <= Len(doc)
  BY SeqAny
<1>2. n \in Nat /\ n <= Len(doc)
  BY <1>1
<1>3. PICK S : doc \in Seq(S)
  BY DEF IsSeq
<1>4. LexedOf(doc, rest) = SubSeq(doc, 1, n)
  BY DEF LexedOf
<1> HIDE DEF n
<1>5. /\ SubSeq(doc, 1, n) \in Seq(S) /\ Len(SubSeq(doc, 1, n)) = n
      /\ \A i \in 1 .. n : SubSeq(doc, 1, n)[i] = doc[i]
  BY <1>1, <1>2, <1>3
<1>6. IsSeq(LexedOf(doc, rest)) /\ Len(LexedOf(doc, rest)) = n
      /\ \A i \in 1 .. n : LexedOf(doc, rest)[i] = doc[i]
  BY <1>4, <1>5 DEF IsSeq
<1>7. QED
  BY <1>2, <1>6 DEF n

(* Before anything is lexed                                                *)
LEMMA TokensParse ==
  ASSUME TokensInv, json_parse
  PROVE  TokensInv'
<1>1. /\ NotParsing /\ pc' = "lex" /\ input' = source'
      /\ source' \in Documents \/ source' = source
      /\ tok_list' = tok_list /\ tok_values' = tok_values /\ idx' = idx /\ val_idx' = val_idx
      /\ ret' = ret
  BY DEF json_parse, NotParsing, infoVars
<1>2. Fresh /\ IsSeq(source)
  BY <1>1 DEF TokensInv
<1>3. IsSeq(source')
  BY <1>1, <1>2, JsonAssumption DEF IsSeq
<1>4. Len(source') \in Nat /\ Len(input') = Len(source') /\ Len(source') - Len(source') = 0
  BY <1>1, <1>3, SeqAny
<1>5. vect_size(tok_list') = 0
  <2> DEFINE list == vect_init_dynamic(16, "TOK_LBRACE")
  <2>1. VectInv(list, {"TOK_LBRACE"}) /\ list.size = 0
    BY VectInit
  <2>2. QED
    BY <1>1, <1>2, <2>1 DEF Fresh, vect_size
<1>6. InputInv'
  <2>1. \A i \in 1 .. Len(input') : Len(source') - Len(input') + i = i
    BY <1>4
  <2>2. Len(input') <= Len(source') /\ Len(source') - Len(input') = 0
    BY <1>4
  <2>3. QED
    BY <1>1, <1>3, <1>5, <2>1, <2>2 DEF InputInv
<1>7. IsSeq(LexedOf(source', input')) /\ Len(LexedOf(source', input')) = 0
  <2>1. Len(input') <= Len(source') /\ Len(source') - Len(input') = 0
    BY <1>4
  <2>2. QED
    BY <1>1, <1>3, <2>1, LexedIs
<1>8. Seen' = <<>>
  <2>1. LexedOf(source', input') = <<>>
    BY <1>7, SeqAny
  <2>2. QED
    BY <1>5, <1>7, <2>1, SeenIs DEF SeenOf
<1>9. Agrees(tok_list', tok_values', Seen')
  BY <1>1, <1>2, <1>8, AgreesInit DEF Fresh
<1>10. PlaceInv'
  <2>1. Len(<<>>) = 0 /\ Valued(<<>>, 0) = 0 /\ 0 \in 0 .. 0
    BY EmptySeq, ValuedZero
  <2>2. QED
    BY <1>1, <1>2, <1>8, <2>1 DEF PlaceInv, Fresh
<1>11. QED
  BY <1>1, <1>3, <1>6, <1>9, <1>10 DEF TokensInv, NotParsing

LEMMA SeqSame ==
  ASSUME NEW s, IsSeq(s), NEW t, IsSeq(t), Len(s) = Len(t), \A i \in 1 .. Len(s) : s[i] = t[i]
  PROVE  s = t
<1>1. s = [i \in 1 .. Len(s) |-> s[i]] /\ t = [i \in 1 .. Len(t) |-> t[i]]
  BY SeqAny
<1>2. [i \in 1 .. Len(s) |-> s[i]] = [i \in 1 .. Len(t) |-> t[i]]
  OBVIOUS
<1>3. QED
  BY <1>1, <1>2

(* The next lexeme is read from the document.                              *)
LEMMA LexedNext ==
  ASSUME NEW doc, IsSeq(doc), NEW rest, IsSeq(rest), rest # <<>>, Len(rest) <= Len(doc),
         \A i \in 1 .. Len(rest) : rest[i] = doc[Len(doc) - Len(rest) + i]
  PROVE  /\ IsSeq(Tail(rest)) /\ Len(Tail(rest)) = Len(rest) - 1
         /\ \A i \in 1 .. Len(Tail(rest)) :
                Tail(rest)[i] = doc[Len(doc) - Len(Tail(rest)) + i]
         /\ LexedOf(doc, Tail(rest)) = Append(LexedOf(doc, rest), Head(rest))
         /\ \E i \in DOMAIN doc : Head(rest) = doc[i]
<1> DEFINE L == Len(doc)
           m == Len(rest)
           n == L - m
           next == Tail(rest)
<1>1. L \in Nat /\ DOMAIN doc = 1 .. L /\ m \in Nat /\ m # 0 /\ m <= L
  BY SeqAny
<1>2. /\ IsSeq(next) /\ Len(next) = m - 1 /\ Head(rest) = rest[1]
      /\ \A i \in 1 .. m - 1 : next[i] = rest[i + 1]
  <2>1. PICK S : rest \in Seq(S)
    BY DEF IsSeq
  <2>2. /\ next \in Seq(S) /\ Len(next) = m - 1 /\ Head(rest) = rest[1]
        /\ \A i \in 1 .. m - 1 : next[i] = rest[i + 1]
    BY <2>1
  <2>3. QED
    BY <2>2 DEF IsSeq
<1> HIDE DEF next
<1>3. n \in Nat /\ n + 1 \in 1 .. L /\ L - Len(next) = n + 1 /\ Len(next) <= L
  BY <1>1, <1>2
<1>4. Head(rest) = doc[n + 1]
  <2>1. 1 \in 1 .. m
    BY <1>1
  <2>2. QED
    BY <1>2, <2>1
<1>5. ASSUME NEW i \in 1 .. Len(next)
      PROVE  next[i] = doc[L - Len(next) + i]
  <2>1. i + 1 \in 1 .. m /\ n + (i + 1) = (n + 1) + i /\ i \in 1 .. m - 1
    BY <1>1, <1>2, <1>3
  <2>2. QED
    BY <1>2, <1>3, <2>1
<1>6. /\ IsSeq(LexedOf(doc, rest)) /\ Len(LexedOf(doc, rest)) = n
      /\ \A i \in 1 .. n : LexedOf(doc, rest)[i] = doc[i]
  BY <1>1, LexedIs
<1>7. /\ IsSeq(LexedOf(doc, next)) /\ Len(LexedOf(doc, next)) = n + 1
      /\ \A i \in 1 .. n + 1 : LexedOf(doc, next)[i] = doc[i]
  BY <1>2, <1>3, LexedIs
<1> DEFINE long == Append(LexedOf(doc, rest), Head(rest))
<1>8. /\ IsSeq(long) /\ Len(long) = n + 1
      /\ \A i \in 1 .. n : long[i] = LexedOf(doc, rest)[i]
      /\ long[n + 1] = Head(rest)
  BY <1>6, AppendAny
<1> HIDE DEF long
<1>9. \A i \in 1 .. n + 1 : LexedOf(doc, next)[i] = long[i]
  <2>1. \A i \in 1 .. n + 1 : i \in 1 .. n \/ i = n + 1
    BY <1>3
  <2>2. QED
    BY <1>4, <1>6, <1>7, <1>8, <2>1
<1>10. LexedOf(doc, next) = long
  BY <1>7, <1>8, <1>9, SeqSame
<1>11. QED
  BY <1>1, <1>2, <1>3, <1>4, <1>5, <1>10 DEF long, next

(* While the document is lexed, what is seen is what was lexed.            *)
LEMMA SeenLexing ==
  ASSUME IsSeq(source), InputInv, vect_size(tok_list) = Len(source) - Len(input)
  PROVE  Seen = LexedOf(source, input) /\ Len(Seen) = Len(source) - Len(input)
<1>1. /\ Len(LexedOf(source, input)) = Len(source) - Len(input)
      /\ Len(source) - Len(input) \in Nat
  BY LexedIs DEF InputInv
<1>2. ~(vect_size(tok_list) > Len(LexedOf(source, input)))
  BY <1>1
<1>3. QED
  BY <1>1, <1>2, SeenIs DEF SeenOf

LEMMA TokensLexeme ==
  ASSUME TokensInv, pc = "lex", pc' \in {"lex", "done"}, source' = source,
         input # <<>>, input' = Tail(input),
         tok_list' = vect_add(tok_list, Head(input).tok),
         tok_values' = IF token_has_value(Head(input).tok)
                       THEN vect_add(tok_values, Head(input).val)
                       ELSE tok_values,
         idx' = idx, val_idx' = val_idx, ret' = ret, NoMinus
  PROVE  TokensInv'
<1>1. /\ IsSeq(source) /\ InputInv /\ PlaceInv /\ Agrees(tok_list, tok_values, Seen)
      /\ ~NotParsing'
  BY DEF TokensInv, NotParsing
<1>2. vect_size(tok_list) = Len(source) - Len(input) /\ idx = 0 /\ val_idx = 0 /\ ret = NULL
  BY <1>1 DEF InputInv, PlaceInv
<1>3. Seen = LexedOf(source, input)
  BY <1>1, <1>2, SeenLexing
<1>4. IsSeq(input) /\ Len(input) <= Len(source) /\ Len(input) \in Nat /\ Len(source) \in Nat
  BY <1>1, SeqAny DEF InputInv
<1>5. /\ IsSeq(input') /\ Len(input') = Len(input) - 1
      /\ \A i \in 1 .. Len(input') : input'[i] = source'[Len(source') - Len(input') + i]
      /\ LexedOf(source', input') = Append(LexedOf(source, input), Head(input))
  BY <1>1, <1>4, LexedNext DEF InputInv
<1>6. vect_size(tok_list') = Len(source') - Len(input')
  <2>1. vect_size(tok_list') = vect_size(tok_list) + 1
    BY <1>1, VectAddAny DEF Agrees, vect_size
  <2>2. QED
    BY <1>2, <1>4, <1>5, <2>1
<1>7. InputInv'
  <2>1. Len(input') <= Len(source')
    BY <1>4, <1>5
  <2>2. QED
    BY <1>5, <1>6, <2>1 DEF InputInv
<1>8. Seen' = Append(Seen, Head(input))
  <2>1. /\ Len(LexedOf(source', input')) = Len(source') - Len(input')
        /\ Len(source') - Len(input') \in Nat
    <3>1. IsSeq(source') /\ Len(input') <= Len(source')
      BY <1>1, <1>4, <1>5
    <3>2. QED
      BY <1>5, <3>1, LexedIs
  <2>2. ~(vect_size(tok_list') > Len(LexedOf(source', input')))
    BY <1>6, <2>1
  <2>3. QED
    BY <1>3, <1>5, <2>2, SeenIs DEF SeenOf
<1>9. Agrees(tok_list', tok_values', Seen')
  <2>1. Agrees(vect_add(tok_list, Head(input).tok),
               IF token_has_value(Head(input).tok)
               THEN vect_add(tok_values, Head(input).val)
               ELSE tok_values,
               Append(Seen, Head(input)))
    BY <1>1, AgreesAdd
  <2>2. QED
    BY <1>8, <2>1
<1>10. PlaceInv'
  <2>1. Len(Seen') \in Nat /\ Valued(Seen', 0) = 0 /\ 0 \in 0 .. Len(Seen')
    BY <1>9, SeqAny, ValuedZero DEF Agrees
  <2>2. QED
    BY <1>2, <2>1 DEF PlaceInv
<1>11. QED
  BY <1>1, <1>7, <1>9, <1>10 DEF TokensInv

LEMMA TokensEnd ==
  ASSUME TokensInv, lex_end, NoMinus
  PROVE  TokensInv'
<1>1. /\ pc = "lex" /\ pc' = "analyze" /\ input = <<>> /\ input' = input /\ source' = source
      /\ tok_list' = vect_add(tok_list, "TOK_EOF") /\ tok_values' = tok_values
      /\ idx' = idx /\ val_idx' = val_idx /\ ret' = ret
  BY DEF lex_end, Lexes, textVars, infoVars, token_has_value, Punctuation
<1>2. /\ IsSeq(source) /\ InputInv /\ PlaceInv /\ Agrees(tok_list, tok_values, Seen)
      /\ ~NotParsing'
  BY <1>1 DEF TokensInv, NotParsing
<1>3. vect_size(tok_list) = Len(source) - Len(input) /\ idx = 0 /\ val_idx = 0 /\ ret = NULL
  BY <1>1, <1>2 DEF InputInv, PlaceInv
<1>4. Seen = LexedOf(source, input)
  BY <1>2, <1>3, SeenLexing
<1>5. IsSeq(input) /\ Len(input) = 0 /\ Len(input) <= Len(source) /\ Len(source) \in Nat
  BY <1>1, <1>2, SeqAny DEF InputInv
<1>6. vect_size(tok_list') = Len(source') + 1
  <2>1. vect_size(tok_list') = vect_size(tok_list) + 1
    BY <1>1, <1>2, VectAddAny DEF Agrees, vect_size
  <2>2. QED
    BY <1>1, <1>3, <1>5, <2>1
<1>7. InputInv'
  BY <1>1, <1>2, <1>6 DEF InputInv
<1>8. Seen' = Append(Seen, Mark("TOK_EOF"))
  <2>1. LexedOf(source', input') = Seen /\ Len(Seen) = Len(source)
    BY <1>1, <1>2, <1>4, <1>5, LexedIs
  <2>2. vect_size(tok_list') > Len(LexedOf(source', input'))
    BY <1>1, <1>5, <1>6, <2>1
  <2>3. QED
    BY <2>1, <2>2, SeenIs DEF SeenOf
<1>9. Agrees(tok_list', tok_values', Seen')
  <2> DEFINE lexeme == Mark("TOK_EOF")
  <2>1. lexeme.tok = "TOK_EOF" /\ ~token_has_value("TOK_EOF")
    BY DEF Mark, token_has_value, Punctuation
  <2> HIDE DEF lexeme
  <2>2. Agrees(vect_add(tok_list, lexeme.tok),
               IF token_has_value(lexeme.tok) THEN vect_add(tok_values, lexeme.val) ELSE tok_values,
               Append(Seen, lexeme))
    BY <1>2, AgreesAdd
  <2>3. Seen' = Append(Seen, lexeme)
    BY <1>8 DEF lexeme
  <2>4. QED
    BY <1>1, <2>1, <2>2, <2>3
<1>10. PlaceInv'
  <2>1. IsSeq(Seen) /\ IsSeq(Seen')
    BY <1>2, <1>9 DEF Agrees
  <2>2. Len(Seen) \in Nat /\ Len(Seen') = Len(Seen) + 1
    BY <1>8, <2>1, SeqAny, AppendAny
  <2>3. Valued(Seen', 0) = 0 /\ 0 \in 0 .. Len(Seen') /\ 0 < Len(Seen')
    BY <2>2, ValuedZero
  <2>4. QED
    BY <1>1, <1>3, <2>3 DEF PlaceInv
<1>11. QED
  BY <1>1, <1>2, <1>7, <1>9, <1>10 DEF TokensInv

(* Every step of the lexer                                                 *)
LEMMA TokensLex ==
  ASSUME TokensInv, lex_token \/ lex_number \/ lex_number_restores \/ lex_end \/ lex_aborts
  PROVE  TokensInv'
<1>1. /\ pc = "lex" /\ pc' \in {"lex", "done", "corrupted", "analyze", "aborted"}
      /\ source' = source
  BY DEF lex_token, lex_number, lex_number_restores, lex_end, lex_aborts, Lexes, textVars
<1>2. CASE ~NoMinus
  <2>1. IsSeq(source') /\ ~NotParsing' /\ ~NoMinus'
    BY <1>1, <1>2 DEF TokensInv, NotParsing, NoMinus
  <2>2. QED
    BY <2>1 DEF TokensInv
<1>3. CASE NoMinus /\ lex_token
  <2>1. /\ pc' \in {"lex", "done"} /\ input # <<>> /\ input' = Tail(input)
        /\ tok_list' = vect_add(tok_list, Head(input).tok)
        /\ tok_values' = IF token_has_value(Head(input).tok)
                         THEN vect_add(tok_values, Head(input).val)
                         ELSE tok_values
        /\ idx' = idx /\ val_idx' = val_idx /\ ret' = ret
    BY <1>3 DEF lex_token, Lexes, infoVars
  <2>2. QED
    BY <1>1, <1>3, <2>1, TokensLexeme
<1>4. CASE NoMinus /\ lex_number
  <2>1. /\ pc' = "lex" /\ input # <<>> /\ IsNumber(Head(input)) /\ input' = AfterNumber(input)
        /\ tok_list' = vect_add(tok_list, "TOK_INT")
        /\ tok_values' = vect_add(tok_values, Head(input).val)
        /\ idx' = idx /\ val_idx' = val_idx /\ ret' = ret
    BY <1>1, <1>4 DEF lex_number, Lexes, infoVars, token_has_value, Punctuation
  <2>2. \E i \in DOMAIN source : Head(input) = source[i]
    <3>1. IsSeq(source) /\ InputInv
      BY <1>1, <1>4 DEF TokensInv, NotParsing
    <3>2. QED
      BY <2>1, <3>1, LexedNext DEF InputInv
  <2>3. Head(input).tok = "TOK_INT"
    BY <1>4, <2>1, <2>2 DEF NoMinus, IsNumber
  <2>4. input' = Tail(input)
    BY <2>1, <2>3 DEF AfterNumber
  <2>5. token_has_value("TOK_INT")
    BY DEF token_has_value, Punctuation
  <2>6. QED
    BY <1>1, <1>4, <2>1, <2>3, <2>4, <2>5, TokensLexeme
<1>5. CASE NoMinus /\ lex_end
  BY <1>5, TokensEnd
<1>6. CASE NoMinus /\ (lex_number_restores \/ lex_aborts)
  <2>1. /\ pc' \in {"corrupted", "aborted"} /\ UNCHANGED <<input, tok_list, tok_values>>
        /\ idx' = idx /\ val_idx' = val_idx /\ ret' = ret
    BY <1>6 DEF lex_number_restores, lex_aborts, lexVars, infoVars
  <2>2. IsSeq(source) /\ InputInv /\ PlaceInv /\ Agrees(tok_list, tok_values, Seen)
    BY <1>1, <1>6 DEF TokensInv, NotParsing
  <2>3. Seen' = Seen /\ vect_size(tok_list') = vect_size(tok_list)
    BY <1>1, <2>1, SeenIs
  <2>4. InputInv'
    BY <1>1, <2>1, <2>2, <2>3 DEF InputInv
  <2>5. PlaceInv'
    BY <1>1, <2>1, <2>2, <2>3 DEF PlaceInv
  <2>6. QED
    BY <1>1, <2>1, <2>2, <2>3, <2>4, <2>5 DEF TokensInv, NotParsing
<1>7. QED
  BY <1>2, <1>3, <1>4, <1>5, <1>6

(* A step of the parser moves its place in the lists, which stay.          *)
LEMMA TokensParsed ==
  ASSUME TokensInv, ~NotParsing, ~NotParsing', pc' \notin {"lex", "corrupted", "aborted"},
         UNCHANGED <<source, input, tok_list, tok_values>>,
         pc' \in {"analyze", "member", "return"} => pc \in {"analyze", "member", "return"},
         NoMinus /\ InputInv /\ PlaceInv /\ Agrees(tok_list, tok_values, Seen) /\ Seen' = Seen
             => PlaceInv'
  PROVE  TokensInv'
<1>1. Seen' = Seen /\ vect_size(tok_list') = vect_size(tok_list) /\ (NoMinus' <=> NoMinus)
  BY SeenIs DEF NoMinus
<1>2. IsSeq(source')
  BY DEF TokensInv
<1>3. CASE NoMinus
  <2>1. InputInv /\ PlaceInv /\ Agrees(tok_list, tok_values, Seen)
    BY <1>3 DEF TokensInv
  <2>2. InputInv'
    BY <1>1, <2>1 DEF InputInv
  <2>3. QED
    BY <1>1, <1>2, <1>3, <2>1, <2>2 DEF TokensInv
<1>4. CASE ~NoMinus
  BY <1>1, <1>2, <1>4 DEF TokensInv
<1>5. QED
  BY <1>3, <1>4

(* What the parser reads next: TOK_EOF is the last one.                    *)
LEMMA TokensRead ==
  ASSUME TokensInv, NoMinus, pc \in {"analyze", "member", "return"}, idx < Len(Seen)
  PROVE  /\ IsSeq(Seen) /\ Len(Seen) \in Nat /\ idx \in Nat /\ val_idx \in Nat
         /\ idx + 1 <= Len(Seen)
         /\ Token(0) # "TOK_EOF" => idx + 1 < Len(Seen)
         /\ Token(0) # "TOK_EOF" /\ Token(1) # "TOK_EOF" => idx + 2 < Len(Seen)
         /\ Valued(Seen, idx + 1) = IF token_has_value(Token(0))
                                    THEN Valued(Seen, idx) + 1
                                    ELSE Valued(Seen, idx)
         /\ Token(0) # "TOK_EOF" =>
                Valued(Seen, idx + 2) = IF token_has_value(Token(1))
                                        THEN Valued(Seen, idx + 1) + 1
                                        ELSE Valued(Seen, idx + 1)
<1> DEFINE L == Len(Seen)
<1>1. IsSeq(source) /\ InputInv /\ PlaceInv /\ Agrees(tok_list, tok_values, Seen)
  BY DEF TokensInv, NotParsing
<1>2. IsSeq(Seen) /\ L \in Nat /\ idx \in 0 .. L /\ val_idx \in Nat
  BY <1>1, SeqAny DEF Agrees, PlaceInv
<1>3. idx \in Nat /\ idx + 1 \in 1 .. L /\ (idx + 1) + 1 = idx + 2 /\ idx + 1 \in Nat
  BY <1>2
<1>4. \A i \in 1 .. L : vect_get(tok_list, i - 1) = Seen[i].tok
  BY <1>1 DEF Agrees
<1>5. Token(0) = Seen[idx + 1].tok
  <2>1. idx + 0 = (idx + 1) - 1
    BY <1>3
  <2>2. QED
    BY <1>3, <1>4, <2>1 DEF Token
<1>6. Seen[L].tok = "TOK_EOF"
  <2> DEFINE lexed == LexedOf(source, input)
  <2>1. vect_size(tok_list) = Len(source) + 1 /\ input = <<>> /\ Len(source) \in Nat
    <3>1. vect_size(tok_list) = Len(source) + 1 /\ Len(source) \in Nat /\ Len(input) \in Nat
      BY <1>1, SeqAny DEF InputInv
    <3>2. vect_size(tok_list) # Len(source) - Len(input)
      BY ONLY <3>1
    <3>3. QED
      BY <1>1, <3>1, <3>2 DEF InputInv
  <2>2. IsSeq(input) /\ Len(input) = 0 /\ Len(input) <= Len(source)
    BY <1>1, <2>1, SeqAny DEF InputInv
  <2>3. IsSeq(lexed) /\ Len(lexed) = Len(source)
    BY <1>1, <2>1, <2>2, LexedIs
  <2>4. vect_size(tok_list) > Len(lexed)
    BY <2>1, <2>3
  <2>5. Seen = Append(lexed, Mark("TOK_EOF"))
    BY <2>4, SeenIs DEF SeenOf
  <2> HIDE DEF lexed
  <2>6. L = Len(lexed) + 1 /\ Seen[Len(lexed) + 1] = Mark("TOK_EOF")
    BY <2>3, <2>5, AppendAny
  <2>7. QED
    BY <2>6 DEF Mark
<1>7. Token(0) # "TOK_EOF" => idx + 1 < L /\ idx + 2 \in 1 .. L
  <2>1. Token(0) # "TOK_EOF" => idx + 1 # L
    BY <1>5, <1>6
  <2>2. QED
    BY <1>2, <1>3, <2>1
<1>8. ASSUME Token(0) # "TOK_EOF"
      PROVE  Token(1) = Seen[idx + 2].tok
  <2>1. idx + 1 = (idx + 2) - 1
    BY <1>3
  <2>2. QED
    BY <1>4, <1>7, <1>8, <2>1 DEF Token
<1>9. Token(0) # "TOK_EOF" /\ Token(1) # "TOK_EOF" => idx + 2 < L
  <2>1. Token(0) # "TOK_EOF" /\ Token(1) # "TOK_EOF" => idx + 2 # L
    BY <1>6, <1>8
  <2>2. QED
    BY <1>2, <1>7, <2>1
<1>10. Valued(Seen, idx + 1) = IF token_has_value(Token(0))
                               THEN Valued(Seen, idx) + 1
                               ELSE Valued(Seen, idx)
  BY <1>3, <1>5, ValuedNext
<1>11. Token(0) # "TOK_EOF" =>
           Valued(Seen, idx + 2) = IF token_has_value(Token(1))
                                   THEN Valued(Seen, idx + 1) + 1
                                   ELSE Valued(Seen, idx + 1)
  <2>1. Valued(Seen, (idx + 1) + 1) = IF token_has_value(Seen[(idx + 1) + 1].tok)
                                      THEN Valued(Seen, idx + 1) + 1
                                      ELSE Valued(Seen, idx + 1)
    BY <1>3, ValuedNext
  <2>2. QED
    BY <1>3, <1>8, <2>1
<1>12. idx + 1 <= L
  BY <1>2, <1>3
<1>13. QED
  BY <1>2, <1>3, <1>7, <1>9, <1>10, <1>11, <1>12

(* The parser goes on, or it has failed.                                   *)
LEMMA PlaceGoesOn ==
  ASSUME Seen' = Seen, Len(Seen) \in Nat, idx' \in Nat, idx' < Len(Seen), val_idx' \in Nat,
         val_idx' = Valued(Seen, idx'), pc' # "lex"
  PROVE  PlaceInv'
<1>1. idx' \in 0 .. Len(Seen)
  OBVIOUS
<1>2. QED
  BY <1>1 DEF PlaceInv

LEMMA PlaceFails ==
  ASSUME Seen' = Seen, idx' \in 0 .. Len(Seen), val_idx' \in Nat,
         pc' \notin {"lex", "analyze", "member"}, ret' = NULL
  PROVE  PlaceInv'
BY DEF PlaceInv

(* A value, an empty or an open object or array                            *)
LEMMA TokensAnalyzed ==
  ASSUME TokensInv, json_analyze_value \/ json_analyze_empty \/ json_analyze_open
  PROVE  TokensInv'
<1>1. /\ pc = "analyze" /\ pc' \in {"return", "member", "analyze"}
      /\ UNCHANGED <<source, input, tok_list, tok_values>>
  BY DEF json_analyze_value, json_analyze_empty, json_analyze_open, Analyzes, Returns, textVars,
         lexVars
<1>2. ASSUME NoMinus, InputInv, PlaceInv, Agrees(tok_list, tok_values, Seen), Seen' = Seen
      PROVE  PlaceInv'
  <2>1. idx < Len(Seen) /\ val_idx = Valued(Seen, idx)
    BY <1>1, <1>2 DEF PlaceInv
  <2>2. /\ IsSeq(Seen) /\ Len(Seen) \in Nat /\ idx \in Nat /\ val_idx \in Nat
        /\ idx + 1 <= Len(Seen)
        /\ Token(0) # "TOK_EOF" => idx + 1 < Len(Seen)
        /\ Token(0) # "TOK_EOF" /\ Token(1) # "TOK_EOF" => idx + 2 < Len(Seen)
        /\ Valued(Seen, idx + 1) = IF token_has_value(Token(0))
                                   THEN Valued(Seen, idx) + 1
                                   ELSE Valued(Seen, idx)
        /\ Token(0) # "TOK_EOF" =>
               Valued(Seen, idx + 2) = IF token_has_value(Token(1))
                                       THEN Valued(Seen, idx + 1) + 1
                                       ELSE Valued(Seen, idx + 1)
    BY <1>1, <1>2, <2>1, TokensRead
  <2>3. CASE json_analyze_value
    <3>1. /\ Token(0) # "TOK_EOF" /\ idx' = idx + 1
          /\ val_idx' = IF token_has_value(Token(0)) THEN val_idx + 1 ELSE val_idx + 0
      BY <2>3 DEF json_analyze_value, pop
    <3>2. idx' \in Nat /\ idx' < Len(Seen) /\ val_idx' \in Nat /\ val_idx' = Valued(Seen, idx')
      BY <2>1, <2>2, <3>1
    <3>3. QED
      BY <1>1, <1>2, <2>2, <3>2, PlaceGoesOn
  <2>4. CASE json_analyze_empty
    <3>1. /\ Token(0) \in {"TOK_LBRACE", "TOK_LBRACKET"}
          /\ Token(1) \in {"TOK_RBRACE", "TOK_RBRACKET"}
          /\ idx' = idx + 2 /\ val_idx' = val_idx + 0
      BY <2>4 DEF json_analyze_empty, pop, Closing
    <3>2. ~token_has_value(Token(0)) /\ ~token_has_value(Token(1))
          /\ Token(0) # "TOK_EOF" /\ Token(1) # "TOK_EOF"
      BY <3>1 DEF token_has_value, Punctuation
    <3>3. idx' \in Nat /\ idx' < Len(Seen) /\ val_idx' \in Nat /\ val_idx' = Valued(Seen, idx')
      BY <2>1, <2>2, <3>1, <3>2
    <3>4. QED
      BY <1>1, <1>2, <2>2, <3>3, PlaceGoesOn
  <2>5. CASE json_analyze_open
    <3>1. /\ Token(0) \in {"TOK_LBRACE", "TOK_LBRACKET"}
          /\ idx' = idx + 1 /\ val_idx' = val_idx + 0
      BY <2>5 DEF json_analyze_open, pop
    <3>2. ~token_has_value(Token(0)) /\ Token(0) # "TOK_EOF"
      BY <3>1 DEF token_has_value, Punctuation
    <3>3. idx' \in Nat /\ idx' < Len(Seen) /\ val_idx' \in Nat /\ val_idx' = Valued(Seen, idx')
      BY <2>1, <2>2, <3>1, <3>2
    <3>4. QED
      BY <1>1, <1>2, <2>2, <3>3, PlaceGoesOn
  <2>6. QED
    BY <2>3, <2>4, <2>5
<1>3. QED
  BY <1>1, <1>2, TokensParsed DEF NotParsing

(* The loop of an object: a name and a colon, or not                       *)
LEMMA TokensMember ==
  ASSUME TokensInv, json_analyze_name \/ json_analyze_not_a_name \/ json_analyze_no_colon
  PROVE  TokensInv'
<1>1. /\ pc = "member" /\ pc' \in {"return", "analyze"}
      /\ UNCHANGED <<source, input, tok_list, tok_values>>
  BY DEF json_analyze_name, json_analyze_not_a_name, json_analyze_no_colon, Fails, Returns,
         textVars, lexVars
<1>2. ASSUME NoMinus, InputInv, PlaceInv, Agrees(tok_list, tok_values, Seen), Seen' = Seen
      PROVE  PlaceInv'
  <2>1. idx < Len(Seen) /\ val_idx = Valued(Seen, idx)
    BY <1>1, <1>2 DEF PlaceInv
  <2>2. /\ IsSeq(Seen) /\ Len(Seen) \in Nat /\ idx \in Nat /\ val_idx \in Nat
        /\ idx + 1 <= Len(Seen)
        /\ Token(0) # "TOK_EOF" => idx + 1 < Len(Seen)
        /\ Token(0) # "TOK_EOF" /\ Token(1) # "TOK_EOF" => idx + 2 < Len(Seen)
        /\ Valued(Seen, idx + 1) = IF token_has_value(Token(0))
                                   THEN Valued(Seen, idx) + 1
                                   ELSE Valued(Seen, idx)
        /\ Token(0) # "TOK_EOF" =>
               Valued(Seen, idx + 2) = IF token_has_value(Token(1))
                                       THEN Valued(Seen, idx + 1) + 1
                                       ELSE Valued(Seen, idx + 1)
    BY <1>1, <1>2, <2>1, TokensRead
  <2>3. CASE json_analyze_name
    <3>1. /\ Token(0) = "TOK_STRING" /\ Token(1) = "TOK_COLON"
          /\ idx' = idx + 2 /\ val_idx' = val_idx + 1
      BY <2>3 DEF json_analyze_name, pop
    <3>2. token_has_value(Token(0)) /\ ~token_has_value(Token(1))
          /\ Token(0) # "TOK_EOF" /\ Token(1) # "TOK_EOF"
      BY <3>1 DEF token_has_value, Punctuation
    <3>3. idx' \in Nat /\ idx' < Len(Seen) /\ val_idx' \in Nat /\ val_idx' = Valued(Seen, idx')
      BY <2>1, <2>2, <3>1, <3>2
    <3>4. QED
      BY <1>1, <1>2, <2>2, <3>3, PlaceGoesOn
  <2>4. CASE json_analyze_not_a_name
    <3>1. idx' = idx + 1 /\ val_idx' = val_idx + 0 /\ ret' = NULL /\ pc' = "return"
      BY <2>4 DEF json_analyze_not_a_name, pop, Fails, Returns
    <3>2. idx' \in 0 .. Len(Seen) /\ val_idx' \in Nat
      BY <2>2, <3>1
    <3>3. QED
      BY <1>2, <3>1, <3>2, PlaceFails
  <2>5. CASE json_analyze_no_colon
    <3>1. /\ Token(0) = "TOK_STRING" /\ idx' = idx + 2 /\ val_idx' = val_idx + 1
          /\ ret' = NULL /\ pc' = "return"
      BY <2>5 DEF json_analyze_no_colon, pop, Returns
    <3>2. idx' \in 0 .. Len(Seen) /\ val_idx' \in Nat
      BY <2>2, <3>1
    <3>3. QED
      BY <1>2, <3>1, <3>2, PlaceFails
  <2>6. QED
    BY <2>3, <2>4, <2>5
<1>3. QED
  BY <1>1, <1>2, TokensParsed DEF NotParsing

(* What is unexpected, nested too deep or failed before                    *)
LEMMA TokensRejected ==
  ASSUME TokensInv, json_analyze_deep \/ json_analyze_unexpected \/ json_analyze_failed
  PROVE  TokensInv'
<1>1. /\ pc \in {"analyze", "return"} /\ pc' = "return" /\ ret' = NULL
      /\ UNCHANGED <<source, input, tok_list, tok_values>>
      /\ \/ idx' = idx /\ val_idx' = val_idx
         \/ pc = "analyze" /\ idx' = idx + 1 /\ val_idx' = val_idx + 0
  BY DEF json_analyze_deep, json_analyze_unexpected, json_analyze_failed, Fails, Returns, Analyzes,
         textVars, lexVars, infoVars, pop
<1>2. ASSUME NoMinus, InputInv, PlaceInv, Agrees(tok_list, tok_values, Seen), Seen' = Seen
      PROVE  PlaceInv'
  <2>1. idx \in 0 .. Len(Seen) /\ val_idx \in Nat /\ Len(Seen) \in Nat
    BY <1>2, SeqAny DEF PlaceInv, Agrees
  <2>2. pc = "analyze" => idx < Len(Seen)
    BY <1>2 DEF PlaceInv
  <2>3. idx' \in 0 .. Len(Seen) /\ val_idx' \in Nat
    BY <1>1, <2>1, <2>2
  <2>4. QED
    BY <1>1, <1>2, <2>3, PlaceFails
<1>3. QED
  BY <1>1, <1>2, TokensParsed DEF NotParsing

LEMMA TokensNext ==
  ASSUME TokensInv, TreesInv, json_analyze_next
  PROVE  TokensInv'
<1>1. /\ pc = "return" /\ ret # NULL /\ frames # <<>>
      /\ UNCHANGED <<source, input, tok_list, tok_values>>
      /\ idx' = idx + 1 /\ val_idx' = val_idx + 0
      /\ \/ Token(0) = "TOK_COMMA" /\ pc' \in {"member", "analyze"}
         \/ Token(0) = Closing(nodes[Top.node].type) /\ pc' = "return" /\ ret' = Top.node
         \/ pc' = "return" /\ ret' = NULL
  BY DEF json_analyze_next, Returns, textVars, lexVars, pop
<1>2. ASSUME NoMinus, InputInv, PlaceInv, Agrees(tok_list, tok_values, Seen), Seen' = Seen
      PROVE  PlaceInv'
  <2>1. idx < Len(Seen) /\ val_idx = Valued(Seen, idx)
    BY <1>1, <1>2 DEF PlaceInv
  <2>2. /\ Len(Seen) \in Nat /\ idx \in Nat /\ val_idx \in Nat /\ idx + 1 <= Len(Seen)
        /\ Token(0) # "TOK_EOF" => idx + 1 < Len(Seen)
        /\ Valued(Seen, idx + 1) = IF token_has_value(Token(0))
                                   THEN Valued(Seen, idx) + 1
                                   ELSE Valued(Seen, idx)
    BY <1>1, <1>2, <2>1, TokensRead
  <2>3. CASE Token(0) \in {"TOK_COMMA", "TOK_RBRACE", "TOK_RBRACKET"} /\ pc' # "lex"
    <3>1. ~token_has_value(Token(0)) /\ Token(0) # "TOK_EOF"
      BY <2>3 DEF token_has_value, Punctuation
    <3>2. idx' \in Nat /\ idx' < Len(Seen) /\ val_idx' \in Nat /\ val_idx' = Valued(Seen, idx')
      BY <1>1, <2>1, <2>2, <3>1
    <3>3. QED
      BY <1>2, <2>2, <2>3, <3>2, PlaceGoesOn
  <2>4. CASE pc' = "return" /\ ret' = NULL
    <3>1. idx' \in 0 .. Len(Seen) /\ val_idx' \in Nat
      BY <1>1, <2>2
    <3>2. QED
      BY <1>2, <2>4, <3>1, PlaceFails
  <2>5. QED
    BY <1>1, <2>3, <2>4 DEF Closing
<1>3. pc' \in {"member", "analyze", "return"}
  BY <1>1
<1>4. QED
  BY <1>1, <1>2, <1>3, TokensParsed DEF NotParsing

(* The root is set, or the tree destroyed: nothing more is read.           *)
LEMMA TokensOver ==
  ASSUME TokensInv, json_set_root \/ json_destroy
  PROVE  TokensInv'
<1>1. /\ UNCHANGED <<source, input, tok_list, tok_values, idx, val_idx, ret>>
      /\ \/ pc = "printed" /\ pc' = "sent"
         \/ pc = "return" /\ pc' = "done"
         \/ pc = "done" /\ pc' = "over"
  BY DEF json_set_root, json_destroy, textVars, lexVars, infoVars
<1>2. CASE pc = "printed"
  BY <1>1, <1>2 DEF TokensInv, NotParsing, Fresh
<1>3. CASE pc # "printed"
  <2>1. ~NotParsing /\ ~NotParsing' /\ pc' \in {"done", "over"}
    BY <1>1, <1>3 DEF NotParsing
  <2>2. ASSUME PlaceInv, Seen' = Seen
        PROVE  PlaceInv'
    BY <1>1, <2>1, <2>2 DEF PlaceInv
  <2>3. QED
    BY <1>1, <2>1, <2>2, TokensParsed
<1>4. QED
  BY <1>2, <1>3

(* Before there is a document                                              *)
LEMMA TokensBuilding ==
  ASSUME TokensInv, TreesInv, Building \/ json_stringify
  PROVE  TokensInv'
<1>1. /\ NotParsing /\ NotParsing' /\ UNCHANGED <<tok_list, tok_values, idx, val_idx, ret>>
  BY DEF Building, json_create, json_node_put, json_node_add, json_set, json_stringify, NotParsing,
         lexVars, infoVars
<1>2. CASE json_stringify
  <2>1. root # NULL /\ HeapInv(nodes) /\ root \in 1 .. Len(nodes)
    BY <1>2 DEF json_stringify, TreesInv, RootInv, IsRoot
  <2>2. IsSeq(source')
    BY <1>2, <2>1, PrintsSeq DEF json_stringify
  <2>3. QED
    BY <1>1, <2>2 DEF TokensInv, Fresh
<1>3. CASE Building
  <2>1. source' = source
    BY <1>3 DEF Building, json_create, json_node_put, json_node_add, json_set, textVars
  <2>2. QED
    BY <1>1, <2>1 DEF TokensInv, Fresh
<1>4. QED
  BY <1>2, <1>3

LEMMA TokensStutter ==
  ASSUME TokensInv, UNCHANGED vars
  PROVE  TokensInv'
<1>1. /\ UNCHANGED <<pc, source, input, tok_list, tok_values, idx, val_idx, ret>>
      /\ Seen' = Seen
  BY SeenIs DEF vars, textVars, lexVars, infoVars
<1>2. NotParsing' <=> NotParsing
  BY <1>1 DEF NotParsing
<1>3. InputInv /\ PlaceInv => InputInv' /\ PlaceInv'
  BY <1>1 DEF InputInv, PlaceInv, vect_size
<1>4. QED
  BY <1>1, <1>2, <1>3 DEF TokensInv, Fresh, NoMinus

LEMMA TokensStep == TokensInv /\ TreesInv /\ [Next]_vars => TokensInv'
<1> SUFFICES ASSUME TokensInv, TreesInv, [Next]_vars PROVE TokensInv'
  OBVIOUS
<1>1. CASE UNCHANGED vars
  BY <1>1, TokensStutter
<1>2. CASE Building \/ json_stringify
  BY <1>2, TokensBuilding
<1>3. CASE json_parse \/ json_destroy \/ json_set_root
  BY <1>3, TokensParse, TokensOver
<1>4. CASE lex_token \/ lex_number \/ lex_number_restores \/ lex_end \/ lex_aborts
  BY <1>4, TokensLex
<1>5. CASE json_analyze_value \/ json_analyze_empty \/ json_analyze_open
  BY <1>5, TokensAnalyzed
<1>6. CASE json_analyze_name \/ json_analyze_not_a_name \/ json_analyze_no_colon
  BY <1>6, TokensMember
<1>7. CASE json_analyze_deep \/ json_analyze_unexpected \/ json_analyze_failed
  BY <1>7, TokensRejected
<1>8. CASE json_analyze_next
  BY <1>8, TokensNext
<1>9. QED
  BY <1>1, <1>2, <1>3, <1>4, <1>5, <1>6, <1>7, <1>8 DEF Next, Parsing

THEOREM TokensCorrect == Spec => []TokensInv
<1>1. QED
  BY TokensInit, TokensStep, TreesCorrect, PTL DEF Spec

(* The parser takes each value for the token it was lexed with, and does   *)
(* not read behind TOK_EOF (json_lex, pop_token, pop_value, vect_add),     *)
(* whatever the document but for a minus.                                  *)
THEOREM TokensInStepCorrect == Spec => []TokensInStep
<1>1. TokensInv => TokensInStep
  <2> SUFFICES ASSUME TokensInv, ~NotParsing, NoMinus
               PROVE  /\ ~tok_list.spoiled /\ ~tok_values.spoiled
                      /\ Elements(tok_list) = [i \in DOMAIN Seen |-> Seen[i].tok]
                      /\ vect_size(tok_values) = Valued(Seen, Len(Seen))
                      /\ \A i \in DOMAIN Seen :
                             token_has_value(Seen[i].tok) =>
                                 vect_get(tok_values, Valued(Seen, i) - 1) = Seen[i].val
                      /\ idx <= Len(Seen)
                      /\ pc \in {"lex", "analyze", "member"} \/ ret # NULL =>
                             val_idx = Valued(Seen, idx)
    BY DEF TokensInStep, NotParsing, NoMinus
  <2>1. PlaceInv /\ Agrees(tok_list, tok_values, Seen)
    BY DEF TokensInv
  <2>2. Len(Seen) \in Nat /\ DOMAIN Seen = 1 .. Len(Seen)
    BY <2>1, SeqAny DEF Agrees
  <2>3. ~tok_list.spoiled /\ ~tok_values.spoiled
    BY <2>1 DEF Agrees, AnyVect, VectInv
  <2>4. Elements(tok_list) = [i \in DOMAIN Seen |-> Seen[i].tok]
    BY <2>1, <2>2 DEF Agrees, Elements
  <2>5. /\ vect_size(tok_values) = Valued(Seen, Len(Seen))
        /\ \A i \in DOMAIN Seen :
               token_has_value(Seen[i].tok) =>
                   vect_get(tok_values, Valued(Seen, i) - 1) = Seen[i].val
    BY <2>1, <2>2 DEF Agrees, vect_size
  <2>6. idx <= Len(Seen)
    BY <2>1, <2>2 DEF PlaceInv
  <2>7. pc \in {"lex", "analyze", "member"} \/ ret # NULL => val_idx = Valued(Seen, idx)
    BY <2>1 DEF PlaceInv
  <2>8. QED
    BY <2>3, <2>4, <2>5, <2>6, <2>7
<1>2. QED
  BY <1>1, TokensCorrect, PTL
=============================================================================
