--------------------------- MODULE NetworkLoopProofs ---------------------------
(***************************************************************************)
(* What holds of NetworkLoop for any number of connections, slots and      *)
(* events in a batch, as long as fewer connections are open at a time than *)
(* the table has slots: an event always reaches its connection, and no     *)
(* slot and no socket is lost.                                             *)
(***************************************************************************)
EXTENDS NetworkLoop, FiniteSetTheorems, SequenceTheorems, TLAPS

(* What is proved of the table is what holds of every pool. *)
Table == INSTANCE ObjectPoolProofs
             WITH PoolCapacity <- Capacity, StaleFlags <- {}, MaxSize <- Cardinality(Sockets)

Distinct(s) == \A j, k \in 1 .. Len(s) : s[j] = s[k] => j = k

TypeInv ==
    /\ pc \in {"epoll_wait", "event", "network_finish", "done"}
    /\ batch \in Seq(Slots \union {Server, EventFd})
    /\ pc = "event" <=> batch # <<>>
    /\ conn \in [Slots -> Sockets \union {Invalid, Garbage}]
    /\ open \subseteq Sockets
    /\ data \in [Sockets -> Slots \union {Unregistered}]
    /\ ready \in Seq(Sockets \union {Server, EventFd})
    /\ backlog \in Seq(Sockets)
    /\ peer \in [Sockets -> {"new", "up", "hungup"}]

(* A slot and its socket know each other.  Whatever a socket has left in   *)
(* its slot when it was closed is no socket.                               *)
TableInv ==
    pc # "done" =>
        /\ \A s \in Registered : data[s] \in allocated /\ conn[data[s]] = s
        /\ \A i \in Slots : conn[i] \in Sockets =>
              i \in allocated /\ conn[i] \in open /\ data[conn[i]] = i

(* A socket that was not accepted yet is new to the table.                 *)
FreshInv ==
    /\ Distinct(backlog)
    /\ \A s \in Sockets :
          Contains(backlog, s) \/ peer[s] = "new" => s \notin open /\ data[s] = Unregistered
    /\ \A s \in Sockets : Contains(backlog, s) => peer[s] # "new"

(* No descriptor is twice on the ready list or in a batch: the slot of a   *)
(* connection that is closed is in no event that is still to come.         *)
EventInv ==
    /\ Distinct(ready) /\ Distinct(batch)
    /\ \A k \in 1 .. Len(ready) : ready[k] \in Sockets => ready[k] \in Registered
    /\ \A k \in 1 .. Len(batch) : batch[k] \in Slots => conn[batch[k]] \in Sockets

(* The table is never full: it holds one slot per open socket.             *)
RoomInv ==
    /\ Table!IInv
    /\ ~wasFull
    /\ pc # "done" => size = Cardinality(open)
    /\ Cardinality(Live) <= MaxLive

(* Only a failed epoll_ctl parts a slot from its socket.                   *)
LeakInv ==
    "epoll_ctl" \notin failed =>
        /\ open \subseteq Registered
        /\ pc # "done" => \A i \in allocated : conn[i] \in Sockets
        /\ pc = "done" => open = {}

IInv == TypeInv /\ TableInv /\ FreshInv /\ EventInv /\ RoomInv /\ LeakInv
-----------------------------------------------------------------------------
(* Sequences without repetition                                             *)

LEMMA AppendDistinct ==
    ASSUME NEW T, NEW s \in Seq(T), NEW x \in T, Distinct(s), ~Contains(s, x)
    PROVE  /\ Append(s, x) \in Seq(T)
           /\ Distinct(Append(s, x))
           /\ \A k \in 1 .. Len(Append(s, x)) :
                 Append(s, x)[k] = x \/ \E j \in 1 .. Len(s) : Append(s, x)[k] = s[j]
           /\ Contains(Append(s, x), x)
           /\ \A y : Contains(s, y) => Contains(Append(s, x), y)
  BY DEF Distinct, Contains

LEMMA TailDistinct ==
    ASSUME NEW T, NEW s \in Seq(T), s # <<>>, Distinct(s)
    PROVE  /\ Tail(s) \in Seq(T) /\ Head(s) \in T /\ Head(s) = s[1]
           /\ Len(Tail(s)) = Len(s) - 1 /\ Len(s) \in Nat \ {0}
           /\ \A k \in 1 .. Len(Tail(s)) :
                 Tail(s)[k] = s[k + 1] /\ k + 1 \in 1 .. Len(s) /\ Tail(s)[k] # Head(s)
           /\ Distinct(Tail(s))
           /\ Contains(s, Head(s)) /\ ~Contains(Tail(s), Head(s))
           /\ \A y : Contains(Tail(s), y) => Contains(s, y)
<1>1. /\ Tail(s) \in Seq(T) /\ Head(s) \in T /\ Head(s) = s[1]
      /\ Len(Tail(s)) = Len(s) - 1 /\ Len(s) \in Nat \ {0}
  OBVIOUS
<1>2. \A k \in 1 .. Len(Tail(s)) : Tail(s)[k] = s[k + 1] /\ k + 1 \in 1 .. Len(s)
  BY <1>1
<1> QED BY <1>1, <1>2 DEF Distinct, Contains

LEMMA RemoveFirstDistinct ==
    ASSUME NEW T, NEW s \in Seq(T), NEW x, Distinct(s)
    PROVE  /\ RemoveFirst(s, x) \in Seq(T)
           /\ Distinct(RemoveFirst(s, x))
           /\ \A k \in 1 .. Len(RemoveFirst(s, x)) :
                 /\ RemoveFirst(s, x)[k] # x
                 /\ \E j \in 1 .. Len(s) : RemoveFirst(s, x)[k] = s[j]
<1>1. CASE ~\E i \in 1 .. Len(s) : s[i] = x
  BY <1>1 DEF RemoveFirst
<1>2. CASE \E i \in 1 .. Len(s) : s[i] = x
  <2>1. PICK i \in 1 .. Len(s) : s[i] = x
    BY <1>2
  <2>2. {j \in 1 .. Len(s) : s[j] = x} = {i}
    BY <2>1 DEF Distinct
  <2>3. Min({i}) = i
    BY DEF Min
  <2>4. RemoveFirst(s, x) = SubSeq(s, 1, i - 1) \o SubSeq(s, i + 1, Len(s))
    BY <1>2, <2>2, <2>3 DEF RemoveFirst, SelectInSeq, RemoveAt
  <2> DEFINE a == SubSeq(s, 1, i - 1)
             b == SubSeq(s, i + 1, Len(s))
             r == a \o b
  <2>5. /\ r \in Seq(T) /\ Len(r) = Len(s) - 1
        /\ \A k \in 1 .. Len(r) : r[k] = IF k < i THEN s[k] ELSE s[k + 1]
    <3>1. /\ a \in Seq(T) /\ Len(a) = i - 1
          /\ \A k \in 1 .. i - 1 : a[k] = s[k]
      OBVIOUS
    <3>2. /\ b \in Seq(T) /\ Len(b) = Len(s) - i
          /\ \A k \in 1 .. Len(s) - i : b[k] = s[i + k]
      OBVIOUS
    <3> HIDE DEF a, b
    <3>3. /\ r \in Seq(T) /\ Len(r) = Len(a) + Len(b)
          /\ \A k \in 1 .. Len(a) + Len(b) :
                r[k] = IF k <= Len(a) THEN a[k] ELSE b[k - Len(a)]
      BY <3>1, <3>2, ConcatProperties
    <3> HIDE DEF r
    <3> QED BY <3>1, <3>2, <3>3
  <2> HIDE DEF r
  <2>6. Distinct(r)
    BY <2>5 DEF Distinct
  <2>7. \A k \in 1 .. Len(r) : r[k] # x /\ \E j \in 1 .. Len(s) : r[k] = s[j]
    BY <2>1, <2>5 DEF Distinct
  <2> QED BY <2>4, <2>5, <2>6, <2>7 DEF r
<1> QED BY <1>1, <1>2
-----------------------------------------------------------------------------
(* The sockets, the slots and the two descriptors of the thread are apart. *)
LEMMA Apart ==
    /\ IsFiniteSet(Sockets) /\ Cardinality(Sockets) \in Nat
    /\ Capacity \in Nat \ {0} /\ BatchSize \in Nat \ {0} /\ MaxLive \in Nat
    /\ {Invalid, Garbage, Server, EventFd} \cap Sockets = {}
    /\ Sockets \cap Slots = {} /\ {Server, EventFd} \cap Slots = {}
    /\ Unregistered \notin Slots
  BY LoopAssumption, FS_CardinalityType DEF Slots, Unregistered

LEMMA SocketsFinite ==
    ASSUME NEW S, S \subseteq Sockets
    PROVE  IsFiniteSet(S) /\ Cardinality(S) \in Nat
  BY Apart, FS_Subset, FS_CardinalityType

(* What the loop does to its table, the pool does. *)
LEMMA SameTable ==
    /\ Pool!PoolInit => Table!PoolInit
    /\ Pool!objpool_add => Table!objpool_add
    /\ \A i \in Slots : Pool!objpool_remove(i) => Table!objpool_remove(i)
  BY DEF Pool!PoolInit, Table!PoolInit, Pool!objpool_add, Table!objpool_add, Pool!objpool_remove,
         Table!objpool_remove, Pool!update_next_available, Table!update_next_available, Pool!Free,
         Table!Free, Pool!PoolSlots, Table!PoolSlots, Pool!poolVars, Table!poolVars

LEMMA TableStep ==
    ASSUME Table!IInv
    PROVE  /\ Pool!objpool_add => Table!IInv'
           /\ \A i \in Slots : Pool!objpool_remove(i) => Table!IInv'
           /\ UNCHANGED poolVars => Table!IInv'
<1>1. Pool!objpool_add => Table!IInv'
  BY SameTable, Apart, Table!AddIInv
<1>2. ASSUME NEW i \in Slots, Pool!objpool_remove(i) PROVE Table!IInv'
  <2>1. i \in -1 .. Capacity
    BY Apart DEF Slots
  <2> QED BY <1>2, <2>1, SameTable, Apart, Table!RemoveIInv
<1>3. UNCHANGED poolVars => UNCHANGED Table!poolVars
  BY DEF poolVars, Table!poolVars
<1> QED BY <1>1, <1>2, <1>3, Apart, Table!NextIInv

LEMMA SameCardinality == \A S : Table!Cardinality(S) = Cardinality(S)
  BY DEF Table!Cardinality, Cardinality, Table!IsFiniteSet, IsFiniteSet

(* As long as the table was never full its next slot is free. *)
LEMMA TableFacts ==
    ASSUME Table!IInv, ~wasFull
    PROVE  /\ allocated \subseteq Slots /\ next \in Slots \ allocated
           /\ size = Cardinality(allocated) /\ size \in Nat
  BY SameCardinality DEF Table!IInv, Table!PoolTypeOK, Table!ExactUntilFull, Table!PoolSlots, Slots

(* The connection that is accepted is the one at the head of the queue. *)
LEMMA AcceptFacts ==
    ASSUME IInv, IsEvent(Server), backlog # <<>>
    PROVE  /\ pc = "event" /\ batch # <<>> /\ Head(backlog) \in Sockets \ open
           /\ data[Head(backlog)] = Unregistered /\ peer[Head(backlog)] # "new"
           /\ Contains(backlog, Head(backlog))
           /\ next \in Slots \ allocated /\ conn[next] \notin Sockets
<1>1. Head(backlog) \in Sockets /\ Contains(backlog, Head(backlog))
  BY TailDistinct DEF IInv, TypeInv, FreshInv
<1>2. next \in Slots \ allocated
  BY TableFacts DEF IInv, RoomInv
<1> QED BY <1>1, <1>2 DEF IInv, TypeInv, FreshInv, TableInv, IsEvent

(* The event of a connection is about the socket in its slot. *)
LEMMA EventFacts ==
    ASSUME IInv, NEW i \in Slots, IsEvent(i)
    PROVE  /\ pc = "event" /\ batch # <<>> /\ i \in allocated
           /\ conn[i] \in open /\ conn[i] \in Sockets /\ data[conn[i]] = i
           /\ \A k \in 1 .. Len(Tail(batch)) : Tail(batch)[k] # i
<1>1. /\ pc = "event" /\ batch # <<>> /\ Head(batch) = i /\ batch[1] = i /\ 1 \in 1 .. Len(batch)
      /\ \A k \in 1 .. Len(Tail(batch)) : Tail(batch)[k] # i
  BY TailDistinct DEF IInv, TypeInv, EventInv, IsEvent
<1>2. conn[i] \in Sockets
  BY <1>1 DEF IInv, EventInv
<1> QED BY <1>1, <1>2 DEF IInv, TableInv
-----------------------------------------------------------------------------
LEMMA WokenFacts ==
    ASSUME TypeInv, Distinct(ready), NEW x \in Sockets \union {Server, EventFd}
    PROVE  /\ Woken(x) \in Seq(Sockets \union {Server, EventFd})
           /\ Distinct(Woken(x))
           /\ \A k \in 1 .. Len(Woken(x)) :
                 Woken(x)[k] = x \/ \E j \in 1 .. Len(ready) : Woken(x)[k] = ready[j]
<1>1. CASE Contains(ready, x)
  BY <1>1 DEF Woken, TypeInv
<1>2. CASE ~Contains(ready, x)
  BY <1>2, AppendDistinct DEF Woken, TypeInv
<1> QED BY <1>1, <1>2

LEMMA NextEventFacts ==
    ASSUME IInv, NEW c, NextEvent(c), pc = "event"
    PROVE  /\ batch' = Tail(batch) /\ batch' \in Seq(Slots \union {Server, EventFd})
           /\ pc' \in {"event", "epoll_wait", "network_finish"}
           /\ pc' = "event" <=> batch' # <<>>
           /\ Distinct(batch')
           /\ \A k \in 1 .. Len(batch') : k + 1 \in 1 .. Len(batch) /\ batch'[k] = batch[k + 1]
<1>1. /\ batch' = Tail(batch) /\ batch # <<>> /\ batch \in Seq(Slots \union {Server, EventFd})
      /\ Distinct(batch)
  BY DEF NextEvent, IInv, TypeInv, EventInv
<1>2. /\ batch' \in Seq(Slots \union {Server, EventFd}) /\ Len(batch') = Len(batch) - 1
      /\ Distinct(batch') /\ Len(batch) \in Nat \ {0}
      /\ \A k \in 1 .. Len(batch') : k + 1 \in 1 .. Len(batch) /\ batch'[k] = batch[k + 1]
  BY <1>1, TailDistinct
<1>3. batch' = <<>> <=> Len(batch') = 0
  BY <1>2, EmptySeq
<1> QED BY <1>1, <1>2, <1>3 DEF NextEvent
-----------------------------------------------------------------------------
LEMMA InitIInv == Init => IInv
<1> SUFFICES ASSUME Init PROVE IInv
  OBVIOUS
<1> USE Apart DEF Init
<1>1. TypeInv /\ FreshInv /\ EventInv
  BY DEF TypeInv, FreshInv, EventInv, Distinct, Contains
<1>2. TableInv /\ LeakInv
  BY DEF TableInv, LeakInv, Registered, Pool!PoolInit
<1>3. RoomInv
  <2>1. Table!IInv
    BY SameTable, Table!InitIInv
  <2>2. Live = {}
    BY DEF Live, Contains
  <2>3. ~wasFull /\ size = 0
    BY DEF Pool!PoolInit
  <2> QED BY <2>1, <2>2, <2>3, FS_EmptySet DEF RoomInv
<1> QED BY <1>1, <1>2, <1>3 DEF IInv

LEMMA TypeStep == IInv /\ [Next]_vars => TypeInv'
<1> SUFFICES ASSUME IInv, [Next]_vars PROVE TypeInv'
  OBVIOUS
<1> USE Apart DEF tableVars, poolVars, kernelVars, envVars
<1>1. TypeInv /\ Distinct(ready)
  BY DEF IInv, EventInv
<1>2. ASSUME NEW s \in Sockets, Connect(s) PROVE TypeInv'
  BY <1>1, <1>2, WokenFacts DEF Connect, TypeInv
<1>3. ASSUME NEW s \in Sockets, Speak(s) PROVE TypeInv'
  BY <1>1, <1>3, WokenFacts DEF Speak, TypeInv
<1>4. ASSUME NEW s \in Sockets, HangUp(s) PROVE TypeInv'
  BY <1>1, <1>4, WokenFacts DEF HangUp, TypeInv
<1>5. CASE platform_network_stop
  BY <1>1, <1>5, WokenFacts DEF platform_network_stop, TypeInv
<1>6. CASE epoll_wait
  <2> DEFINE n == IF Len(ready) < BatchSize THEN Len(ready) ELSE BatchSize
  <2>1. n \in 1 .. Len(ready)
    BY <1>1, <1>6 DEF epoll_wait, TypeInv
  <2>2. batch' = [i \in 1 .. n |-> DataOf(ready[i])] /\ ready' = SubSeq(ready, n + 1, Len(ready))
    BY <1>6 DEF epoll_wait
  <2>3. \A i \in 1 .. n : DataOf(ready[i]) \in Slots \union {Server, EventFd}
    BY <1>1, <2>1 DEF DataOf, TypeInv, IInv, EventInv, Registered
  <2>4. batch' \in Seq(Slots \union {Server, EventFd}) /\ batch' # <<>>
    BY <2>1, <2>2, <2>3
  <2>5. ready' \in Seq(Sockets \union {Server, EventFd})
    BY <1>1, <2>1, <2>2 DEF TypeInv
  <2> QED BY <1>1, <1>6, <2>4, <2>5 DEF epoll_wait, TypeInv
<1>7. CASE accept_fails
  <2>1. backlog' \in {backlog, Tail(backlog)} /\ backlog # <<>>
    BY <1>7 DEF accept_fails
  <2>2. backlog \in Seq(Sockets) /\ Tail(backlog) \in Seq(Sockets)
    BY <1>1, <2>1, HeadTailProperties DEF TypeInv
  <2>3. backlog' \in Seq(Sockets)
    BY <2>1, <2>2
  <2> QED BY <1>1, <1>7, <2>3, NextEventFacts DEF accept_fails, IsEvent, TypeInv
<1>8. CASE accept_unregistered
  BY <1>1, <1>8, NextEventFacts, AcceptFacts DEF accept_unregistered, IsEvent, TypeInv
<1>9. CASE accept_connection
  <2> DEFINE s == Head(backlog)
  <2>1. s \in Sockets /\ next \in Slots /\ Tail(backlog) \in Seq(Sockets)
    BY <1>1, <1>9, AcceptFacts DEF accept_connection, TypeInv
  <2>2. Woken(s) \in Seq(Sockets \union {Server, EventFd})
    BY <1>1, <2>1, WokenFacts
  <2>3. /\ data' = [data EXCEPT ![s] = next] /\ conn' = [conn EXCEPT ![next] = s]
        /\ open' = open \union {s} /\ ready' = Woken(s) /\ backlog' = Tail(backlog)
        /\ peer' = peer /\ NextEvent(shouldContinue) /\ pc = "event"
    BY <1>9 DEF accept_connection, IsEvent
  <2> HIDE DEF s
  <2> QED BY <1>1, <2>1, <2>2, <2>3, NextEventFacts DEF TypeInv
<1>10. CASE handle_stop
  BY <1>1, <1>10, NextEventFacts DEF handle_stop, IsEvent, TypeInv
<1>11. ASSUME NEW i \in Slots, handle_connection_io(i) PROVE TypeInv'
  <2>1. CASE UNCHANGED <<tableVars, kernelVars>>
    BY <1>1, <1>11, <2>1, NextEventFacts DEF handle_connection_io, IsEvent, TypeInv
  <2>2. CASE close_connection(i)
    <3>1. RemoveFirst(ready, conn[i]) \in Seq(Sockets \union {Server, EventFd})
      BY <1>1, RemoveFirstDistinct DEF TypeInv
    <3> QED BY <1>1, <1>11, <2>2, <3>1, NextEventFacts
            DEF handle_connection_io, close_connection, IsEvent, TypeInv
  <2> QED BY <1>11, <2>1, <2>2 DEF handle_connection_io
<1>12. CASE network_finish
  <2>1. open' \subseteq Sockets
    BY <1>1, <1>12 DEF network_finish, TypeInv
  <2> QED BY <1>1, <1>12, <2>1 DEF network_finish, TypeInv
<1>13. CASE UNCHANGED vars
  BY <1>1, <1>13 DEF vars, TypeInv
<1> QED BY <1>2, <1>3, <1>4, <1>5, <1>6, <1>7, <1>8, <1>9, <1>10, <1>11, <1>12, <1>13
        DEF Next, ThreadStep
-----------------------------------------------------------------------------
(* The steps that leave the table and the sockets alone *)
Still ==
    /\ UNCHANGED <<tableVars, open, data>>
    /\ pc' = "done" <=> pc = "done"

LEMMA StillSteps ==
    ASSUME IInv
    PROVE  /\ \A s \in Sockets : Connect(s) \/ Speak(s) \/ HangUp(s) => Still /\ failed' = failed
           /\ platform_network_stop \/ epoll_wait \/ handle_stop => Still /\ failed' = failed
           /\ accept_fails => Still /\ ("epoll_ctl" \in failed => "epoll_ctl" \in failed')
           /\ UNCHANGED vars => Still /\ failed' = failed
           /\ \A i \in Slots : handle_connection_io(i) =>
                 /\ pc = "event" /\ pc' # "done" /\ failed' = failed
                 /\ (Still /\ UNCHANGED <<kernelVars, peer>>) \/ close_connection(i)
<1> USE DEF Still, tableVars, poolVars, kernelVars, envVars
<1>1. \A s \in Sockets : Connect(s) \/ Speak(s) \/ HangUp(s) => Still /\ failed' = failed
  BY DEF Connect, Speak, HangUp
<1>2. platform_network_stop \/ epoll_wait \/ handle_stop => Still /\ failed' = failed
  BY NextEventFacts DEF platform_network_stop, epoll_wait, handle_stop, IsEvent
<1>3. accept_fails => Still /\ ("epoll_ctl" \in failed => "epoll_ctl" \in failed')
  BY NextEventFacts DEF accept_fails, IsEvent
<1>4. UNCHANGED vars => Still /\ failed' = failed
  BY DEF vars
<1>5. ASSUME NEW i \in Slots, handle_connection_io(i)
      PROVE  /\ pc = "event" /\ pc' # "done" /\ failed' = failed
             /\ (Still /\ UNCHANGED <<kernelVars, peer>>) \/ close_connection(i)
  BY <1>5, NextEventFacts DEF handle_connection_io, IsEvent
<1> QED BY <1>1, <1>2, <1>3, <1>4, <1>5

LEMMA TableInvStep == IInv /\ [Next]_vars => TableInv'
<1> SUFFICES ASSUME IInv, [Next]_vars PROVE TableInv'
  OBVIOUS
<1> USE Apart DEF tableVars, poolVars, kernelVars, envVars
<1>1. TypeInv /\ TableInv /\ allocated \subseteq Slots
  BY TableFacts DEF IInv, RoomInv
<1>2. CASE Still
  BY <1>1, <1>2 DEF Still, TableInv, Registered
<1>3. CASE accept_unregistered
  <2>1. /\ pc # "done" /\ allocated \subseteq allocated' /\ conn' = conn /\ data' = data
        /\ open' = open \union {Head(backlog)} /\ data[Head(backlog)] = Unregistered
    BY <1>3, AcceptFacts DEF accept_unregistered, IsEvent, Pool!objpool_add
  <2> QED BY <1>1, <2>1 DEF TableInv, Registered
<1>4. CASE accept_connection
  <2> DEFINE s == Head(backlog)
  <2>1. /\ pc # "done" /\ s \in Sockets \ open /\ next \in Slots \ allocated
        /\ conn[next] \notin Sockets
    BY <1>4, AcceptFacts DEF accept_connection
  <2>2. /\ data' = [data EXCEPT ![s] = next] /\ conn' = [conn EXCEPT ![next] = s]
        /\ open' = open \union {s} /\ allocated' = allocated \union {next}
    BY <1>4 DEF accept_connection, Pool!objpool_add
  <2> HIDE DEF s
  <2> QED BY <1>1, <2>1, <2>2 DEF TypeInv, TableInv, Registered
<1>5. ASSUME NEW i \in Slots, handle_connection_io(i), close_connection(i) PROVE TableInv'
  <2>1. pc # "done" /\ conn[i] \in open /\ data[conn[i]] = i /\ i \in allocated
    BY <1>5, EventFacts DEF handle_connection_io
  <2>2. /\ data' = data /\ conn' = [conn EXCEPT ![i] = Invalid]
        /\ open' = open \ {conn[i]} /\ allocated' = allocated \ {i}
    BY <1>5, <2>1 DEF close_connection, Pool!objpool_remove
  <2> QED BY <1>1, <2>1, <2>2 DEF TypeInv, TableInv, Registered
<1>6. CASE network_finish
  BY <1>6 DEF network_finish, TableInv
<1> QED BY <1>2, <1>3, <1>4, <1>5, <1>6, StillSteps DEF Next, ThreadStep

LEMMA FreshInvStep == IInv /\ [Next]_vars => FreshInv'
<1> SUFFICES ASSUME IInv, [Next]_vars PROVE FreshInv'
  OBVIOUS
<1> USE Apart DEF tableVars, poolVars, kernelVars, envVars
<1>1. TypeInv /\ FreshInv /\ backlog \in Seq(Sockets) /\ Distinct(backlog)
  BY DEF IInv, TypeInv, FreshInv
<1>2. ASSUME UNCHANGED <<open, data, backlog, peer>> PROVE FreshInv'
  BY <1>1, <1>2 DEF FreshInv
<1>3. ASSUME backlog # <<>>, backlog' = Tail(backlog), peer' = peer,
             \A s \in Sockets : s # Head(backlog) => data'[s] = data[s] /\ (s \in open' => s \in open)
      PROVE  FreshInv'
  <2>1. /\ Distinct(Tail(backlog)) /\ Contains(backlog, Head(backlog))
        /\ ~Contains(Tail(backlog), Head(backlog))
        /\ \A y : Contains(Tail(backlog), y) => Contains(backlog, y)
    BY <1>1, <1>3, TailDistinct
  <2> QED BY <1>1, <1>3, <2>1 DEF FreshInv, TypeInv
<1>4. ASSUME NEW s \in Sockets, Connect(s) PROVE FreshInv'
  <2>1. /\ peer[s] = "new" /\ peer' = [peer EXCEPT ![s] = "up"]
        /\ backlog' = Append(backlog, s) /\ open' = open /\ data' = data
    BY <1>4 DEF Connect
  <2>2. ~Contains(backlog, s)
    BY <1>1, <2>1 DEF FreshInv
  <2>3. Distinct(backlog') /\ \A y : Contains(backlog', y) => y = s \/ Contains(backlog, y)
    BY <1>1, <2>1, <2>2, AppendDistinct DEF Contains
  <2> QED BY <1>1, <2>1, <2>3 DEF FreshInv, TypeInv
<1>5. ASSUME NEW s \in Sockets, HangUp(s) PROVE FreshInv'
  BY <1>1, <1>5 DEF HangUp, FreshInv, TypeInv
<1>6. CASE accept_fails
  BY <1>1, <1>2, <1>3, <1>6 DEF accept_fails
<1>7. CASE accept_unregistered
  BY <1>3, <1>7 DEF accept_unregistered
<1>8. CASE accept_connection
  <2>1. \A s \in Sockets : s # Head(backlog) => data'[s] = data[s] /\ (s \in open' => s \in open)
    BY <1>1, <1>8 DEF accept_connection, TypeInv
  <2> QED BY <1>3, <1>8, <2>1 DEF accept_connection
<1>9. ASSUME NEW i \in Slots, handle_connection_io(i), close_connection(i) PROVE FreshInv'
  BY <1>1, <1>9 DEF handle_connection_io, close_connection, FreshInv
<1>10. CASE network_finish
  <2>1. open' \subseteq open /\ backlog' = <<>> /\ UNCHANGED <<data, peer>>
    BY <1>10 DEF network_finish
  <2> QED BY <1>1, <2>1 DEF FreshInv, Distinct, Contains
<1>11. ASSUME NEW s \in Sockets, Speak(s) PROVE FreshInv'
  BY <1>2, <1>11 DEF Speak
<1>12. CASE platform_network_stop \/ epoll_wait \/ handle_stop \/ UNCHANGED vars
  BY <1>2, <1>12 DEF platform_network_stop, epoll_wait, handle_stop, vars
<1>13. ASSUME NEW i \in Slots, UNCHANGED <<kernelVars, peer>> PROVE FreshInv'
  BY <1>2, <1>13
<1> QED BY <1>4, <1>5, <1>6, <1>7, <1>8, <1>9, <1>10, <1>11, <1>12, <1>13, StillSteps
        DEF Next, ThreadStep
-----------------------------------------------------------------------------
(* EventInv, for the ready list and for the batch *)
ReadyInv ==
    /\ Distinct(ready)
    /\ \A k \in 1 .. Len(ready) : ready[k] \in Sockets => ready[k] \in Registered
BatchInv ==
    /\ Distinct(batch)
    /\ \A k \in 1 .. Len(batch) : batch[k] \in Slots => conn[batch[k]] \in Sockets

LEMMA ReadyInvStep == IInv /\ [Next]_vars => ReadyInv'
<1> SUFFICES ASSUME IInv, [Next]_vars PROVE ReadyInv'
  OBVIOUS
<1> USE Apart DEF tableVars, poolVars, kernelVars, envVars
<1>1. TypeInv /\ ReadyInv /\ Distinct(ready) /\ ready \in Seq(Sockets \union {Server, EventFd})
  BY DEF IInv, EventInv, ReadyInv, TypeInv
<1>2. ASSUME ready' = ready, Registered \subseteq Registered' PROVE ReadyInv'
  BY <1>1, <1>2 DEF ReadyInv
<1>3. ASSUME NEW x \in Sockets \union {Server, EventFd}, ready' = Woken(x),
             x \in Sockets => x \in Registered', Registered \subseteq Registered'
      PROVE  ReadyInv'
  <2>1. /\ Distinct(ready')
        /\ \A k \in 1 .. Len(ready') :
              ready'[k] = x \/ \E j \in 1 .. Len(ready) : ready'[k] = ready[j]
    BY <1>1, <1>3, WokenFacts
  <2> QED BY <1>1, <1>3, <2>1 DEF ReadyInv
<1>4. ASSUME NEW s \in Sockets, Connect(s) PROVE ReadyInv'
  BY <1>3, <1>4 DEF Connect, Registered
<1>5. ASSUME NEW s \in Sockets, Speak(s) PROVE ReadyInv'
  <2>1. s \in Registered /\ Registered' = Registered /\ ready' = Woken(s)
    BY <1>5 DEF Speak, Registered
  <2> QED BY <1>3, <2>1
<1>6. ASSUME NEW s \in Sockets, HangUp(s) PROVE ReadyInv'
  <2>1. Registered' = Registered
    BY <1>6 DEF HangUp, Registered
  <2> QED BY <1>2, <1>3, <1>6, <2>1 DEF HangUp
<1>7. CASE platform_network_stop
  BY <1>3, <1>7 DEF platform_network_stop, Registered
<1>8. CASE epoll_wait
  <2> DEFINE n == IF Len(ready) < BatchSize THEN Len(ready) ELSE BatchSize
             rest == SubSeq(ready, n + 1, Len(ready))
  <2>1. n \in 1 .. Len(ready) /\ ready' = rest /\ Registered' = Registered
    BY <1>1, <1>8 DEF epoll_wait, Registered
  <2> HIDE DEF n
  <2>2. /\ Len(rest) = Len(ready) - n /\ Len(ready) \in Nat
        /\ \A k \in 1 .. Len(ready) - n : rest[k] = ready[k + n] /\ k + n \in 1 .. Len(ready)
    BY <1>1, <2>1
  <2> HIDE DEF rest
  <2>3. \A j, k \in 1 .. Len(rest) : rest[j] = rest[k] => j = k
    <3> SUFFICES ASSUME NEW j \in 1 .. Len(rest), NEW k \in 1 .. Len(rest), rest[j] = rest[k]
                 PROVE  j = k
      OBVIOUS
    <3>1. ready[j + n] = ready[k + n] /\ j + n \in 1 .. Len(ready) /\ k + n \in 1 .. Len(ready)
      BY <2>2
    <3>2. j + n = k + n
      BY <1>1, <3>1 DEF Distinct
    <3> QED BY <2>1, <2>2, <3>2
  <2> QED BY <1>1, <2>1, <2>2, <2>3 DEF ReadyInv, Distinct
<1>9. CASE accept_fails
  BY <1>2, <1>9 DEF accept_fails, Registered
<1>10. CASE accept_unregistered
  BY <1>2, <1>10 DEF accept_unregistered, Registered
<1>11. CASE accept_connection
  <2> DEFINE s == Head(backlog)
  <2>1. s \in Sockets \ open /\ next \in Slots
    BY <1>11, AcceptFacts DEF accept_connection
  <2>2. data' = [data EXCEPT ![s] = next] /\ open' = open \union {s} /\ ready' = Woken(s)
    BY <1>11 DEF accept_connection
  <2> HIDE DEF s
  <2>3. s \in Registered' /\ Registered \subseteq Registered'
    BY <1>1, <2>1, <2>2 DEF Registered, TypeInv
  <2> QED BY <1>3, <2>1, <2>2, <2>3
<1>12. CASE handle_stop
  BY <1>2, <1>12 DEF handle_stop, Registered
<1>13. ASSUME NEW i \in Slots, close_connection(i) PROVE ReadyInv'
  <2>1. /\ Distinct(ready')
        /\ \A k \in 1 .. Len(ready') :
              ready'[k] # conn[i] /\ \E j \in 1 .. Len(ready) : ready'[k] = ready[j]
    BY <1>1, <1>13, RemoveFirstDistinct DEF close_connection
  <2>2. Registered' = Registered \ {conn[i]}
    BY <1>13 DEF close_connection, Registered
  <2> QED BY <1>1, <2>1, <2>2 DEF ReadyInv
<1>14. CASE network_finish
  <2>1. ready' = <<>>
    BY <1>14 DEF network_finish
  <2> QED BY <2>1 DEF ReadyInv, Distinct
<1>15. CASE UNCHANGED vars
  BY <1>2, <1>15 DEF vars, Registered
<1>16. CASE UNCHANGED <<kernelVars, peer>>
  BY <1>2, <1>16 DEF Registered
<1> QED BY <1>4, <1>5, <1>6, <1>7, <1>8, <1>9, <1>10, <1>11, <1>12, <1>13, <1>14, <1>15, <1>16,
           StillSteps
        DEF Next, ThreadStep

LEMMA BatchInvStep == IInv /\ [Next]_vars => BatchInv'
<1> SUFFICES ASSUME IInv, [Next]_vars PROVE BatchInv'
  OBVIOUS
<1> USE Apart DEF tableVars, poolVars, kernelVars, envVars
<1>1. TypeInv /\ BatchInv
  BY DEF IInv, EventInv, BatchInv
<1>2. ASSUME UNCHANGED <<batch, conn>> PROVE BatchInv'
  BY <1>1, <1>2 DEF BatchInv
<1>3. ASSUME NEW c, pc = "event", NextEvent(c),
             \A k \in 1 .. Len(batch') : batch'[k] \in Slots =>
                 conn'[batch'[k]] \in {conn[batch'[k]]} \union Sockets
      PROVE  BatchInv'
  <2>1. /\ Distinct(batch')
        /\ \A k \in 1 .. Len(batch') : k + 1 \in 1 .. Len(batch) /\ batch'[k] = batch[k + 1]
    BY <1>3, NextEventFacts
  <2> QED BY <1>1, <1>3, <2>1 DEF BatchInv
<1>4. CASE epoll_wait
  <2> DEFINE n == IF Len(ready) < BatchSize THEN Len(ready) ELSE BatchSize
  <2>1. n \in 1 .. Len(ready) /\ batch' = [i \in 1 .. n |-> DataOf(ready[i])] /\ conn' = conn
    BY <1>1, <1>4 DEF epoll_wait, TypeInv
  <2>2. Len(batch') = n
    BY <2>1
  <2> HIDE DEF n
  <2>3. \A k \in 1 .. n : ready[k] \in Sockets \union {Server, EventFd}
    BY <1>1, <2>1 DEF TypeInv
  <2>4. \A k \in 1 .. n : ready[k] \in Sockets =>
            /\ DataOf(ready[k]) \in Slots /\ conn[DataOf(ready[k])] = ready[k]
    BY <1>1, <1>4, <2>1 DEF IInv, EventInv, TableInv, TypeInv, DataOf, Registered, epoll_wait
  <2>5. \A k \in 1 .. n : ready[k] \notin Sockets =>
            DataOf(ready[k]) = ready[k] /\ DataOf(ready[k]) \notin Slots
    BY <2>3 DEF DataOf
  <2>6. \A j, k \in 1 .. n : DataOf(ready[j]) = DataOf(ready[k]) => ready[j] = ready[k]
    BY <2>4, <2>5
  <2>7. \A j, k \in 1 .. n : ready[j] = ready[k] => j = k
    BY <1>1, <2>1 DEF IInv, EventInv, Distinct, TypeInv
  <2>8. Distinct(batch')
    BY <2>1, <2>2, <2>6, <2>7 DEF Distinct
  <2> QED BY <2>1, <2>2, <2>4, <2>5, <2>8 DEF BatchInv
<1>5. CASE accept_fails
  BY <1>3, <1>5 DEF accept_fails, IsEvent
<1>6. CASE accept_unregistered
  BY <1>3, <1>6 DEF accept_unregistered, IsEvent
<1>7. CASE accept_connection
  <2>1. /\ conn' = [conn EXCEPT ![next] = Head(backlog)] /\ Head(backlog) \in Sockets
        /\ pc = "event" /\ NextEvent(shouldContinue)
    BY <1>7, AcceptFacts DEF accept_connection, IsEvent
  <2>2. \A i \in Slots : conn'[i] \in {conn[i]} \union Sockets
    BY <1>1, <2>1 DEF TypeInv
  <2> QED BY <1>3, <2>1, <2>2
<1>8. CASE handle_stop
  BY <1>3, <1>8 DEF handle_stop, IsEvent
<1>9. ASSUME NEW i \in Slots, handle_connection_io(i) PROVE BatchInv'
  <2>1. /\ pc = "event" /\ IsEvent(i) /\ NextEvent(shouldContinue)
    BY <1>9 DEF handle_connection_io, IsEvent
  <2>2. \A j \in Slots : j # i => conn'[j] = conn[j]
    BY <1>1, <1>9 DEF handle_connection_io, close_connection, TypeInv
  <2>3. \A k \in 1 .. Len(batch') : batch'[k] # i
    BY <2>1, EventFacts, NextEventFacts
  <2> QED BY <1>3, <2>1, <2>2, <2>3
<1>10. CASE network_finish
  BY <1>2, <1>10 DEF network_finish
<1>11. ASSUME NEW s \in Sockets, Connect(s) \/ Speak(s) \/ HangUp(s) PROVE BatchInv'
  BY <1>2, <1>11 DEF Connect, Speak, HangUp
<1>12. CASE platform_network_stop \/ UNCHANGED vars
  BY <1>2, <1>12 DEF platform_network_stop, vars
<1> QED BY <1>4, <1>5, <1>6, <1>7, <1>8, <1>9, <1>10, <1>11, <1>12 DEF Next, ThreadStep
-----------------------------------------------------------------------------
(* Of the connections that are alive, only a new peer adds one. *)
LEMMA LiveStep == IInv /\ [Next]_vars => Cardinality(Live') <= MaxLive
<1> SUFFICES ASSUME IInv, [Next]_vars PROVE Cardinality(Live') <= MaxLive
  OBVIOUS
<1> USE Apart DEF tableVars, poolVars, kernelVars, envVars
<1>1. /\ TypeInv /\ backlog \in Seq(Sockets) /\ Distinct(backlog) /\ Cardinality(Live) <= MaxLive
      /\ IsFiniteSet(Live) /\ Cardinality(Live) \in Nat
  <2>1. Live \subseteq Sockets
    BY DEF Live
  <2> QED BY <2>1, SocketsFinite DEF IInv, TypeInv, FreshInv, RoomInv
<1>2. ASSUME Live' \subseteq Live PROVE Cardinality(Live') <= MaxLive
  <2>1. Cardinality(Live') <= Cardinality(Live) /\ Cardinality(Live') \in Nat
    BY <1>1, <1>2, FS_Subset, FS_CardinalityType
  <2> QED BY <1>1, <2>1
<1>3. ASSUME backlog # <<>>, backlog' = Tail(backlog), peer' = peer,
             open' \subseteq open \union {Head(backlog)}
      PROVE  Live' \subseteq Live
  <2>1. /\ Contains(backlog, Head(backlog))
        /\ \A y : Contains(Tail(backlog), y) => Contains(backlog, y)
    BY <1>1, <1>3, TailDistinct
  <2> QED BY <1>3, <2>1 DEF Live
<1>4. ASSUME peer' = peer, backlog' = backlog, open' \subseteq open PROVE Live' \subseteq Live
  BY <1>4 DEF Live
<1>5. ASSUME NEW s \in Sockets, Connect(s) PROVE Cardinality(Live') <= MaxLive
  <2>1. /\ peer' = [peer EXCEPT ![s] = "up"] /\ open' = open /\ backlog' = Append(backlog, s)
        /\ Cardinality(Live) < MaxLive
    BY <1>5 DEF Connect
  <2>2. \A y : Contains(backlog', y) => y = s \/ Contains(backlog, y)
    BY <1>1, <2>1 DEF Contains
  <2>3. Live' \subseteq Live \union {s}
    BY <1>1, <2>1, <2>2 DEF Live, TypeInv
  <2>4. IsFiniteSet(Live \union {s}) /\ Cardinality(Live \union {s}) <= Cardinality(Live) + 1
    <3>1. /\ IsFiniteSet(Live \union {s})
          /\ Cardinality(Live \union {s}) =
                IF s \in Live THEN Cardinality(Live) ELSE Cardinality(Live) + 1
      BY <1>1, FS_AddElement, Zenon
    <3> QED BY <1>1, <3>1
  <2>5. /\ Cardinality(Live') <= Cardinality(Live \union {s}) /\ Cardinality(Live') \in Nat
        /\ Cardinality(Live \union {s}) \in Nat
    BY <2>3, <2>4, FS_Subset, FS_CardinalityType
  <2> QED BY <1>1, <2>1, <2>4, <2>5
<1>6. ASSUME NEW s \in Sockets, HangUp(s) PROVE Live' \subseteq Live
  BY <1>1, <1>6 DEF HangUp, Live, TypeInv
<1>7. CASE accept_fails
  BY <1>2, <1>3, <1>4, <1>7 DEF accept_fails
<1>8. CASE accept_unregistered \/ accept_connection
  BY <1>2, <1>3, <1>8 DEF accept_unregistered, accept_connection
<1>9. ASSUME NEW i \in Slots, handle_connection_io(i) PROVE Live' \subseteq Live
  BY <1>4, <1>9 DEF handle_connection_io, close_connection
<1>10. CASE network_finish
  <2>1. open' \subseteq open /\ backlog' = <<>> /\ peer' = peer
    BY <1>10 DEF network_finish
  <2> QED BY <1>2, <2>1 DEF Live, Contains
<1>11. ASSUME NEW s \in Sockets, Speak(s) PROVE Live' \subseteq Live
  BY <1>4, <1>11 DEF Speak
<1>12. CASE platform_network_stop \/ epoll_wait \/ handle_stop \/ UNCHANGED vars
  BY <1>2, <1>4, <1>12 DEF platform_network_stop, epoll_wait, handle_stop, vars
<1> QED BY <1>2, <1>5, <1>6, <1>7, <1>8, <1>9, <1>10, <1>11, <1>12 DEF Next, ThreadStep

(* One slot more for one socket more. *)
LEMMA AddedFacts ==
    ASSUME IInv, [Next]_vars, MaxLive < Capacity, pc = "event", Pool!objpool_add,
           NEW s \in Sockets \ open, open' = open \union {s}
    PROVE  ~wasFull' /\ size' = Cardinality(open')
<1>1. /\ ~wasFull /\ size = Cardinality(open) /\ size = Cardinality(allocated) /\ size \in Nat
      /\ next \in Slots \ allocated /\ allocated \subseteq Slots /\ open \subseteq Sockets
  BY TableFacts DEF IInv, RoomInv, TypeInv
<1>2. IsFiniteSet(open) /\ IsFiniteSet(allocated) /\ Cardinality(Slots) = Capacity
  <2>1. IsFiniteSet(Slots) /\ Cardinality(Slots) = Capacity
    BY Apart, FS_Interval DEF Slots
  <2> QED BY <1>1, <2>1, SocketsFinite, FS_Subset
<1>3. allocated' = allocated \union {next} /\ size' = size + 1
      /\ wasFull' = (wasFull \/ allocated' = Slots)
  BY DEF Pool!objpool_add, Pool!PoolSlots, Slots
<1>4. Cardinality(open') = size + 1 /\ Cardinality(allocated') = size + 1
  BY <1>1, <1>2, <1>3, FS_AddElement
<1>5. Cardinality(open') <= MaxLive
  <2>1. open' \subseteq Live' /\ Live' \subseteq Sockets
    BY <1>1 DEF Live
  <2>2. Cardinality(open') <= Cardinality(Live') /\ Cardinality(Live') \in Nat
    BY <2>1, SocketsFinite, FS_Subset
  <2> QED BY <1>1, <1>4, <2>2, LiveStep, Apart
<1>6. allocated' # Slots
  BY <1>1, <1>2, <1>4, <1>5, Apart
<1> QED BY <1>1, <1>3, <1>4, <1>6

LEMMA RoomInvStep ==
    ASSUME MaxLive < Capacity, IInv, [Next]_vars
    PROVE  RoomInv'
<1> USE Apart DEF tableVars, poolVars, kernelVars, envVars
<1>1. TypeInv /\ RoomInv /\ Table!IInv /\ Cardinality(Live') <= MaxLive
  BY LiveStep DEF IInv, RoomInv
<1>2. ASSUME UNCHANGED poolVars, open' = open, pc' = "done" <=> pc = "done" PROVE RoomInv'
  BY <1>1, <1>2, TableStep DEF RoomInv
<1>3. CASE Still
  BY <1>2, <1>3 DEF Still
<1>4. CASE accept_unregistered \/ accept_connection
  <2>1. /\ pc = "event" /\ Pool!objpool_add /\ Head(backlog) \in Sockets \ open
        /\ open' = open \union {Head(backlog)}
    BY <1>4, AcceptFacts DEF accept_unregistered, accept_connection
  <2>2. ~wasFull' /\ size' = Cardinality(open')
    BY <2>1, AddedFacts
  <2> QED BY <1>1, <2>1, <2>2, TableStep DEF RoomInv
<1>5. ASSUME NEW i \in Slots, handle_connection_io(i), close_connection(i) PROVE RoomInv'
  <2>1. /\ pc = "event" /\ i \in allocated /\ conn[i] \in open
        /\ Pool!objpool_remove(i) /\ open' = open \ {conn[i]}
    BY <1>5, EventFacts DEF handle_connection_io, close_connection
  <2>2. wasFull' = wasFull /\ size' = size - 1
    BY <2>1 DEF Pool!objpool_remove
  <2>3. Cardinality(open') = Cardinality(open) - 1
    BY <1>1, <2>1, SocketsFinite, FS_RemoveElement DEF TypeInv
  <2> QED BY <1>1, <2>1, <2>2, <2>3, TableStep DEF RoomInv
<1>6. CASE network_finish
  <2>1. UNCHANGED poolVars /\ pc' = "done"
    BY <1>6 DEF network_finish
  <2> QED BY <1>1, <2>1, TableStep DEF RoomInv
<1> QED BY <1>3, <1>4, <1>5, <1>6, StillSteps DEF Next, ThreadStep

LEMMA LeakInvStep == IInv /\ [Next]_vars => LeakInv'
<1> SUFFICES ASSUME IInv, [Next]_vars PROVE LeakInv'
  OBVIOUS
<1> USE Apart DEF tableVars, poolVars, kernelVars, envVars
<1>1. TypeInv /\ TableInv /\ LeakInv /\ allocated \subseteq Slots
  BY TableFacts DEF IInv, RoomInv
<1>2. ASSUME Still, "epoll_ctl" \in failed => "epoll_ctl" \in failed' PROVE LeakInv'
  BY <1>1, <1>2 DEF Still, LeakInv, Registered
<1>3. CASE accept_unregistered
  BY <1>3 DEF accept_unregistered, LeakInv
<1>4. CASE accept_connection
  <2> DEFINE s == Head(backlog)
  <2>1. /\ pc = "event" /\ NextEvent(shouldContinue) /\ s \in Sockets /\ next \in Slots
        /\ data' = [data EXCEPT ![s] = next] /\ conn' = [conn EXCEPT ![next] = s]
        /\ open' = open \union {s} /\ allocated' = allocated \union {next} /\ failed' = failed
    BY <1>4, AcceptFacts DEF accept_connection, Pool!objpool_add, IsEvent
  <2>2. pc' # "done"
    BY <2>1, NextEventFacts
  <2> HIDE DEF s
  <2> QED BY <1>1, <2>1, <2>2 DEF TypeInv, LeakInv, Registered
<1>5. ASSUME NEW i \in Slots, handle_connection_io(i), close_connection(i) PROVE LeakInv'
  <2>1. /\ pc = "event" /\ pc' # "done" /\ i \in allocated /\ failed' = failed
    BY <1>5, EventFacts, StillSteps DEF handle_connection_io
  <2>2. /\ data' = data /\ conn' = [conn EXCEPT ![i] = Invalid]
        /\ open' = open \ {conn[i]} /\ allocated' = allocated \ {i}
    BY <1>5, <2>1 DEF close_connection, Pool!objpool_remove
  <2> QED BY <1>1, <2>1, <2>2 DEF TypeInv, LeakInv, Registered
<1>6. CASE network_finish
  <2> DEFINE held == {conn[i] : i \in allocated}
  <2>1. /\ pc = "network_finish" /\ pc' = "done" /\ data' = data /\ failed' = failed
        /\ held \subseteq Sockets => open' = open \ held
    BY <1>6 DEF network_finish
  <2>2. SUFFICES ASSUME "epoll_ctl" \notin failed PROVE open' = {}
    BY <2>1 DEF LeakInv
  <2>3. held \subseteq Sockets /\ open \subseteq held
    BY <1>1, <2>1, <2>2 DEF LeakInv, TableInv, Registered
  <2> QED BY <2>1, <2>3
<1> QED BY <1>2, <1>3, <1>4, <1>5, <1>6, StillSteps DEF Next, ThreadStep
-----------------------------------------------------------------------------
LEMMA Inductive ==
    ASSUME MaxLive < Capacity
    PROVE  Spec => []IInv
<1>1. IInv /\ [Next]_vars => IInv'
  <2> SUFFICES ASSUME IInv, [Next]_vars PROVE IInv'
    OBVIOUS
  <2>1. TypeInv' /\ TableInv' /\ FreshInv' /\ LeakInv'
    BY TypeStep, TableInvStep, FreshInvStep, LeakInvStep
  <2>2. EventInv'
    BY ReadyInvStep, BatchInvStep DEF ReadyInv, BatchInv, EventInv
  <2>3. RoomInv'
    BY RoomInvStep
  <2> QED BY <2>1, <2>2, <2>3 DEF IInv
<1> QED BY <1>1, InitIInv, PTL DEF Spec

(* EventsReachTheirConnection, for any number of connections: whatever is  *)
(* closed and accepted in the middle of a batch, the index that an event   *)
(* brings leads to the connection that it is about.                        *)
THEOREM EventsFindConnection ==
    ASSUME MaxLive < Capacity
    PROVE  Spec => []EventsReachTheirConnection
<1>1. IInv => EventsReachTheirConnection
  <2> SUFFICES ASSUME IInv PROVE EventsReachTheirConnection
    OBVIOUS
  <2>1. \A s \in Registered : pc # "done" => data[s] \in allocated /\ conn[data[s]] = s
    BY DEF IInv, TableInv
  <2>2. ASSUME NEW k \in 1 .. Len(batch), batch[k] \in Slots
        PROVE  batch[k] \in allocated /\ conn[batch[k]] \in Registered
    <3>1. pc = "event" /\ conn[batch[k]] \in Sockets
      BY <2>2 DEF IInv, TypeInv, EventInv
    <3> QED BY <2>2, <3>1, Apart DEF IInv, TableInv, Registered
  <2> QED BY <2>1, <2>2 DEF EventsReachTheirConnection
<1> QED BY <1>1, Inductive, PTL

(* NothingLeaks, for any number of connections: as long as no epoll_ctl    *)
(* failed, the slots in use are those of the open sockets, and all are     *)
(* closed when the thread ends.                                            *)
THEOREM SlotsAndSocketsKept ==
    ASSUME MaxLive < Capacity
    PROVE  Spec => []NothingLeaks
<1>1. IInv => NothingLeaks
  BY TableFacts DEF IInv, TypeInv, TableInv, RoomInv, LeakInv, NothingLeaks
<1> QED BY <1>1, Inductive, PTL

(* The table never fills up under that load, so that accept_connection     *)
(* always gets a slot that nothing refers to.                              *)
THEOREM TableNeverFull ==
    ASSUME MaxLive < Capacity
    PROVE  Spec => [](~wasFull /\ next \notin allocated)
<1>1. IInv => ~wasFull /\ next \notin allocated
  BY TableFacts DEF IInv, RoomInv
<1> QED BY <1>1, Inductive, PTL
=============================================================================
