------------------------- MODULE ConnectionIOProofs -------------------------
(***************************************************************************)
(* Proofs of the safety invariants of ConnectionIO, for every payload,     *)
(* reply and capacity: that no byte is lost, and, when a packet fits into  *)
(* the receive buffer, that the thread neither goes deaf nor leaves        *)
(* anything behind when it returns to epoll_wait.                          *)
(***************************************************************************)
EXTENDS ConnectionIO, TLAPS

(* The thread is not in the middle of reading. *)
Quiet == pc \in {"epoll_wait", "in", "out", "empty"}

Drained == sockIn = 0 /\ ~fin /\ ~rst

(* Outside of the reading loop the thread waits for input, with room in the *)
(* buffer and no packet left in it; a fill that has read nothing yet is as  *)
(* good as that, but for pending_recv.                                      *)
QuietInv ==
    /\ Open /\ Quiet => pendingRecv /\ recvBuf < RecvCapacity /\ ~HasPacket
    /\ pc = "fill" /\ res = IOC_AGAIN =>
          recvBuf < RecvCapacity /\ ~HasPacket /\ code \in {IOC_OK, IOC_AGAIN}
    /\ pc = "fill" /\ code = IOC_AGAIN => pendingRecv
    /\ pc \in {"in", "fill", "receive", "flush"} => Open

(* pending_recv promises that an empty socket was seen since the last      *)
(* event, and that the next event is not missed.                           *)
InputInv ==
    /\ Open /\ pendingRecv /\ ~ready /\ pc # "in" => Drained
    /\ Open /\ ~ready /\ pc = "in" => Drained \/ "EPOLLIN" \in events

(* pending_send promises a write event: one the kernel still owes, one on  *)
(* the ready list, or the one that is being handled.                       *)
OutputInv ==
    /\ pc = "flush" => sendBuf > 0
    /\ pc \in {"flush", "empty"} => ~pendingSend
    /\ Open /\ sendBuf > 0 /\ pc \notin {"flush", "empty"} => pendingSend \/ rst
    /\ Open /\ pendingSend /\ ~noSpace =>
          /\ sockOut < SockCapacity
          /\ ready \/ ("EPOLLOUT" \in events /\ pc \in {"in", "fill", "receive", "out", "aborted"})
-----------------------------------------------------------------------------
(* The minimum of two integers, as FiniteSetsExt defines it *)
LEMMA MinOfTwo ==
    ASSUME NEW a \in Int, NEW b \in Int
    PROVE  Min({a, b}) = IF a <= b THEN a ELSE b
<1>1. \E x \in {a, b} : \A y \in {a, b} : x <= y
  OBVIOUS
<1>2. Min({a, b}) \in {a, b} /\ \A y \in {a, b} : Min({a, b}) <= y
  BY <1>1 DEF Min
<1> QED BY <1>2

(* What a read takes, and its code *)
LEMMA RecvFacts ==
    ASSUME TypeOK, recvBuf < RecvCapacity
    PROVE  /\ RecvSize \in Nat /\ RecvSize <= sockIn /\ RecvSize <= RecvCapacity - recvBuf
           /\ RecvCode \in IOC_ERROR .. IOC_AGAIN
           /\ RecvCode = IOC_AGAIN => Drained
           /\ Min({res, RecvCode}) \in IOC_ERROR .. IOC_AGAIN
           /\ Min({res, RecvCode}) = IOC_AGAIN => RecvCode = IOC_AGAIN
<1>1. /\ sockIn \in Nat /\ recvBuf \in Nat /\ RecvCapacity \in Nat
      /\ res \in IOC_ERROR .. IOC_AGAIN
  BY ConnectionAssumption DEF TypeOK
<1>2. RecvSize = IF sockIn <= RecvCapacity - recvBuf THEN sockIn ELSE RecvCapacity - recvBuf
  BY <1>1, MinOfTwo DEF RecvSize
<1>3. RecvCode \in IOC_ERROR .. IOC_AGAIN /\ (RecvCode = IOC_AGAIN => Drained)
  BY <1>1 DEF RecvCode, Drained, TypeOK, IOC_ERROR, IOC_CLOSED, IOC_OK, IOC_AGAIN
<1>4. Min({res, RecvCode}) = IF res <= RecvCode THEN res ELSE RecvCode
  BY <1>1, <1>3, MinOfTwo DEF IOC_ERROR, IOC_AGAIN
<1> QED BY <1>1, <1>2, <1>3, <1>4 DEF IOC_ERROR, IOC_AGAIN

(* What a send takes *)
LEMMA RoomFacts ==
    ASSUME TypeOK
    PROVE  /\ Room \in Nat /\ Room <= sendBuf /\ Room <= SockCapacity - sockOut
           /\ sendBuf > 0 /\ Room = 0 => sockOut = SockCapacity
<1>1. sendBuf \in Nat /\ sockOut \in Nat /\ SockCapacity \in Nat /\ sockOut <= SockCapacity
  BY ConnectionAssumption DEF TypeOK
<1>2. Room = IF sendBuf <= SockCapacity - sockOut THEN sendBuf ELSE SockCapacity - sockOut
  BY <1>1, MinOfTwo DEF Room
<1> QED BY <1>1, <1>2

(* What the length prefix leaves in the buffer *)
LEMMA PacketFacts ==
    ASSUME TypeOK
    PROVE  /\ Unprefixed \in Nat /\ Unprefixed <= recvBuf
           /\ HasLength /\ ~lenRead => recvBuf = Unprefixed + 1
           /\ lenRead \/ recvBuf = 0 => Unprefixed = recvBuf
           /\ HasPacket => Unprefixed - Payload \in Nat
BY ConnectionAssumption DEF TypeOK, Unprefixed, HasLength, HasPacket
-----------------------------------------------------------------------------
USE DEF IOC_ERROR, IOC_CLOSED, IOC_OK, IOC_AGAIN

(* TypeOK in two parts: the numbers, and the control state. *)
NumbersOK ==
    /\ code \in IOC_ERROR .. IOC_AGAIN /\ res \in IOC_ERROR .. IOC_AGAIN
    /\ recvBuf \in 0 .. RecvCapacity
    /\ sendBuf \in Nat /\ closes \in Nat
    /\ sockIn \in 0 .. SockCapacity /\ sockOut \in 0 .. SockCapacity
    /\ peerSent \in Nat /\ peerGot \in Nat /\ handled \in Nat /\ queued \in Nat

ControlOK ==
    /\ pc \in {"epoll_wait", "in", "fill", "receive", "flush", "out", "empty", "aborted"}
    /\ events \subseteq {"EPOLLIN", "EPOLLOUT"}
    /\ pendingRecv \in BOOLEAN /\ pendingSend \in BOOLEAN /\ lenRead \in BOOLEAN
    /\ fin \in BOOLEAN /\ rst \in BOOLEAN /\ ready \in BOOLEAN /\ noSpace \in BOOLEAN

LEMMA TypeParts == TypeOK <=> NumbersOK /\ ControlOK
BY Zenon DEF TypeOK, NumbersOK, ControlOK

(* Every step keeps the types of the numbers. *)
LEMMA NumbersStep == TypeOK /\ [Next]_vars => NumbersOK'
<1> SUFFICES ASSUME TypeOK, NumbersOK, [Next]_vars PROVE NumbersOK'
  BY TypeParts
<1> USE ConnectionAssumption DEF threadVars, recvVars, sendVars, sockVars, peerVars, countVars
<1>1. CASE epoll_wait
  BY <1>1 DEF epoll_wait, NumbersOK
<1>2. CASE handle_in
  BY <1>2 DEF handle_in, Fill, NumbersOK
<1>3. CASE fill_recv
  <2>1. /\ RecvSize \in Nat /\ RecvSize <= sockIn /\ RecvSize <= RecvCapacity - recvBuf
        /\ RecvCode \in IOC_ERROR .. IOC_AGAIN /\ Min({res, RecvCode}) \in IOC_ERROR .. IOC_AGAIN
    BY <1>3, RecvFacts DEF fill_recv
  <2> QED BY <1>3, <2>1 DEF fill_recv, NumbersOK
<1>4. CASE fill_return
  BY <1>4 DEF fill_return, close_connection, NumbersOK
<1>5. CASE receive_again
  BY <1>5, PacketFacts DEF receive_again, Fill, NumbersOK
<1>6. CASE receive_error
  BY <1>6, PacketFacts DEF receive_error, TakePacket, close_connection, NumbersOK
<1>7. CASE receive_silent
  BY <1>7, PacketFacts DEF receive_silent, TakePacket, NumbersOK
<1>8. CASE receive_reply
  BY <1>8, PacketFacts DEF receive_reply, TakePacket, NumbersOK
<1>9. CASE send_packet
  BY <1>9, RoomFacts DEF send_packet, NumbersOK
<1>10. CASE handle_out
  BY <1>10 DEF handle_out, NumbersOK
<1>11. CASE empty_buffer
  BY <1>11, RoomFacts DEF empty_buffer, SendWouldBlock, close_connection, NumbersOK
<1>12. CASE PeerSend
  BY <1>12 DEF PeerSend, NumbersOK
<1>13. CASE PeerRead
  BY <1>13 DEF PeerRead, NumbersOK
<1>14. CASE PeerClose
  BY <1>14 DEF PeerClose, NumbersOK
<1>15. CASE PeerReset
  BY <1>15 DEF PeerReset, NumbersOK
<1>16. CASE receive_aborts \/ UNCHANGED vars
  BY <1>16 DEF receive_aborts, vars, NumbersOK
<1> QED BY <1>1, <1>2, <1>3, <1>4, <1>5, <1>6, <1>7, <1>8, <1>9, <1>10, <1>11, <1>12, <1>13,
           <1>14, <1>15, <1>16 DEF Next, ThreadStep

(* Every step keeps the types of the control state. *)
LEMMA ControlStep == TypeOK /\ [Next]_vars => ControlOK'
<1> SUFFICES ASSUME ControlOK, [Next]_vars PROVE ControlOK'
  BY TypeParts
<1> USE DEF threadVars, recvVars, sendVars, sockVars, peerVars, countVars
<1>1. CASE epoll_wait
  BY <1>1, Zenon DEF epoll_wait, ControlOK
<1>2. CASE handle_in
  BY <1>2, Zenon DEF handle_in, Fill, ControlOK
<1>3. CASE fill_recv
  BY <1>3, Zenon DEF fill_recv, NotePendingRecv, ControlOK
<1>4. CASE fill_return
  BY <1>4, Zenon DEF fill_return, close_connection, ControlOK
<1>5. CASE receive_again
  BY <1>5, Zenon DEF receive_again, Fill, KeepLength, HasLength, ControlOK
<1>6. CASE receive_error
  BY <1>6, Zenon DEF receive_error, TakePacket, close_connection, ControlOK
<1>7. CASE receive_silent
  BY <1>7, Zenon DEF receive_silent, TakePacket, ControlOK
<1>8. CASE receive_reply
  BY <1>8, Zenon DEF receive_reply, TakePacket, ControlOK
<1>9. CASE send_packet
  BY <1>9, Zenon DEF send_packet, SendWouldBlock, ControlOK
<1>10. CASE handle_out
  BY <1>10, Zenon DEF handle_out, ControlOK
<1>11. CASE empty_buffer
  BY <1>11, Zenon DEF empty_buffer, SendWouldBlock, close_connection, ControlOK
<1>12. CASE PeerSend
  BY <1>12, Zenon DEF PeerSend, ControlOK
<1>13. CASE PeerRead
  BY <1>13, Zenon DEF PeerRead, ControlOK
<1>14. CASE PeerClose
  BY <1>14, Zenon DEF PeerClose, ControlOK
<1>15. CASE PeerReset
  BY <1>15, Zenon DEF PeerReset, ControlOK
<1>16. CASE receive_aborts
  BY <1>16, Zenon DEF receive_aborts, ControlOK
<1>17. CASE UNCHANGED vars
  BY <1>17, Zenon DEF vars, ControlOK
<1> QED BY <1>1, <1>2, <1>3, <1>4, <1>5, <1>6, <1>7, <1>8, <1>9, <1>10, <1>11, <1>12, <1>13,
           <1>14, <1>15, <1>16, <1>17 DEF Next, ThreadStep

LEMMA TypeStep == TypeOK /\ [Next]_vars => TypeOK'
<1> SUFFICES ASSUME TypeOK, [Next]_vars PROVE TypeOK'
  OBVIOUS
<1>1. NumbersOK' /\ ControlOK'
  BY NumbersStep, ControlStep
<1> QED BY <1>1, Zenon DEF TypeOK, NumbersOK, ControlOK

LEMMA InitTypeOK == Init => TypeOK
<1>1. Init => NumbersOK
  BY ConnectionAssumption DEF Init, NumbersOK
<1>2. Init => ControlOK
  BY Zenon DEF Init, ControlOK
<1> QED BY <1>1, <1>2, TypeParts

(* Type correctness of the connection's state, for every constant. *)
THEOREM TypeCorrect == Spec => []TypeOK
BY InitTypeOK, TypeStep, PTL DEF Spec
-----------------------------------------------------------------------------
(* The units the server has read and not handled, and those it has handled. *)
PacketSize == 1 + Payload
Unhandled == recvBuf + (IF lenRead THEN 1 ELSE 0)
Taken == handled * PacketSize

LEMMA UnhandledType == TypeOK => Unhandled \in Nat /\ PacketSize \in Nat /\ Taken \in Nat
<1> SUFFICES ASSUME TypeOK PROVE Unhandled \in Nat /\ PacketSize \in Nat /\ Taken \in Nat
  OBVIOUS
<1>1. Unhandled \in Nat /\ PacketSize \in Nat
  BY ConnectionAssumption DEF TypeOK, Unhandled, PacketSize
<1>2. handled \in Nat
  BY DEF TypeOK
<1> QED BY <1>1, <1>2 DEF Taken

(* A packet taken out of the buffer is its prefix and its payload. *)
LEMMA TakeFacts ==
    ASSUME TypeOK, HasPacket, lenRead' = FALSE, recvBuf' = Unprefixed - Payload
    PROVE  Unhandled = Unhandled' + PacketSize
BY PacketFacts, ConnectionAssumption DEF TypeOK, Unhandled, PacketSize, HasPacket

(* A length prefix moves from the buffer to the packet cache. *)
LEMMA PrefixFacts ==
    ASSUME TypeOK, KeepLength, recvBuf' = Unprefixed
    PROVE  Unhandled' = Unhandled
<1>1. CASE lenRead
  BY <1>1 DEF TypeOK, Unhandled, KeepLength, HasLength, Unprefixed
<1>2. CASE ~lenRead /\ recvBuf = 0
  BY <1>2 DEF TypeOK, Unhandled, KeepLength, HasLength, Unprefixed
<1>3. CASE ~lenRead /\ recvBuf > 0
  <2>1. HasLength /\ recvBuf' = recvBuf - 1
    BY <1>3 DEF TypeOK, HasLength, Unprefixed
  <2>2. lenRead'
    BY <2>1, Zenon DEF KeepLength
  <2> QED BY <1>3, <2>1, <2>2 DEF TypeOK, Unhandled
<1> QED BY <1>1, <1>2, <1>3 DEF TypeOK

LEMMA Times ==
    ASSUME NEW n \in Nat, NEW m \in Nat
    PROVE  (n + 1) * m = n * m + m
OBVIOUS

(* Moving k units between two of three places keeps their sum. *)
LEMMA Move ==
    ASSUME NEW a \in Nat, NEW b \in Nat, NEW c \in Nat, NEW k \in Nat
    PROVE  a + (b + k) + c = a + b + (c + k)
OBVIOUS

LEMMA MoveBack ==
    ASSUME NEW a \in Nat, NEW b \in Nat, NEW c \in Nat, NEW k \in 0 .. a
    PROVE  (a - k) + (b + k) + c = a + b + c
OBVIOUS

(* BytesConserved in these terms *)
InputConserved == Open => peerSent = sockIn + Unhandled + Taken
OutputConserved == queued = sendBuf + sockOut + peerGot

LEMMA ConservedParts == TypeOK => (BytesConserved <=> InputConserved /\ OutputConserved)
<1> SUFFICES ASSUME TypeOK PROVE BytesConserved <=> InputConserved /\ OutputConserved
  OBVIOUS
<1> DEFINE c == IF lenRead THEN 1 ELSE 0
           t == handled * (1 + Payload)
<1>1. t = Taken /\ t \in Nat /\ c \in Nat /\ sockIn \in Nat /\ recvBuf \in Nat
  BY UnhandledType DEF TypeOK, Taken, PacketSize
<1>2. sockIn + recvBuf + c = sockIn + (recvBuf + c)
  BY <1>1
<1> QED BY <1>1, <1>2, Zenon DEF BytesConserved, InputConserved, OutputConserved, Unhandled

(* What comes in is read, kept and handled without losing a unit. *)
LEMMA InputStep == TypeOK /\ TypeOK' /\ InputConserved /\ [Next]_vars => InputConserved'
<1> SUFFICES ASSUME TypeOK, TypeOK', InputConserved, [Next]_vars PROVE InputConserved'
  OBVIOUS
<1> USE DEF Open, threadVars, recvVars, sendVars, sockVars, peerVars, countVars
<1>1. /\ Unhandled \in Nat /\ Unhandled' \in Nat /\ PacketSize \in Nat
      /\ Taken \in Nat /\ Taken' \in Nat
  <2>1. (Unhandled \in Nat /\ PacketSize \in Nat /\ Taken \in Nat)'
    BY UnhandledType, PTL
  <2> QED BY <2>1, UnhandledType
<1>2. /\ sockIn \in Nat /\ recvBuf \in Nat /\ handled \in Nat /\ closes \in Nat
      /\ peerSent \in Nat
  BY DEF TypeOK
<1>3. ASSUME recvBuf' = recvBuf, lenRead' = lenRead, handled' = handled, sockIn' = sockIn,
             peerSent' = peerSent, Open' => Open
      PROVE  InputConserved'
  <2>1. Unhandled' = Unhandled /\ Taken' = Taken
    BY <1>3 DEF Unhandled, Taken
  <2> QED BY <1>3, <2>1 DEF InputConserved
<1>4. CASE fill_recv
  <2> DEFINE c == IF lenRead THEN 1 ELSE 0
  <2>1. RecvSize \in 0 .. sockIn
    BY <1>4, <1>2, RecvFacts DEF fill_recv
  <2>2. c \in Nat /\ Unhandled = recvBuf + c /\ Unhandled' = (recvBuf + RecvSize) + c
    BY <1>4 DEF fill_recv, Unhandled
  <2>3. Unhandled' = Unhandled + RecvSize
    BY <2>1, <2>2, <1>2
  <2>4. Taken' = Taken /\ sockIn' = sockIn - RecvSize /\ peerSent' = peerSent /\ closes' = closes
    BY <1>4 DEF fill_recv, Taken
  <2>5. sockIn' + Unhandled' + Taken' = sockIn + Unhandled + Taken
    BY <2>1, <2>3, <2>4, <1>1, <1>2, MoveBack
  <2> QED BY <2>4, <2>5 DEF InputConserved
<1>5. CASE receive_again
  <2>1. Unhandled' = Unhandled
    BY <1>5, PrefixFacts DEF receive_again
  <2>2. Taken' = Taken /\ sockIn' = sockIn /\ peerSent' = peerSent /\ closes' = closes
    BY <1>5 DEF receive_again, Taken
  <2> QED BY <2>1, <2>2 DEF InputConserved
<1>6. CASE receive_silent \/ receive_reply
  <2>1. /\ TakePacket /\ handled' = handled + 1 /\ closes' = closes
        /\ sockIn' = sockIn /\ peerSent' = peerSent
    BY <1>6 DEF receive_silent, receive_reply, TakePacket
  <2>2. Unhandled = Unhandled' + PacketSize
    BY <2>1, TakeFacts DEF TakePacket
  <2>3. Taken' = Taken + PacketSize
    BY <2>1, <1>1, <1>2, Times DEF Taken
  <2>4. sockIn + Unhandled + Taken = sockIn + Unhandled' + Taken'
    BY <2>2, <2>3, <1>1, <1>2, Move
  <2> QED BY <2>1, <2>4 DEF InputConserved
<1>7. CASE PeerSend
  <2>1. Unhandled' = Unhandled /\ Taken' = Taken
    BY <1>7 DEF PeerSend, Unhandled, Taken
  <2>2. Open /\ peerSent' = peerSent + 1 /\ sockIn' = sockIn + 1
    BY <1>7 DEF PeerSend
  <2> QED BY <2>1, <2>2, <1>1, <1>2 DEF InputConserved
<1>8. CASE receive_error
  BY <1>8, <1>2 DEF receive_error, close_connection, InputConserved
<1>9. CASE epoll_wait \/ handle_in \/ receive_aborts \/ send_packet \/ handle_out
  BY <1>9, <1>3 DEF epoll_wait, handle_in, receive_aborts, send_packet, handle_out
<1>10. CASE fill_return
  BY <1>10, <1>2, <1>3 DEF fill_return, close_connection
<1>11. CASE empty_buffer
  BY <1>11, <1>2, <1>3 DEF empty_buffer, SendWouldBlock, close_connection
<1>12. CASE PeerRead \/ PeerClose \/ PeerReset \/ UNCHANGED vars
  BY <1>12, <1>3 DEF PeerRead, PeerClose, PeerReset, vars
<1> QED BY <1>4, <1>5, <1>6, <1>7, <1>8, <1>9, <1>10, <1>11, <1>12 DEF Next, ThreadStep

(* What is replied is buffered, sent and received without losing a unit. *)
LEMMA OutputStep == TypeOK /\ OutputConserved /\ [Next]_vars => OutputConserved'
<1> SUFFICES ASSUME TypeOK, OutputConserved, [Next]_vars PROVE OutputConserved'
  OBVIOUS
<1> USE DEF threadVars, recvVars, sendVars, sockVars, peerVars, countVars
<1>1. /\ sendBuf \in Nat /\ sockOut \in Nat /\ peerGot \in Nat /\ queued \in Nat
      /\ Reply \in Nat
  BY ConnectionAssumption DEF TypeOK
<1>2. ASSUME sendBuf' = sendBuf - Room, sockOut' = sockOut + Room,
             peerGot' = peerGot, queued' = queued
      PROVE  OutputConserved'
  <2>1. Room \in 0 .. sendBuf
    BY <1>1, RoomFacts
  <2>2. sendBuf' + sockOut' + peerGot' = sendBuf + sockOut + peerGot
    BY <2>1, <1>1, <1>2, MoveBack
  <2> QED BY <1>2, <2>2 DEF OutputConserved
<1>3. ASSUME UNCHANGED <<sendBuf, sockOut, peerGot, queued>> PROVE OutputConserved'
  BY <1>3 DEF OutputConserved
<1>4. CASE receive_reply
  <2>1. sendBuf' = sendBuf + Reply /\ queued' = queued + Reply /\ sockOut' = sockOut
        /\ peerGot' = peerGot
    BY <1>4 DEF receive_reply, TakePacket
  <2> QED BY <2>1, <1>1 DEF OutputConserved
<1>5. CASE PeerRead
  <2>1. sendBuf' = sendBuf /\ queued' = queued /\ sockOut' = sockOut - 1
        /\ peerGot' = peerGot + 1 /\ sockOut > 0
    BY <1>5 DEF PeerRead
  <2> QED BY <2>1, <1>1 DEF OutputConserved
<1>6. CASE send_packet
  BY <1>6, <1>2, <1>3 DEF send_packet
<1>7. CASE empty_buffer
  BY <1>7, <1>2, <1>3 DEF empty_buffer, close_connection
<1>8. CASE receive_error \/ receive_aborts \/ receive_silent \/ receive_again
  BY <1>8, <1>3 DEF receive_error, receive_aborts, receive_silent, receive_again, TakePacket, close_connection
<1>9. CASE epoll_wait \/ handle_in \/ fill_recv \/ fill_return \/ handle_out
  BY <1>9, <1>3 DEF epoll_wait, handle_in, fill_recv, fill_return, handle_out, close_connection
<1>10. CASE PeerSend \/ PeerClose \/ PeerReset \/ UNCHANGED vars
  BY <1>10, <1>3 DEF PeerSend, PeerClose, PeerReset, vars
<1> QED BY <1>4, <1>5, <1>6, <1>7, <1>8, <1>9, <1>10 DEF Next, ThreadStep

(* BytesConserved, for packets, replies and buffers of any size: the reads, *)
(* the packet cache and the two send loops lose no byte and handle none     *)
(* twice.                                                                   *)
THEOREM NoByteLost == Spec => []BytesConserved
<1>1. Init => TypeOK /\ BytesConserved
  BY InitTypeOK, ConnectionAssumption DEF Init, BytesConserved
<1>2. TypeOK /\ BytesConserved /\ [Next]_vars => TypeOK' /\ BytesConserved'
  <2> SUFFICES ASSUME TypeOK, BytesConserved, [Next]_vars PROVE TypeOK' /\ BytesConserved'
    OBVIOUS
  <2>1. TypeOK'
    BY TypeStep
  <2>2. InputConserved' /\ OutputConserved'
    BY <2>1, ConservedParts, InputStep, OutputStep
  <2> QED BY <2>1, <2>2, ConservedParts, PTL
<1> QED BY <1>1, <1>2, PTL DEF Spec
-----------------------------------------------------------------------------
(* QuietInv needs a packet to fit into the receive buffer: without that a   *)
(* fill that leaves the buffer full and no packet in it is repeated.        *)
LEMMA AgainFacts ==
    ASSUME TypeOK, Payload <= RecvCapacity, ~HasPacket, KeepLength, recvBuf' = Unprefixed
    PROVE  ~HasPacket' /\ recvBuf' < RecvCapacity
<1> USE ConnectionAssumption
<1>1. CASE lenRead \/ recvBuf > 0
  <2>1. HasLength
    BY <1>1 DEF HasLength
  <2>2. lenRead'
    BY <2>1, Zenon DEF KeepLength
  <2> QED BY <2>1, <2>2, PacketFacts DEF TypeOK, HasPacket, Unprefixed
<1>2. CASE ~lenRead /\ ~(recvBuf > 0)
  <2>1. ~HasLength /\ recvBuf' = 0
    BY <1>2 DEF HasLength, TypeOK, Unprefixed
  <2>2. ~lenRead'
    BY <2>1, Zenon DEF KeepLength
  <2> QED BY <2>1, <2>2 DEF HasPacket, HasLength
<1> QED BY <1>1, <1>2

LEMMA QuietStep ==
    ASSUME Payload <= RecvCapacity, TypeOK, QuietInv, [Next]_vars
    PROVE  QuietInv'
<1> USE DEF Open, Quiet, threadVars, recvVars, sendVars, sockVars, peerVars, countVars
<1>1. closes \in Nat /\ recvBuf \in Nat /\ RecvCapacity \in Nat
  BY ConnectionAssumption DEF TypeOK
<1>2. ASSUME recvBuf' = recvBuf, lenRead' = lenRead PROVE HasPacket' <=> HasPacket
  BY <1>2 DEF HasPacket, HasLength, Unprefixed
<1>3. CASE handle_in
  <2>1. HasPacket' <=> HasPacket
    BY <1>3, <1>2 DEF handle_in
  <2>2. CASE "EPOLLIN" \in events /\ pendingRecv
    <3>1. /\ pc = "in" /\ pc' = "fill" /\ code' = IOC_OK /\ res' = IOC_AGAIN
          /\ recvBuf' = recvBuf /\ closes' = closes
      BY <1>3, <2>2, Zenon DEF handle_in, Fill
    <3>2. closes = 0 /\ recvBuf < RecvCapacity /\ ~HasPacket
      BY <3>1 DEF QuietInv
    <3> QED BY <2>1, <3>1, <3>2 DEF QuietInv
  <2>3. CASE ~("EPOLLIN" \in events /\ pendingRecv)
    BY <1>3, <2>1, <2>3 DEF handle_in, QuietInv
  <2> QED BY <2>2, <2>3
<1>4. CASE fill_recv
  <2>1. ASSUME res' = IOC_AGAIN PROVE recvBuf' = recvBuf /\ res = IOC_AGAIN /\ RecvCode = IOC_AGAIN
    <3>1. RecvCode = IOC_AGAIN /\ sockIn = 0 /\ RecvSize = 0
      BY <1>4, <2>1, RecvFacts DEF fill_recv, Drained, TypeOK
    <3>2. res = IOC_AGAIN
      <4>1. res \in 0 .. 3 /\ Min({res, RecvCode}) = IF res <= RecvCode THEN res ELSE RecvCode
        BY <3>1, MinOfTwo DEF TypeOK
      <4> QED BY <1>4, <2>1, <3>1, <4>1 DEF fill_recv
    <3> QED BY <1>4, <3>1, <3>2, <1>1 DEF fill_recv
  <2>2. code' = IOC_AGAIN => pendingRecv'
    BY <1>4 DEF fill_recv, NotePendingRecv
  <2> QED BY <1>4, <1>2, <2>1, <2>2 DEF fill_recv, QuietInv
<1>5. CASE fill_return
  BY <1>5, <1>1, <1>2 DEF fill_return, FatalCodes, close_connection, QuietInv, TypeOK
<1>6. CASE receive_again
  BY <1>6, <1>1, AgainFacts DEF receive_again, NeedsRefill, Fill, QuietInv
<1>7. CASE receive_error
  BY <1>7, <1>1 DEF receive_error, TakePacket, close_connection, QuietInv
<1>8. CASE receive_silent \/ receive_reply
  BY <1>8 DEF receive_silent, receive_reply, TakePacket, QuietInv
<1>9. CASE epoll_wait \/ receive_aborts \/ send_packet \/ handle_out
  BY <1>9, <1>2 DEF epoll_wait, receive_aborts, send_packet, handle_out, QuietInv
<1>10. CASE empty_buffer
  BY <1>10, <1>1, <1>2 DEF empty_buffer, close_connection, QuietInv
<1>11. CASE PeerSend \/ PeerRead \/ PeerClose \/ PeerReset \/ UNCHANGED vars
  BY <1>11, <1>2 DEF PeerSend, PeerRead, PeerClose, PeerReset, vars, QuietInv
<1> QED BY <1>3, <1>4, <1>5, <1>6, <1>7, <1>8, <1>9, <1>10, <1>11 DEF Next, ThreadStep

LEMMA InputStepInv ==
    ASSUME TypeOK, InputInv, [Next]_vars
    PROVE  InputInv'
<1> USE DEF Open, Drained, threadVars, recvVars, sendVars, sockVars, peerVars, countVars
<1>1. closes \in Nat /\ sockIn \in Nat
  BY DEF TypeOK
<1>2. CASE epoll_wait
  BY <1>2, <1>1 DEF epoll_wait, InputInv
<1>3. CASE handle_in
  BY <1>3 DEF handle_in, Fill, InputInv
<1>4. CASE fill_recv
  <2>1. RecvCode = IOC_AGAIN => Drained
    BY <1>4, RecvFacts DEF fill_recv
  <2>2. sockIn = 0 => sockIn' = 0
    BY <1>4, <1>1, RecvFacts DEF fill_recv
  <2> QED BY <1>4, <2>1, <2>2 DEF fill_recv, NotePendingRecv, InputInv
<1>5. CASE fill_return
  BY <1>5, <1>1 DEF fill_return, close_connection, InputInv
<1>6. CASE receive_again
  BY <1>6 DEF receive_again, Fill, InputInv
<1>7. CASE receive_error
  BY <1>7, <1>1 DEF receive_error, TakePacket, close_connection, InputInv
<1>8. CASE receive_silent \/ receive_reply
  BY <1>8 DEF receive_silent, receive_reply, TakePacket, InputInv
<1>9. CASE receive_aborts \/ send_packet \/ handle_out
  BY <1>9 DEF receive_aborts, send_packet, handle_out, InputInv
<1>10. CASE empty_buffer
  BY <1>10, <1>1 DEF empty_buffer, close_connection, InputInv
<1>11. CASE PeerSend \/ PeerClose \/ PeerReset \/ UNCHANGED vars
  BY <1>11 DEF PeerSend, PeerClose, PeerReset, vars, InputInv
<1>12. CASE PeerRead
  <2>1. ready => ready'
    BY <1>12, Zenon DEF PeerRead
  <2> QED BY <1>12, <2>1 DEF PeerRead, InputInv
<1> QED BY <1>2, <1>3, <1>4, <1>5, <1>6, <1>7, <1>8, <1>9, <1>10, <1>11, <1>12 DEF Next, ThreadStep

LEMMA OutputStepInv ==
    ASSUME TypeOK, OutputInv, [Next]_vars
    PROVE  OutputInv'
<1> USE DEF Open, threadVars, recvVars, sendVars, sockVars, peerVars, countVars
<1>1. /\ closes \in Nat /\ sendBuf \in Nat /\ sockOut \in Nat /\ sockOut <= SockCapacity
      /\ SockCapacity \in Nat /\ Reply \in Nat \ {0}
  BY ConnectionAssumption DEF TypeOK
<1>2. CASE epoll_wait
  BY <1>2, <1>1 DEF epoll_wait, OutputInv
<1>3. CASE handle_in
  BY <1>3 DEF handle_in, Fill, OutputInv
<1>4. CASE fill_recv
  BY <1>4 DEF fill_recv, OutputInv
<1>5. CASE fill_return
  BY <1>5, <1>1 DEF fill_return, close_connection, OutputInv
<1>6. CASE receive_again
  BY <1>6 DEF receive_again, Fill, OutputInv
<1>7. CASE receive_error
  BY <1>7, <1>1 DEF receive_error, TakePacket, close_connection, OutputInv
<1>8. CASE receive_aborts \/ receive_silent
  BY <1>8 DEF receive_aborts, receive_silent, TakePacket, OutputInv
<1>9. CASE receive_reply
  BY <1>9, <1>1 DEF receive_reply, TakePacket, OutputInv
<1>10. CASE send_packet
  BY <1>10, <1>1, RoomFacts DEF send_packet, SendWouldBlock, OutputInv
<1>11. CASE handle_out
  BY <1>11 DEF handle_out, OutputInv
<1>12. CASE empty_buffer
  BY <1>12, <1>1, RoomFacts DEF empty_buffer, SendWouldBlock, close_connection, OutputInv
<1>13. CASE PeerRead
  <2>1. ready' <=> ready \/ noSpace
    BY <1>13, Zenon DEF PeerRead
  <2>2. sockOut' < SockCapacity /\ sockOut > 0
    BY <1>13, <1>1 DEF PeerRead
  <2> QED BY <1>13, <2>1, <2>2 DEF PeerRead, OutputInv
<1>14. CASE PeerSend \/ PeerClose \/ PeerReset \/ UNCHANGED vars
  BY <1>14 DEF PeerSend, PeerClose, PeerReset, vars, OutputInv
<1> QED BY <1>2, <1>3, <1>4, <1>5, <1>6, <1>7, <1>8, <1>9, <1>10, <1>11, <1>12, <1>13, <1>14
       DEF Next, ThreadStep

IInv == TypeOK /\ QuietInv /\ InputInv /\ OutputInv

LEMMA Inductive ==
    ASSUME Payload <= RecvCapacity
    PROVE  Spec => []IInv
<1>1. Init => IInv
  <2> SUFFICES ASSUME Init PROVE IInv
    OBVIOUS
  <2>1. QuietInv
    BY ConnectionAssumption DEF Init, QuietInv, HasPacket, HasLength
  <2>2. InputInv
    BY DEF Init, InputInv
  <2>3. OutputInv
    BY ConnectionAssumption DEF Init, OutputInv
  <2> QED BY <2>1, <2>2, <2>3, InitTypeOK DEF IInv
<1>2. IInv /\ [Next]_vars => IInv'
  BY TypeStep, QuietStep, InputStepInv, OutputStepInv DEF IInv
<1> QED BY <1>1, <1>2, PTL DEF Spec

(* NeverDeaf, for every size of packets that fit into the receive buffer.   *)
THEOREM Hearing ==
    ASSUME Payload <= RecvCapacity
    PROVE  Spec => []NeverDeaf
<1>1. IInv => NeverDeaf
  BY DEF IInv, QuietInv, NeverDeaf, Idle, Quiet
<1> QED BY <1>1, Inductive, PTL

(* NothingStranded, for every size of packets that fit into the receive     *)
(* buffer: whatever the thread leaves behind has a wakeup to come.          *)
THEOREM WakeupToCome ==
    ASSUME Payload <= RecvCapacity
    PROVE  Spec => []NothingStranded
<1>1. IInv => NothingStranded
  <2> SUFFICES ASSUME IInv, Idle, ~ready PROVE /\ Drained /\ ~HasPacket
                                               /\ sendBuf > 0 => pendingSend /\ noSpace
    BY DEF NothingStranded, Drained
  <2>1. pendingRecv /\ ~HasPacket
    BY DEF IInv, QuietInv, Idle, Quiet
  <2>2. Drained
    BY <2>1 DEF IInv, InputInv, Idle
  <2>3. sendBuf > 0 => pendingSend /\ noSpace
    BY <2>2 DEF IInv, OutputInv, Idle, Drained
  <2> QED BY <2>1, <2>2, <2>3
<1> QED BY <1>1, Inductive, PTL
=============================================================================
