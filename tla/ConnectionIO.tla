---------------------------- MODULE ConnectionIO ----------------------------
(***************************************************************************)
(* One connection in the network thread (src/src/platform/linux/           *)
(* network_linux.c, network/receiver.c, network/sender.c): bytes come in   *)
(* through an edge-triggered epoll, are cut into packets, handled, and     *)
(* replied to through the send buffer.  The peer and the kernel act        *)
(* between any two system calls of the thread.                             *)
(*                                                                         *)
(* Bytes are counted, not told apart: both directions are FIFO, so the     *)
(* number of units at each place fixes which ones they are.  A packet is   *)
(* one unit of length prefix and Payload units; encryption and compression *)
(* keep this shape.  A handler replies or not, a packet the server does    *)
(* not accept is an error, and a decoder that takes another size off the   *)
(* buffer than the packet claims aborts the process.                       *)
(***************************************************************************)
EXTENDS Integers, FiniteSetsExt

CONSTANTS Payload,      (* the units of a packet after its length prefix      *)
          RecvCapacity, (* the capacity of conn->recv_buffer                  *)
          Reply,        (* the units of a reply                               *)
          SockCapacity, (* what the kernel buffers in each direction          *)
          MaxRequests   (* bound of the model on the packets the peer sends   *)

ASSUME ConnectionAssumption ==
    /\ Payload \in Nat \ {0}
    /\ RecvCapacity \in Nat \ {0}
    /\ Reply \in Nat \ {0}
    /\ SockCapacity \in Nat \ {0}
    /\ MaxRequests \in Nat

(* enum IOCode, whose order fill_buffer relies on *)
IOC_ERROR == 0
IOC_CLOSED == 1
IOC_OK == 2
IOC_AGAIN == 3

VARIABLES
    pc,          (* where the network thread is                              *)
    events,      (* the event mask epoll_wait returned                       *)
    code, res,   (* the locals of fill_buffer                                *)
    pendingRecv, (* conn->pending_recv: nothing was left to read             *)
    pendingSend, (* conn->pending_send: wait for EPOLLOUT before sending     *)
    recvBuf,     (* the size of conn->recv_buffer                            *)
    lenRead,     (* the packet cache holds the length of the next packet     *)
    sendBuf,     (* the size of conn->send_buffer                            *)
    closes,      (* how often close_connection ran                           *)
    sockIn,      (* what the socket holds for the server                     *)
    sockOut,     (* what the socket holds for the peer                       *)
    fin, rst,    (* the peer closed or reset the connection                  *)
    ready,       (* the socket is on the ready list of the epoll instance    *)
    noSpace,     (* the kernel owes a write event: a send found no room      *)
    peerSent, peerGot, (* the units the peer has sent and received           *)
    handled, queued    (* the packets handled and the units replied to them  *)

threadVars == <<pc, events, code, res>>
recvVars == <<pendingRecv, recvBuf, lenRead>>
sendVars == <<pendingSend, sendBuf>>
sockVars == <<sockIn, sockOut, fin, rst, ready, noSpace>>
peerVars == <<peerSent, peerGot>>
countVars == <<handled, queued>>
vars == <<threadVars, recvVars, sendVars, closes, sockVars, peerVars, countVars>>

Open == closes = 0
Aborted == pc = "aborted"

(* accept_connection: a fresh socket is writable, so EPOLL_CTL_ADD puts it *)
(* on the ready list.                                                      *)
Init ==
    /\ pc = "epoll_wait"
    /\ events = {}
    /\ code = IOC_OK /\ res = IOC_AGAIN
    /\ pendingRecv = TRUE /\ pendingSend = TRUE
    /\ recvBuf = 0 /\ lenRead = FALSE /\ sendBuf = 0
    /\ closes = 0
    /\ sockIn = 0 /\ sockOut = 0
    /\ fin = FALSE /\ rst = FALSE
    /\ ready = TRUE /\ noSpace = FALSE
    /\ peerSent = 0 /\ peerGot = 0
    /\ handled = 0 /\ queued = 0
-----------------------------------------------------------------------------
(* The peer and the kernel.  Whatever arrives, and the room a send waited  *)
(* for, is an edge that puts the socket on the ready list.                 *)
PeerSend ==
    /\ Open /\ ~Aborted /\ ~fin /\ ~rst
    /\ peerSent < MaxRequests * (1 + Payload)
    /\ sockIn < SockCapacity
    /\ peerSent' = peerSent + 1
    /\ sockIn' = sockIn + 1
    /\ ready' = TRUE
    /\ UNCHANGED <<threadVars, recvVars, sendVars, closes, sockOut, fin, rst, noSpace,
                   peerGot, countVars>>

PeerRead ==
    /\ Open /\ ~Aborted /\ ~rst
    /\ sockOut > 0
    /\ sockOut' = sockOut - 1
    /\ peerGot' = peerGot + 1
    /\ ready' = (ready \/ noSpace)
    /\ noSpace' = FALSE
    /\ UNCHANGED <<threadVars, recvVars, sendVars, closes, sockIn, fin, rst, peerSent, countVars>>

PeerClose ==
    /\ Open /\ ~Aborted /\ ~fin /\ ~rst
    /\ fin' = TRUE
    /\ ready' = TRUE
    /\ UNCHANGED <<threadVars, recvVars, sendVars, closes, sockIn, sockOut, rst, noSpace,
                   peerVars, countVars>>

PeerReset ==
    /\ Open /\ ~Aborted /\ ~rst
    /\ rst' = TRUE
    /\ ready' = TRUE
    /\ UNCHANGED <<threadVars, recvVars, sendVars, closes, sockIn, sockOut, fin, noSpace,
                   peerVars, countVars>>
-----------------------------------------------------------------------------
(* close_connection gives back all the connection owns and its slot; it    *)
(* does not look whether it did so before.                                 *)
close_connection ==
    /\ closes' = closes + 1
    /\ ready' = FALSE
    /\ UNCHANGED <<sockIn, sockOut, fin, rst, noSpace>>

(* epoll_wait returns the current readiness of a socket of the ready list. *)
epoll_wait ==
    /\ pc = "epoll_wait"
    /\ Open /\ ready
    /\ ready' = FALSE
    /\ events' = {e \in {"EPOLLIN", "EPOLLOUT"} :
                    \/ rst
                    \/ e = "EPOLLIN" /\ (sockIn > 0 \/ fin)
                    \/ e = "EPOLLOUT" /\ sockOut < SockCapacity}
    /\ pc' = "in"
    /\ UNCHANGED <<code, res, recvVars, sendVars, closes, sockIn, sockOut, fin, rst, noSpace,
                   peerVars, countVars>>

(* Enter fill_buffer *)
Fill ==
    /\ pc' = "fill"
    /\ code' = IOC_OK
    /\ res' = IOC_AGAIN

(* handle_connection_io, first part: an EPOLLIN is acted upon only when    *)
(* pending_recv is set.                                                    *)
handle_in ==
    /\ pc = "in"
    /\ \/ /\ "EPOLLIN" \in events /\ pendingRecv
          /\ pendingRecv' = FALSE
          /\ Fill
       \/ /\ ~("EPOLLIN" \in events /\ pendingRecv)
          /\ pc' = "out"
          /\ UNCHANGED <<code, res, pendingRecv>>
    /\ UNCHANGED <<events, recvBuf, lenRead, sendVars, closes, sockVars, peerVars, countVars>>

(* sock_recv_buf: what recvmsg reads, and the code for it.  What arrived   *)
(* before the peer hung up is still read first.                            *)
RecvSize_NoBound == sockIn  (* Mutant: the free room is not looked at. *)
RecvSize == Min({sockIn, RecvCapacity - recvBuf})

RecvCode ==
    CASE sockIn > 0                 -> IOC_OK
      [] sockIn = 0 /\ rst          -> IOC_ERROR
      [] sockIn = 0 /\ fin /\ ~rst  -> IOC_CLOSED
      [] OTHER                      -> IOC_AGAIN

(* An empty socket is waited for. *)
NotePendingRecv_Not(c) == UNCHANGED pendingRecv  (* Mutant: it is not. *)
NotePendingRecv(c) == pendingRecv' = (pendingRecv \/ c = IOC_AGAIN)

(* One turn of the loop of fill_buffer *)
fill_recv ==
    /\ pc = "fill"
    /\ recvBuf < RecvCapacity /\ code = IOC_OK
    /\ sockIn' = sockIn - RecvSize
    /\ recvBuf' = recvBuf + RecvSize
    /\ code' = RecvCode
    /\ res' = Min({res, RecvCode})
    /\ NotePendingRecv(RecvCode)
    /\ UNCHANGED <<pc, events, lenRead, sendVars, closes, sockOut, fin, rst, ready, noSpace,
                   peerVars, countVars>>

(* The codes handle_connection_io closes the connection for *)
FatalCodes_Error == {IOC_ERROR}  (* Mutant: not when the peer closed it. *)
FatalCodes == {IOC_ERROR, IOC_CLOSED}

(* fill_buffer returns the worst code it met, and handle_connection_io     *)
(* goes on with it.  After a close, too, comes the EPOLLOUT part.          *)
fill_return ==
    /\ pc = "fill"
    /\ ~(recvBuf < RecvCapacity /\ code = IOC_OK)
    /\ pc' = IF res = IOC_OK THEN "receive" ELSE "out"
    /\ \/ res \in FatalCodes /\ close_connection
       \/ res \notin FatalCodes /\ UNCHANGED <<closes, sockVars>>
    /\ UNCHANGED <<events, code, res, recvVars, sendVars, peerVars, countVars>>
-----------------------------------------------------------------------------
(* decode_common_data takes the length prefix off the buffer at once and   *)
(* keeps it in the packet cache; the packet is there when the payload is.  *)
Unprefixed == IF lenRead \/ recvBuf = 0 THEN recvBuf ELSE recvBuf - 1
HasLength == lenRead \/ recvBuf > 0
HasPacket == HasLength /\ Unprefixed >= Payload

(* The packet cache survives until the rest of the packet arrives. *)
KeepLength_Not == lenRead' = FALSE  (* Mutant: it does not. *)
KeepLength == lenRead' = HasLength

(* After IOC_AGAIN, handle_connection_io fills the buffer again unless     *)
(* fill_buffer has seen the socket empty.                                  *)
NeedsRefill_Never == FALSE  (* Mutant: it never does. *)
NeedsRefill == ~pendingRecv

(* receive_packet finds no complete packet and returns IOC_AGAIN. *)
receive_again ==
    /\ pc = "receive"
    /\ ~HasPacket
    /\ KeepLength
    /\ recvBuf' = Unprefixed
    /\ \/ NeedsRefill /\ Fill
       \/ ~NeedsRefill /\ pc' = "out" /\ UNCHANGED <<code, res>>
    /\ UNCHANGED <<events, pendingRecv, sendVars, closes, sockVars, peerVars, countVars>>

TakePacket ==
    /\ pc = "receive"
    /\ HasPacket
    /\ lenRead' = FALSE
    /\ recvBuf' = Unprefixed - Payload
    /\ UNCHANGED <<events, code, res, pendingRecv, peerVars>>

(* No decoder or handler for the packet, or a handler that returns FALSE *)
receive_error ==
    /\ TakePacket
    /\ close_connection
    /\ pc' = "out"
    /\ UNCHANGED <<sendVars, countVars>>

(* decode_packet: the decoder has taken another size off the buffer than   *)
(* the packet claims.  What is in memory then is of no use to anybody.     *)
receive_aborts ==
    /\ pc = "receive"
    /\ HasPacket
    /\ pc' = "aborted"
    /\ UNCHANGED <<events, code, res, recvVars, sendVars, closes, sockVars, peerVars, countVars>>

(* A packet whose handler returns TRUE without a reply *)
receive_silent ==
    /\ TakePacket
    /\ handled' = handled + 1
    /\ UNCHANGED <<pc, queued, sendVars, closes, sockVars>>

(* A packet whose handler calls send_packet: the reply goes to the send    *)
(* buffer, and to the socket at once unless a send is pending.             *)
receive_reply ==
    /\ TakePacket
    /\ handled' = handled + 1
    /\ queued' = queued + Reply
    /\ sendBuf' = sendBuf + Reply
    /\ pc' = IF pendingSend THEN "receive" ELSE "flush"
    /\ UNCHANGED <<pendingSend, closes, sockVars>>

(* One sendmsg of sock_send_buf: how much the socket takes *)
Room == Min({sendBuf, SockCapacity - sockOut})

(* A full socket sets pending_send, and the kernel will tell of its room.  *)
SendWouldBlock_NoFlag == noSpace' = TRUE /\ UNCHANGED pendingSend  (* Mutant: no flag. *)
SendWouldBlock == noSpace' = TRUE /\ pendingSend' = TRUE

(* empty_buffer in the loop of send_packet, which returns to the handler   *)
(* when everything is sent, when there is no room, or on an error, which   *)
(* it ignores.                                                             *)
send_packet ==
    /\ pc = "flush"
    /\ \/ /\ rst
          /\ pc' = "receive"
          /\ UNCHANGED <<pendingSend, sendBuf, sockOut, noSpace>>
       \/ /\ ~rst /\ Room = 0
          /\ SendWouldBlock
          /\ pc' = "receive"
          /\ UNCHANGED <<sendBuf, sockOut>>
       \/ /\ ~rst /\ Room > 0
          /\ sendBuf' = sendBuf - Room
          /\ sockOut' = sockOut + Room
          /\ pc' = IF sendBuf' = 0 THEN "receive" ELSE "flush"
          /\ UNCHANGED <<pendingSend, noSpace>>
    /\ UNCHANGED <<events, code, res, recvVars, closes, sockIn, fin, rst, ready, peerVars,
                   countVars>>
-----------------------------------------------------------------------------
(* handle_connection_io, second part: also for a connection the first part *)
(* has closed.                                                             *)
handle_out ==
    /\ pc = "out"
    /\ \/ /\ "EPOLLOUT" \in events /\ pendingSend
          /\ pendingSend' = FALSE
          /\ pc' = "empty"
       \/ /\ ~("EPOLLOUT" \in events /\ pendingSend)
          /\ pc' = "epoll_wait"
          /\ UNCHANGED pendingSend
    /\ UNCHANGED <<events, code, res, recvVars, sendBuf, closes, sockVars, peerVars, countVars>>

(* One turn of the loop of empty_buffer: the descriptor of a closed        *)
(* connection is -1, on which sendmsg fails.                               *)
empty_buffer ==
    /\ pc = "empty"
    /\ \/ /\ sendBuf = 0
          /\ pc' = "epoll_wait"
          /\ UNCHANGED <<sendVars, closes, sockVars>>
       \/ /\ sendBuf > 0 /\ (rst \/ ~Open)
          /\ close_connection
          /\ pc' = "epoll_wait"
          /\ UNCHANGED sendVars
       \/ /\ sendBuf > 0 /\ ~rst /\ Open /\ Room = 0
          /\ SendWouldBlock
          /\ pc' = "epoll_wait"
          /\ UNCHANGED <<sendBuf, closes, sockIn, sockOut, fin, rst, ready>>
       \/ /\ sendBuf > 0 /\ ~rst /\ Open /\ Room > 0
          /\ sendBuf' = sendBuf - Room
          /\ sockOut' = sockOut + Room
          /\ UNCHANGED <<pc, pendingSend, closes, sockIn, fin, rst, ready, noSpace>>
    /\ UNCHANGED <<events, code, res, recvVars, peerVars, countVars>>
-----------------------------------------------------------------------------
ThreadStep ==
    \/ epoll_wait
    \/ handle_in
    \/ fill_recv
    \/ fill_return
    \/ receive_again
    \/ receive_error
    \/ receive_aborts
    \/ receive_silent
    \/ receive_reply
    \/ send_packet
    \/ handle_out
    \/ empty_buffer

Next == ThreadStep \/ PeerSend \/ PeerRead \/ PeerClose \/ PeerReset

Spec == Init /\ [][Next]_vars

(* The network thread keeps running, and the peer reads what it is sent.   *)
FairSpec == Spec /\ WF_vars(ThreadStep) /\ WF_vars(PeerRead)
-----------------------------------------------------------------------------
TypeOK ==
    /\ pc \in {"epoll_wait", "in", "fill", "receive", "flush", "out", "empty", "aborted"}
    /\ events \subseteq {"EPOLLIN", "EPOLLOUT"}
    /\ code \in IOC_ERROR .. IOC_AGAIN /\ res \in IOC_ERROR .. IOC_AGAIN
    /\ pendingRecv \in BOOLEAN /\ pendingSend \in BOOLEAN /\ lenRead \in BOOLEAN
    /\ recvBuf \in 0 .. RecvCapacity
    /\ sendBuf \in Nat /\ closes \in Nat
    /\ sockIn \in 0 .. SockCapacity /\ sockOut \in 0 .. SockCapacity
    /\ fin \in BOOLEAN /\ rst \in BOOLEAN /\ ready \in BOOLEAN /\ noSpace \in BOOLEAN
    /\ peerSent \in Nat /\ peerGot \in Nat /\ handled \in Nat /\ queued \in Nat

Idle == Open /\ pc = "epoll_wait"

(* The thread never goes back to epoll_wait deaf: with pending_recv unset  *)
(* it would ignore every EPOLLIN to come.                                  *)
NeverDeaf == Idle => pendingRecv

(* Epoll is edge triggered, so what the thread leaves behind without a     *)
(* wakeup to come stays there for ever.  It leaves no byte or hangup in    *)
(* the socket, no complete packet in recv_buffer, and no byte in           *)
(* send_buffer but for a full socket that will report its room.            *)
NothingStranded ==
    Idle /\ ~ready =>
        /\ sockIn = 0 /\ ~fin /\ ~rst
        /\ ~HasPacket
        /\ sendBuf > 0 => pendingSend /\ noSpace

(* Every unit the peer sent and every unit of a reply is at one place:     *)
(* none is lost or handled twice by the two flags, the packet cache and    *)
(* the refills in the middle of a packet.                                  *)
BytesConserved ==
    /\ Open => peerSent = sockIn + recvBuf + (IF lenRead THEN 1 ELSE 0)
                          + handled * (1 + Payload)
    /\ queued = sendBuf + sockOut + peerGot

Ended == ~Open \/ Aborted

(* A complete packet is handled, unless the connection ends first.         *)
RequestsHandled ==
    \A n \in 1 .. MaxRequests :
        peerSent >= n * (1 + Payload) ~> handled >= n \/ Ended

(* A reply reaches a peer that reads, unless the connection ends first.    *)
RepliesArrive ==
    \A n \in 1 .. MaxRequests : queued >= n * Reply ~> peerGot >= n * Reply \/ Ended

(* A connection the peer closed or reset does not stay in the table.       *)
HangupCloses == fin \/ rst ~> Ended

(* common_types.h:26: "The connection has been closed by the peer, stop    *)
(* handling it": a connection is closed once.                              *)
ClosedOnce == closes <= 1
=============================================================================
