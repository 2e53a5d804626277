----------------------------- MODULE LoginProtocol -----------------------------
(***************************************************************************)
(* What one connection and its client say to each other: the handshake,    *)
(* the status exchange and the login with its switches to encryption and   *)
(* compression (src/src/network/handlers.c, connection.c, and the packet   *)
(* level of receiver.c, sender.c and fill_buffer), together with the two   *)
(* arenas of the connection.                                               *)
(*                                                                         *)
(* Packets are whole and arrive in order: ConnectionIO has the bytes.  A   *)
(* packet carries how its sender wrote it, enciphered and in the           *)
(* compressed format or not.  The client is external: it follows the       *)
(* protocol, but for a bounded number of stray packets; so is the session  *)
(* server that the login asks, whose answer is a choice.                   *)
(*                                                                         *)
(* Nothing bounds the id of a packet before it is an index, and a packet   *)
(* whose payload is of another size than it claims aborts the process: the *)
(* stray packets do both.                                                  *)
(***************************************************************************)
EXTENDS Integers, Sequences, Arena

CONSTANTS MaxStrays,     (* bound of the model on the packets out of the       *)
                         (* protocol                                           *)
          StrayPackets   (* and what they are: pairs of an id and a body       *)

(* What the decoder that the server has for a packet finds in its payload. *)
(* A misfit is of another size than the decoder reads.                     *)
Bodies == {"STATUS", "LOGIN", "token", "other", "misfit"}

ASSUME LoginAssumption == MaxStrays \in Nat /\ StrayPackets \subseteq Int \X Bodies

VARIABLES
    pc,           (* where the network thread is with this connection; dead  *)
                  (* when the process is                                     *)
    open,         (* the connection is in the table                          *)
    state,        (* conn->state                                             *)
    encryption, compression, (* the flags of the connection                  *)
    scratch, persistent,     (* its arenas                                   *)
    cached,       (* conn->packet_cache # NULL                               *)
    playerName, verifyToken, sharedSecret, streams,
                  (* pointers into the persistent arena; streams is the      *)
                  (* state that zlib allocates                               *)
    json,         (* pointer to the session server's answer in scratch       *)
    toServer, toClient, (* what is on its way                                *)
    recvBuf,      (* conn->recv_buffer                                       *)
    cStep,        (* what the client does next, or waits for                 *)
    cEnc, cCmp,   (* the client enciphers, and uses the compressed format    *)
    strays,       (* the stray packets so far                                *)
    garbled       (* one side read a packet in another format than written   *)

connVars == <<state, encryption, compression>>
pointerVars == <<persistent, playerName, verifyToken, sharedSecret, streams>>
clientVars == <<cStep, cEnc, cCmp, strays>>
vars == <<pc, open, connVars, scratch, cached, pointerVars, json, toServer, toClient, recvBuf,
          clientVars, garbled>>

States == {"HANDSHAKE", "STATUS", "LOGIN"}
Ids == {p[1] : p \in StrayPackets} \union 0 .. 5
NULL == 0

PKT_STATUS == 0
PKT_STATUS_PING == 1
PKT_LOGIN_CRYPT_REQUEST == 1
PKT_LOGIN_SUCCESS == 2
PKT_LOGIN_COMPRESS == 3

(* What a packet to the server is: its id, its body and how the client     *)
(* wrote it.                                                               *)
ToServer == [id : Ids, body : Bodies, enc : BOOLEAN, cmp : BOOLEAN]

Replies == {"EMPTY", "STATUS_RESPONSE", "PONG", "CRYPT_REQUEST", "COMPRESS", "LOGIN_SUCCESS"}
ToClient == [id : Replies, enc : BOOLEAN, cmp : BOOLEAN]

(* conn_create.  Pointers not set are NULL.                                *)
Init ==
    /\ pc = "idle" /\ open = TRUE
    /\ state = "HANDSHAKE" /\ encryption = FALSE /\ compression = FALSE
    /\ scratch = arena_create
    /\ persistent = [arena_create EXCEPT !.blocks = <<"recv_buffer", "send_buffer", "peer_addr">>]
    /\ cached = FALSE
    /\ playerName = NULL /\ verifyToken = NULL /\ sharedSecret = NULL /\ streams = NULL
    /\ json = NULL
    /\ toServer = <<>> /\ toClient = <<>> /\ recvBuf = <<>>
    /\ cStep = "connect" /\ cEnc = FALSE /\ cCmp = FALSE
    /\ strays = 0 /\ garbled = FALSE
-----------------------------------------------------------------------------
(* function_table, as it lies in memory: six entries for each state, in    *)
(* each the handler that goes with the decoder of a packet to the server,  *)
(* "NULL" where there is none.                                             *)
Handlers == {"handshake", "status", "ping", "log_start", "enc_res", "dummy"}

function_table ==
    [i \in 0 .. 29 |->
        CASE i = 0  -> "handshake"
          [] i = 6  -> "status"
          [] i = 7  -> "ping"
          [] i = 12 -> "log_start"
          [] i = 13 -> "enc_res"
          [] i = 15 -> "dummy"
          [] OTHER  -> "NULL"]

(* The id indexes the row of the state unchecked, into other rows and out  *)
(* of the table.                                                           *)
Entry(id) == 6 * (CASE state = "HANDSHAKE" -> 0 [] state = "STATUS" -> 1 [] state = "LOGIN" -> 2) + id

Handler(p) ==
    IF Entry(p.id) \in DOMAIN function_table THEN function_table[Entry(p.id)] ELSE "wild"

(* The encoders of the rows, from id 0 on: what a client gets for a packet *)
(* of that id.                                                             *)
Encoders_NoPong ==  (* Mutant: an encoder is missing. *)
    [HANDSHAKE |-> <<"EMPTY">>,
     STATUS    |-> <<"STATUS_RESPONSE">>,
     LOGIN     |-> <<"EMPTY", "CRYPT_REQUEST", "LOGIN_SUCCESS", "COMPRESS">>]
Encoders ==
    [HANDSHAKE |-> <<"EMPTY">>,
     STATUS    |-> <<"STATUS_RESPONSE", "PONG">>,
     LOGIN     |-> <<"EMPTY", "CRYPT_REQUEST", "LOGIN_SUCCESS", "COMPRESS">>]

Encodable(id) == id + 1 \in DOMAIN Encoders[state]

(* send_packet in a handler: the packet is written with the flags of the   *)
(* moment, from a buffer in the scratch arena between a save and a         *)
(* restore.  A packet without an encoder is dropped before that.           *)
Sends(id, cmp) ==
    toClient' = IF Encodable(id)
                THEN Append(toClient, [id |-> Encoders[state][id + 1], enc |-> encryption,
                                       cmp |-> cmp])
                ELSE toClient

AfterSend(id, a) ==
    IF Encodable(id) THEN arena_restore(arena_allocate(arena_save(a), "send")) ELSE a
-----------------------------------------------------------------------------
(* fill_buffer reads all there is, and deciphers what it has read if the   *)
(* connection is encrypted by now.  In recvBuf, enc means unreadable.      *)
fill_buffer ==
    /\ open /\ pc = "idle" /\ toServer # <<>>
    /\ recvBuf' = [i \in DOMAIN toServer |->
                      [toServer[i] EXCEPT !.enc = (@ # encryption)]]
    /\ toServer' = <<>>
    /\ pc' = "receive"
    /\ UNCHANGED <<open, connVars, scratch, cached, pointerVars, json, toClient, clientVars,
                   garbled>>

(* The packet cache is allocated after a save, unless the last try left    *)
(* it there; the decoder allocates the payload.                            *)
Cache == IF cached THEN scratch ELSE arena_allocate(arena_save(scratch), "packet")

Decoded(h) ==
    IF h \in {"handshake", "ping", "log_start", "enc_res"}
    THEN arena_allocate(Cache, "payload")
    ELSE Cache

(* receive_packet finds no packet. *)
receive_again ==
    /\ open /\ pc = "receive" /\ recvBuf = <<>>
    /\ scratch' = Cache
    /\ cached' = TRUE
    /\ pc' = "idle"
    /\ UNCHANGED <<open, connVars, pointerVars, json, toServer, toClient, recvBuf, clientVars,
                   garbled>>

Readable(p) == ~p.enc /\ p.cmp = compression

(* IOC_ERROR: handle_connection_io closes the connection.                  *)
Fail ==
    /\ open' = FALSE
    /\ UNCHANGED <<pc, connVars, scratch, cached, pointerVars, json, toClient>>

(* An abort or a fault ends the process, and the connection with it.       *)
Dies ==
    /\ open' = FALSE /\ pc' = "dead"
    /\ UNCHANGED <<connVars, scratch, cached, pointerVars, json, toClient>>

(* A misread packet has any length and any id: it ends the connection, or  *)
(* the process when its payload does not fit.  That it makes sense is not  *)
(* followed.                                                               *)
receive_garbled ==
    /\ open /\ pc = "receive" /\ recvBuf # <<>>
    /\ ~Readable(Head(recvBuf))
    /\ garbled' = TRUE
    /\ Fail \/ Dies
    /\ UNCHANGED <<toServer, recvBuf, clientVars>>

Receive(h) ==
    /\ open /\ pc = "receive" /\ recvBuf # <<>>
    /\ Readable(Head(recvBuf))
    /\ Handler(Head(recvBuf)) = h
    /\ recvBuf' = Tail(recvBuf)
    /\ UNCHANGED <<toServer, clientVars, garbled>>

Accept(h) == Receive(h) /\ Head(recvBuf).body # "misfit"

(* The end of receive_packet after a handler returned TRUE *)
Return(a) ==
    /\ scratch' = arena_restore(a)
    /\ cached' = FALSE
    /\ pc' = "receive"
    /\ UNCHANGED open

receive_unsupported == Receive("NULL") /\ Fail

(* What lies around the table is no decoder, or one as good as none.  That *)
(* a word there is the address of a function is not followed.              *)
receive_wild == Receive("wild") /\ (Fail \/ Dies)

(* decode_packet has read another size than the packet claims.             *)
receive_mismatched ==
    /\ \E h \in Handlers : Receive(h)
    /\ Head(recvBuf).body = "misfit"
    /\ Dies

pkt_handle_dummy ==
    /\ Accept("dummy")
    /\ Return(Decoded("dummy"))
    /\ UNCHANGED <<connVars, pointerVars, json, toClient>>

NextStates == {"STATUS", "LOGIN"}

pkt_handle_handshake ==
    /\ Accept("handshake")
    /\ \/ /\ Head(recvBuf).body \in NextStates
          /\ state' = Head(recvBuf).body
          /\ Return(Decoded("handshake"))
          /\ UNCHANGED <<encryption, compression, pointerVars, json, toClient>>
       \/ Head(recvBuf).body \notin NextStates /\ Fail

(* The answer is built in a copy of the arena, which leaves it alone.      *)
pkt_handle_status ==
    /\ Accept("status")
    /\ Sends(PKT_STATUS, compression)
    /\ Return(AfterSend(PKT_STATUS, Decoded("status")))
    /\ UNCHANGED <<connVars, pointerVars, json>>

(* In the state LOGIN, which only a stray id brings it to, the encoder is  *)
(* that of another packet and follows pointers that the ping does not have.*)
pkt_handle_ping ==
    /\ Accept("ping")
    /\ \/ /\ Sends(PKT_STATUS_PING, compression)
          /\ Return(AfterSend(PKT_STATUS_PING, Decoded("ping")))
          /\ UNCHANGED <<connVars, pointerVars, json>>
       \/ state = "LOGIN" /\ Dies
-----------------------------------------------------------------------------
(* The order in which log_start allocates what is to stay                  *)
Kept_Swapped == <<"verify_token", "player_name">>  (* Mutant: the token first. *)
Kept == <<"player_name", "verify_token">>

pkt_handle_log_start ==
    /\ Accept("log_start")
    /\ persistent' = arena_allocate(arena_allocate(persistent, Kept[1]), Kept[2])
    /\ playerName' = length(persistent) + (CHOOSE i \in 1 .. 2 : Kept[i] = "player_name")
    /\ verifyToken' = length(persistent) + (CHOOSE i \in 1 .. 2 : Kept[i] = "verify_token")
    /\ Sends(PKT_LOGIN_CRYPT_REQUEST, compression)
    /\ Return(AfterSend(PKT_LOGIN_CRYPT_REQUEST,
                        arena_allocate(Decoded("log_start"), "request")))
    /\ UNCHANGED <<connVars, sharedSecret, streams, json>>

(* The comparison of the token with what verify_token points to, which may *)
(* be freed memory by now.  Without log_start there is no token, and the   *)
(* sizes differ.                                                           *)
TokenMatches(p) ==
    CASE verifyToken = NULL -> {FALSE}
      [] Holds(persistent, verifyToken, "verify_token") -> {p.body = "token"}
      [] OTHER -> BOOLEAN

(* enc_res, first part: the token is checked and freed, the shared secret  *)
(* allocated in its place, and all that is sent and read from now on is    *)
(* enciphered.                                                             *)
pkt_handle_enc_res ==
    /\ Accept("enc_res")
    /\ \/ /\ TRUE \in TokenMatches(Head(recvBuf))
          /\ LET freed == arena_free_ptr(persistent, verifyToken) IN
             /\ persistent' = arena_allocate(freed, "shared_secret")
             /\ sharedSecret' = length(freed) + 1
          /\ encryption' = TRUE
          /\ scratch' = arena_allocate(Decoded("enc_res"), "secret")
          /\ pc' = "authenticate"
          /\ UNCHANGED <<open, state, compression, cached, playerName, verifyToken, streams, json,
                         toClient>>
       \/ FALSE \in TokenMatches(Head(recvBuf)) /\ Fail

Handling(step) ==
    /\ open /\ pc = step
    /\ UNCHANGED <<toServer, recvBuf, clientVars, garbled>>

(* encryption_authenticate_player: the session server confirms the player  *)
(* with an answer that parses, or the login fails.                         *)
encryption_authenticate_player ==
    /\ Handling("authenticate")
    /\ \/ /\ scratch' = arena_allocate(arena_allocate(scratch, "answer"), "json")
          /\ json' = length(scratch')
          /\ pc' = "enable_compression"
          /\ UNCHANGED <<open, connVars, cached, pointerVars, toClient>>
       \/ Fail

(* The format of the packet that announces the compression: the flag is    *)
(* set after it is sent.                                                   *)
AnnounceFormat_After == TRUE  (* Mutant: the flag is set before. *)
AnnounceFormat == compression

enable_compression ==
    /\ Handling("enable_compression")
    /\ Sends(PKT_LOGIN_COMPRESS, AnnounceFormat)
    /\ scratch' = AfterSend(PKT_LOGIN_COMPRESS, scratch)
    /\ persistent' = arena_allocate(persistent, "streams")
    /\ streams' = length(persistent')
    /\ compression' = TRUE
    /\ pc' = "login_success"
    /\ UNCHANGED <<open, state, encryption, cached, playerName, verifyToken, sharedSecret, json>>

(* send_login_success, which fails for an answer without the fields it     *)
(* needs, and the end of enc_res.                                          *)
send_login_success ==
    /\ Handling("login_success")
    /\ \/ /\ Sends(PKT_LOGIN_SUCCESS, compression)
          /\ LET sent == AfterSend(PKT_LOGIN_SUCCESS, arena_allocate(scratch, "login_success")) IN
             Return(arena_free_ptr(sent, json))
          /\ json' = NULL
          /\ UNCHANGED <<connVars, pointerVars>>
       \/ Fail
-----------------------------------------------------------------------------
(* The client.  It writes as it stands, and reads in order.                *)
ClientSends(id, body) ==
    /\ open
    /\ toServer' = Append(toServer, [id |-> id, body |-> body, enc |-> cEnc, cmp |-> cCmp])
    /\ UNCHANGED <<pc, open, connVars, scratch, cached, pointerVars, json, toClient, recvBuf,
                   garbled>>

ClientGoes(from, to) == cStep = from /\ cStep' = to

(* The first packet follows the handshake without an answer to it.         *)
ClientConnect ==
    /\ \/ ClientGoes("connect", "status") /\ ClientSends(0, "STATUS")
       \/ ClientGoes("connect", "login") /\ ClientSends(0, "LOGIN")
    /\ UNCHANGED <<cEnc, cCmp, strays>>

ClientRequest ==
    /\ \/ ClientGoes("status", "await_status") /\ ClientSends(0, "other")
       \/ ClientGoes("ping", "await_pong") /\ ClientSends(1, "other")
       \/ ClientGoes("login", "await_crypt") /\ ClientSends(0, "other")
       \/ ClientGoes("ack", "done") /\ ClientSends(3, "other")
    /\ UNCHANGED <<cEnc, cCmp, strays>>

(* The answer with the token is the last packet in the clear.              *)
ClientEncrypt ==
    /\ ClientGoes("respond", "await_success") /\ ClientSends(1, "token")
    /\ cEnc' = TRUE
    /\ UNCHANGED <<cCmp, strays>>

ClientStray ==
    /\ strays < MaxStrays
    /\ strays' = strays + 1
    /\ \E p \in StrayPackets : ClientSends(p[1], p[2])
    /\ UNCHANGED <<cStep, cEnc, cCmp>>

(* What the client does after a packet it waited for                       *)
Answered(id) ==
    CASE cStep = "await_status" /\ id = "STATUS_RESPONSE" -> "ping"
      [] cStep = "await_pong" /\ id = "PONG"              -> "done"
      [] cStep = "await_crypt" /\ id = "CRYPT_REQUEST"    -> "respond"
      [] cStep = "await_success" /\ id = "LOGIN_SUCCESS"  -> "ack"
      [] OTHER                                            -> cStep

ClientReceive ==
    /\ toClient # <<>>
    /\ toClient' = Tail(toClient)
    /\ LET p == Head(toClient) IN
       \/ /\ p.enc = cEnc /\ p.cmp = cCmp
          /\ cStep' = Answered(p.id)
          /\ cCmp' = (cCmp \/ p.id = "COMPRESS")
          /\ UNCHANGED garbled
       \/ /\ ~(p.enc = cEnc /\ p.cmp = cCmp)
          /\ garbled' = TRUE
          /\ cStep' = "lost"
          /\ UNCHANGED cCmp
    /\ UNCHANGED <<pc, open, connVars, scratch, cached, pointerVars, json, toServer, recvBuf,
                   cEnc, strays>>
-----------------------------------------------------------------------------
ServerStep ==
    \/ fill_buffer
    \/ receive_again
    \/ receive_garbled
    \/ receive_unsupported
    \/ receive_wild
    \/ receive_mismatched
    \/ pkt_handle_dummy
    \/ pkt_handle_handshake
    \/ pkt_handle_status
    \/ pkt_handle_ping
    \/ pkt_handle_log_start
    \/ pkt_handle_enc_res
    \/ encryption_authenticate_player
    \/ enable_compression
    \/ send_login_success

Next ==
    \/ ServerStep
    \/ ClientConnect
    \/ ClientRequest
    \/ ClientEncrypt
    \/ ClientStray
    \/ ClientReceive

Spec == Init /\ [][Next]_vars

(* The network thread keeps running, and the client reads what it gets; it *)
(* may stop sending at any time.                                           *)
FairSpec == Spec /\ WF_vars(ServerStep) /\ WF_vars(ClientReceive)
-----------------------------------------------------------------------------
(* Both sides switch to encryption and to the compressed format at the     *)
(* same packet of each direction: neither ever misreads the other, whose   *)
(* packets may still be on the way.  For a client within the protocol.     *)
FormatsAgree == strays = 0 => ~garbled

(* The pointers into the persistent arena, which enc_res cuts at the       *)
(* token, still point to what they are followed for: the hash of the       *)
(* login, the deflate stream of a large packet, the inflate stream of the  *)
(* packets to come.  Whatever the client sends.                            *)
PointersLive ==
    open =>
        /\ pc = "authenticate" =>
            /\ Holds(persistent, playerName, "player_name")
            /\ Holds(persistent, sharedSecret, "shared_secret")
        /\ compression /\ pc \in {"receive", "idle", "login_success"} =>
            Holds(persistent, streams, "streams")

(* Between packets the scratch arena holds the packet cache and nothing    *)
(* else, but for what each login has left.                                 *)
ScratchReturned ==
    open /\ pc = "idle" =>
        \A i \in DOMAIN scratch.blocks :
            scratch.blocks[i] = "login_success" \/ (cached /\ i = length(scratch))

(* A client that keeps to the protocol and waits for an answer gets one or *)
(* is disconnected, and the server goes on.                                *)
ClientServed ==
    \A s \in {"await_status", "await_pong", "await_crypt", "await_success"} :
        cStep = s ~> cStep # s \/ (~open /\ pc # "dead") \/ strays > 0

(* spec.org:36: arena_restore "will free all memory allocated after the    *)
(* last arena_save call".  The one in send_packet leaves what its handler  *)
(* has allocated before: the session server's answer, which the login goes *)
(* on to read.                                                             *)
HandlerKeepsItsMemory == pc = "login_success" => Holds(scratch, json, "json")
=============================================================================
