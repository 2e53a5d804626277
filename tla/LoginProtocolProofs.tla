-------------------------- MODULE LoginProtocolProofs --------------------------
(***************************************************************************)
(* What holds of LoginProtocol for any number of stray packets: pointers,  *)
(* scratch arena, and, for a client without strays, the formats.           *)
(***************************************************************************)
EXTENDS LoginProtocol, SequenceTheorems, TLAPS

Labels == {"recv_buffer", "send_buffer", "peer_addr", "player_name", "verify_token",
           "shared_secret", "streams", "packet", "payload", "send", "request", "secret",
           "answer", "json", "login_success"}
Arenas == [blocks : Seq(Labels), saved : Int]

Steps == {"connect", "status", "await_status", "ping", "await_pong", "login", "await_crypt",
          "respond", "await_success", "ack", "done", "lost"}

TypeInv ==
    /\ pc \in {"idle", "receive", "authenticate", "enable_compression", "login_success", "dead"}
    /\ open \in BOOLEAN /\ state \in States /\ encryption \in BOOLEAN /\ compression \in BOOLEAN
    /\ scratch \in Arenas /\ persistent \in Arenas /\ cached \in BOOLEAN
    /\ playerName \in Nat /\ verifyToken \in Nat /\ sharedSecret \in Nat /\ streams \in Nat
    /\ json \in Nat
    /\ toServer \in Seq(ToServer) /\ recvBuf \in Seq(ToServer) /\ toClient \in Seq(ToClient)
    /\ cStep \in Steps /\ cEnc \in BOOLEAN /\ cCmp \in BOOLEAN
    /\ strays \in Nat /\ garbled \in BOOLEAN
    /\ pc = "idle" => recvBuf = <<>>

(* The token lies right behind the name of the same login: what enc_res    *)
(* frees, it frees behind the name.                                        *)
NameInv ==
    \/ playerName = NULL /\ verifyToken = NULL
    \/ verifyToken = playerName + 1 /\ Holds(persistent, playerName, "player_name")

(* A scratch arena in which a save goes back to what earlier logins have   *)
(* left, and one without a save that holds nothing else.                   *)
LeftOver(a, n) == \A i \in 1 .. n : a.blocks[i] = "login_success"
Saved(a) == a \in Arenas /\ a.saved \in 0 .. length(a) /\ LeftOver(a, a.saved)
Restored(a) == a \in Arenas /\ a.saved = NotSaved /\ LeftOver(a, length(a))

Sound(a) == Saved(a) \/ Restored(a)

(* The first send of a handler forgets the save, for good; a packet that   *)
(* is dropped does not.                                                    *)
SaveInv ==
    /\ pc \in {"idle", "receive"} =>
          IF cached THEN Saved(scratch) /\ scratch.saved = length(scratch) - 1
          ELSE Restored(scratch)
    /\ pc \in {"authenticate", "enable_compression"} => Saved(scratch)
    /\ pc = "login_success" => Sound(scratch)
-----------------------------------------------------------------------------
(* What a client that keeps to the protocol sends *)
Packet(id, body) == [id |-> id, body |-> body, enc |-> FALSE, cmp |-> FALSE]
Ack(enc) == [id |-> 3, body |-> "other", enc |-> enc, cmp |-> TRUE]
Reply(id, enc, cmp) == [id |-> id, enc |-> enc, cmp |-> cmp]

(* What the server has yet to handle, and the client has yet to read *)
Pipe == recvBuf \o toServer
Exchange(step, s, packets, replies) ==
    cStep = step /\ state = s /\ Pipe = packets /\ toClient = replies

(* The exchanges in the clear *)
ClearPhase ==
    /\ pc \in {"idle", "receive"} /\ ~encryption /\ ~compression /\ ~cEnc /\ ~cCmp
    /\ \/ Exchange("connect", "HANDSHAKE", <<>>, <<>>)
       \/ Exchange("status", "HANDSHAKE", <<Packet(0, "STATUS")>>, <<>>)
       \/ Exchange("status", "STATUS", <<>>, <<>>)
       \/ Exchange("await_status", "HANDSHAKE", <<Packet(0, "STATUS"), Packet(0, "other")>>, <<>>)
       \/ Exchange("await_status", "STATUS", <<Packet(0, "other")>>, <<>>)
       \/ Exchange("await_status", "STATUS", <<>>, <<Reply("STATUS_RESPONSE", FALSE, FALSE)>>)
       \/ Exchange("ping", "STATUS", <<>>, <<>>)
       \/ Exchange("await_pong", "STATUS", <<Packet(1, "other")>>, <<>>)
       \/ Exchange("await_pong", "STATUS", <<>>, <<Reply("PONG", FALSE, FALSE)>>)
       \/ Exchange("done", "STATUS", <<>>, <<>>)
       \/ Exchange("login", "HANDSHAKE", <<Packet(0, "LOGIN")>>, <<>>)
       \/ Exchange("login", "LOGIN", <<>>, <<>>)
       \/ Exchange("await_crypt", "HANDSHAKE", <<Packet(0, "LOGIN"), Packet(0, "other")>>, <<>>)
       \/ Exchange("await_crypt", "LOGIN", <<Packet(0, "other")>>, <<>>)
       \/ Exchange("await_crypt", "LOGIN", <<>>, <<Reply("CRYPT_REQUEST", FALSE, FALSE)>>)
       \/ Exchange("respond", "LOGIN", <<>>, <<>>)

(* The token is on its way, or being checked: the last packet in the clear *)
(* in that direction, and no other is on its way.                          *)
TokenPhase ==
    /\ ~compression /\ cEnc /\ ~cCmp
    /\ \/ /\ pc \in {"idle", "receive"} /\ ~encryption
          /\ Exchange("await_success", "LOGIN", <<Packet(1, "token")>>, <<>>)
       \/ /\ pc \in {"authenticate", "enable_compression"} /\ encryption
          /\ Exchange("await_success", "LOGIN", <<>>, <<>>)

(* The compression is announced in the format that it ends.                *)
CompressPhase ==
    /\ encryption /\ compression /\ cEnc
    /\ \/ /\ pc = "login_success"
          /\ \/ /\ ~cCmp
                /\ Exchange("await_success", "LOGIN", <<>>, <<Reply("COMPRESS", TRUE, FALSE)>>)
             \/ cCmp /\ Exchange("await_success", "LOGIN", <<>>, <<>>)
       \/ /\ pc \in {"idle", "receive"}
          /\ \/ /\ ~cCmp
                /\ Exchange("await_success", "LOGIN", <<>>,
                      <<Reply("COMPRESS", TRUE, FALSE), Reply("LOGIN_SUCCESS", TRUE, TRUE)>>)
             \/ /\ cCmp
                /\ Exchange("await_success", "LOGIN", <<>>, <<Reply("LOGIN_SUCCESS", TRUE, TRUE)>>)

(* The client has logged in: one packet more, in the new format.           *)
FinalPhase ==
    /\ encryption /\ compression /\ cEnc /\ cCmp
    /\ pc \in {"idle", "receive"} /\ state = "LOGIN" /\ toClient = <<>>
    /\ \/ cStep = "ack" /\ recvBuf = <<>> /\ toServer = <<>>
       \/ cStep = "done" /\ recvBuf = <<>> /\ toServer \in {<<>>, <<Ack(TRUE)>>}
       \/ cStep = "done" /\ recvBuf = <<Ack(FALSE)>> /\ toServer = <<>>

(* What the client can still read once the connection is closed            *)
RepliesInv ==
    \/ toClient = <<>>
    \/ \E id \in Replies : toClient = <<Reply(id, cEnc, cCmp)>>
    \/ /\ cEnc /\ ~cCmp
       /\ toClient = <<Reply("COMPRESS", TRUE, FALSE), Reply("LOGIN_SUCCESS", TRUE, TRUE)>>

FormatInv ==
    strays = 0 =>
        /\ ~garbled
        /\ RepliesInv
        /\ open => ClearPhase \/ TokenPhase \/ CompressPhase \/ FinalPhase

-----------------------------------------------------------------------------
(* What the operations of an arena do to its allocations                   *)
LEMMA ArenaAllocates ==
  ASSUME NEW a \in Arenas, NEW l \in Labels
  PROVE  /\ arena_allocate(a, l) \in Arenas
         /\ arena_allocate(a, l).saved = a.saved
         /\ length(arena_allocate(a, l)) = length(a) + 1
         /\ \A i \in 1 .. length(a) : arena_allocate(a, l).blocks[i] = a.blocks[i]
         /\ arena_allocate(a, l).blocks[length(a) + 1] = l
         /\ length(a) \in Nat
<1>1. a.blocks \in Seq(Labels) /\ a.saved \in Int
  BY DEF Arenas
<1>2. arena_allocate(a, l) = [blocks |-> Append(a.blocks, l), saved |-> a.saved]
  <2> DEFINE more == Append(a.blocks, l)
  <2>1. arena_allocate(a, l) = [a EXCEPT !.blocks = more]
    BY DEF arena_allocate
  <2> HIDE DEF more
  <2>2. [a EXCEPT !.blocks = more] = [blocks |-> more, saved |-> a.saved]
    BY DEF Arenas
  <2>3. QED BY <2>1, <2>2 DEF more
<1>3. /\ Append(a.blocks, l) \in Seq(Labels)
      /\ Len(Append(a.blocks, l)) = Len(a.blocks) + 1
      /\ \A i \in 1 .. Len(a.blocks) : Append(a.blocks, l)[i] = a.blocks[i]
      /\ Append(a.blocks, l)[Len(a.blocks) + 1] = l
  BY <1>1, AppendProperties
<1>4. QED BY <1>1, <1>2, <1>3 DEF Arenas, length

LEMMA ArenaCuts ==
  ASSUME NEW a \in Arenas, NEW n \in 0 .. length(a), NEW s \in Int
  PROVE  LET b == [blocks |-> SubSeq(a.blocks, 1, n), saved |-> s]
         IN  b \in Arenas /\ length(b) = n /\ \A i \in 1 .. n : b.blocks[i] = a.blocks[i]
<1>1. a.blocks \in Seq(Labels) /\ n \in Int /\ \A i \in 1 .. n : i \in 1 .. Len(a.blocks)
  BY DEF Arenas, length
<1>2. \A i \in 1 .. n : a.blocks[i] \in Labels
  BY <1>1
<1> DEFINE cut == SubSeq(a.blocks, 1, n)
<1>3. /\ cut \in Seq(Labels) /\ Len(cut) = (IF 1 <= n THEN n - 1 + 1 ELSE 0)
      /\ \A i \in 1 .. n - 1 + 1 : cut[i] = a.blocks[1 + i - 1]
  BY <1>1, <1>2, SubSeqProperties
<1> HIDE DEF cut
<1>4. Len(cut) = n /\ \A i \in 1 .. n : cut[i] = a.blocks[i]
  BY <1>3 DEF length, Arenas
<1>5. QED BY <1>3, <1>4 DEF Arenas, length, cut

LEMMA ArenaFrees ==
  ASSUME NEW a \in Arenas, NEW ptr \in Nat
  PROVE  /\ arena_free_ptr(a, ptr) \in Arenas
         /\ arena_free_ptr(a, ptr).saved = a.saved
         /\ length(arena_free_ptr(a, ptr)) =
               IF ptr \in 1 .. length(a) THEN ptr - 1 ELSE length(a)
         /\ \A i \in 1 .. length(arena_free_ptr(a, ptr)) :
               arena_free_ptr(a, ptr).blocks[i] = a.blocks[i]
<1>1. a.blocks \in Seq(Labels) /\ a.saved \in Int /\ DOMAIN a.blocks = 1 .. length(a)
  BY DEF Arenas, length
<1>2. CASE ptr \in 1 .. length(a)
  <2>1. arena_free_ptr(a, ptr) = [blocks |-> SubSeq(a.blocks, 1, ptr - 1), saved |-> a.saved]
    BY <1>1, <1>2 DEF arena_free_ptr, Arenas
  <2>2. ptr - 1 \in 0 .. length(a)
    BY <1>1, <1>2 DEF length
  <2>3. QED BY <1>1, <1>2, <2>1, <2>2, ArenaCuts
<1>3. CASE ptr \notin 1 .. length(a)
  BY <1>1, <1>3 DEF arena_free_ptr
<1>4. QED BY <1>2, <1>3
-----------------------------------------------------------------------------
(* A save survives what is allocated after it, and what a restore leaves   *)
(* is what logins have left.                                               *)
LEMMA SavedAllocates ==
  ASSUME NEW a, Saved(a), NEW l \in Labels
  PROVE  Saved(arena_allocate(a, l))
<1>1. a \in Arenas /\ a.saved \in 0 .. length(a) /\ LeftOver(a, a.saved)
  BY DEF Saved
<1> DEFINE b == arena_allocate(a, l)
<1>2. /\ b \in Arenas /\ b.saved = a.saved /\ length(b) = length(a) + 1 /\ length(a) \in Nat
      /\ \A i \in 1 .. length(a) : b.blocks[i] = a.blocks[i]
  BY <1>1, ArenaAllocates
<1> HIDE DEF b
<1>3. Saved(b)
  BY <1>1, <1>2 DEF Saved, LeftOver
<1>4. QED BY <1>3 DEF b

LEMMA SavedRestores ==
  ASSUME NEW a, Saved(a)
  PROVE  Restored(arena_restore(a))
<1>1. a \in Arenas /\ a.saved \in 0 .. length(a) /\ LeftOver(a, a.saved) /\ length(a) \in Nat
  BY DEF Saved, Arenas, length
<1> DEFINE b == [blocks |-> SubSeq(a.blocks, 1, a.saved), saved |-> NotSaved]
<1>2. arena_restore(a) = b
  <2>1. a.saved \in Int /\ length(a) \in Int /\ a.saved >= 0 /\ a.saved <= length(a)
    BY <1>1
  <2>2. a.saved # NotSaved /\ length(a) >= a.saved
    BY <2>1 DEF NotSaved
  <2>3. QED BY <2>2 DEF arena_restore
<1>3. b \in Arenas /\ length(b) = a.saved /\ \A i \in 1 .. a.saved : b.blocks[i] = a.blocks[i]
  <2>1. NotSaved \in Int
    BY DEF NotSaved
  <2>2. QED BY <1>1, <2>1, ArenaCuts
<1>4. b.saved = NotSaved
  OBVIOUS
<1> HIDE DEF b
<1>5. QED BY <1>1, <1>2, <1>3, <1>4 DEF Restored, LeftOver

LEMMA RestoredSaves ==
  ASSUME NEW a, Restored(a)
  PROVE  Saved(arena_save(a)) /\ arena_save(a).saved = length(arena_save(a))
         /\ length(arena_save(a)) = length(a) /\ arena_save(a) = [a EXCEPT !.saved = length(a)]
  BY DEF Restored, Saved, arena_save, Arenas, length, LeftOver

LEMMA RestoredRestores ==
  ASSUME NEW a, Restored(a)
  PROVE  arena_restore(a) = a
  BY DEF Restored, arena_restore, Arenas

LEMMA SavedSends ==
  ASSUME NEW a, Saved(a), NEW id
  PROVE  Sound(AfterSend(id, a))
<1>1. arena_save(a) = a
  BY DEF Saved, arena_save, NotSaved
<1>2. Saved(arena_allocate(a, "send"))
  BY SavedAllocates DEF Labels
<1>3. QED BY <1>1, <1>2, SavedRestores DEF AfterSend, Sound

(* The buffer of login_success lies in front of the save of send_packet.   *)
LEMMA SoundSends ==
  ASSUME NEW a, Sound(a), NEW id
  PROVE  Sound(AfterSend(id, arena_allocate(a, "login_success")))
<1> DEFINE b == arena_allocate(a, "login_success")
<1>1. CASE Saved(a)
  BY <1>1, SavedAllocates, SavedSends DEF Labels
<1>2. CASE Restored(a)
  <2>1. a \in Arenas /\ a.saved = NotSaved /\ LeftOver(a, length(a)) /\ "login_success" \in Labels
    BY <1>2 DEF Restored, Labels
  <2>2. /\ b \in Arenas /\ b.saved = a.saved /\ length(b) = length(a) + 1 /\ length(a) \in Nat
        /\ \A i \in 1 .. length(a) : b.blocks[i] = a.blocks[i]
        /\ b.blocks[length(a) + 1] = "login_success"
    BY <2>1, ArenaAllocates
  <2> HIDE DEF b
  <2>3. Restored(b)
    BY <2>1, <2>2 DEF Restored, LeftOver
  <2>4. Restored(arena_restore(arena_allocate(arena_save(b), "send")))
    BY <2>3, RestoredSaves, SavedAllocates, SavedRestores DEF Labels
  <2>5. Sound(AfterSend(id, b))
    BY <2>3, <2>4 DEF AfterSend, Sound
  <2>6. QED BY <2>5 DEF b
<1>3. QED BY <1>1, <1>2 DEF Sound

(* What is given back may lie in front of the save, which then restores    *)
(* nothing.                                                                *)
LEMMA FreedRestores ==
  ASSUME NEW a, Sound(a), NEW ptr \in Nat
  PROVE  Restored(arena_restore(arena_free_ptr(a, ptr)))
<1> DEFINE b == arena_free_ptr(a, ptr)
<1>1. a \in Arenas /\ length(a) \in Nat
  BY DEF Sound, Saved, Restored, Arenas, length
<1>2. /\ b \in Arenas /\ b.saved = a.saved
      /\ length(b) = IF ptr \in 1 .. length(a) THEN ptr - 1 ELSE length(a)
      /\ \A i \in 1 .. length(b) : b.blocks[i] = a.blocks[i]
  BY <1>1, ArenaFrees
<1> HIDE DEF b
<1>3. length(b) <= length(a) /\ length(b) \in Nat
  BY <1>1, <1>2
<1>4. CASE Restored(a)
  <2>1. Restored(b)
    BY <1>1, <1>2, <1>3, <1>4 DEF Restored, LeftOver
  <2>2. QED BY <2>1, RestoredRestores DEF b
<1>5. CASE Saved(a) /\ a.saved <= length(b)
  <2>1. Saved(b)
    BY <1>1, <1>2, <1>3, <1>5 DEF Saved, LeftOver
  <2>2. QED BY <2>1, SavedRestores DEF b
<1>6. CASE Saved(a) /\ ~(a.saved <= length(b))
  <2>1. a.saved \in Nat /\ a.saved > length(b) /\ LeftOver(a, a.saved)
    BY <1>1, <1>3, <1>6 DEF Saved
  <2> DEFINE c == [blocks |-> b.blocks, saved |-> NotSaved]
  <2>2. arena_restore(b) = c
    <3>1. ~(length(b) >= b.saved)
      BY <1>2, <1>3, <2>1
    <3>2. QED BY <3>1 DEF arena_restore
  <2>3. c \in Arenas /\ length(c) = length(b) /\ c.saved = NotSaved
    BY <1>2 DEF Arenas, length, NotSaved
  <2>4. \A i \in 1 .. length(b) : i \in 1 .. a.saved
    BY <1>3, <2>1
  <2>5. LeftOver(c, length(b))
    BY <1>2, <2>1, <2>4 DEF LeftOver
  <2>6. Restored(c)
    BY <2>3, <2>5 DEF Restored
  <2>7. QED BY <2>2, <2>6 DEF b
<1>7. QED BY <1>4, <1>5, <1>6 DEF Sound

LEMMA CacheIsSaved ==
  ASSUME SaveInv, pc \in {"idle", "receive"}
  PROVE  Saved(Cache) /\ Cache.saved = length(Cache) - 1
<1>1. CASE cached
  BY <1>1 DEF SaveInv, Cache
<1>2. CASE ~cached
  <2> DEFINE a == arena_save(scratch)
  <2>1. Saved(a) /\ a.saved = length(a)
    BY <1>2, RestoredSaves DEF SaveInv
  <2>2. Cache = arena_allocate(a, "packet") /\ "packet" \in Labels /\ a \in Arenas
    BY <1>2, <2>1 DEF Cache, Labels, Saved
  <2> HIDE DEF a
  <2>3. QED BY <2>1, <2>2, SavedAllocates, ArenaAllocates
<1>3. QED BY <1>1, <1>2

LEMMA DecodedIsSaved ==
  ASSUME SaveInv, pc \in {"idle", "receive"}, NEW h
  PROVE  Saved(Decoded(h))
  BY CacheIsSaved, SavedAllocates DEF Decoded, Labels
-----------------------------------------------------------------------------
(* What a pointer points to survives an allocation, and a cut behind it.   *)
LEMMA HoldsAfterAllocate ==
  ASSUME NEW a \in Arenas, NEW l \in Labels, NEW ptr, NEW label, Holds(a, ptr, label)
  PROVE  Holds(arena_allocate(a, l), ptr, label)
<1>1. DOMAIN a.blocks = 1 .. length(a) /\ ptr \in 1 .. length(a) /\ a.blocks[ptr] = label
  BY DEF Arenas, length, Holds
<1> DEFINE b == arena_allocate(a, l)
<1>2. /\ b \in Arenas /\ length(b) = length(a) + 1 /\ length(a) \in Nat
      /\ \A i \in 1 .. length(a) : b.blocks[i] = a.blocks[i]
  BY ArenaAllocates
<1> HIDE DEF b
<1>3. DOMAIN b.blocks = 1 .. length(b)
  BY <1>2 DEF Arenas, length
<1>4. ptr \in 1 .. length(b) /\ b.blocks[ptr] = label
  BY <1>1, <1>2
<1>5. QED BY <1>3, <1>4 DEF Holds, b

LEMMA HoldsAllocated ==
  ASSUME NEW a \in Arenas, NEW l \in Labels
  PROVE  Holds(arena_allocate(a, l), length(a) + 1, l)
<1> DEFINE b == arena_allocate(a, l)
<1>1. /\ b \in Arenas /\ length(b) = length(a) + 1 /\ length(a) \in Nat
      /\ b.blocks[length(a) + 1] = l
  BY ArenaAllocates
<1> HIDE DEF b
<1>2. DOMAIN b.blocks = 1 .. length(b)
  BY <1>1 DEF Arenas, length
<1>3. QED BY <1>1, <1>2 DEF Holds, b

LEMMA HoldsAfterFree ==
  ASSUME NEW a \in Arenas, NEW ptr \in Nat, NEW q \in Nat, q < ptr, NEW label, Holds(a, q, label)
  PROVE  Holds(arena_free_ptr(a, ptr), q, label)
<1>1. DOMAIN a.blocks = 1 .. length(a) /\ q \in 1 .. length(a) /\ a.blocks[q] = label
      /\ length(a) \in Nat
  BY DEF Arenas, length, Holds
<1> DEFINE b == arena_free_ptr(a, ptr)
<1>2. /\ b \in Arenas
      /\ length(b) = IF ptr \in 1 .. length(a) THEN ptr - 1 ELSE length(a)
      /\ \A i \in 1 .. length(b) : b.blocks[i] = a.blocks[i]
  BY ArenaFrees
<1> HIDE DEF b
<1>3. DOMAIN b.blocks = 1 .. length(b)
  BY <1>2 DEF Arenas, length
<1>4. q \in 1 .. length(b)
  BY <1>1, <1>2
<1>5. QED BY <1>1, <1>2, <1>3, <1>4 DEF Holds, b
-----------------------------------------------------------------------------
LEMMA ProtocolIds == 0 \in Ids /\ 1 \in Ids /\ 3 \in Ids
  BY DEF Ids

(* What is common to the handlers                                          *)
LEMMA ReceiveKeeps ==
  ASSUME TypeInv, NEW h, Receive(h)
  PROVE  /\ pc = "receive" /\ open /\ recvBuf # <<>>
         /\ recvBuf' \in Seq(ToServer) /\ Head(recvBuf) \in ToServer
         /\ Handler(Head(recvBuf)) = h
         /\ UNCHANGED <<toServer, cStep, cEnc, cCmp, strays, garbled>>
  BY HeadTailProperties DEF TypeInv, Receive, clientVars

LEMMA AcceptKeeps ==
  ASSUME TypeInv, NEW h, Accept(h)
  PROVE  /\ pc = "receive" /\ open /\ recvBuf # <<>>
         /\ recvBuf' \in Seq(ToServer) /\ Head(recvBuf) \in ToServer
         /\ Handler(Head(recvBuf)) = h
         /\ UNCHANGED <<toServer, cStep, cEnc, cCmp, strays, garbled>>
  BY ReceiveKeeps DEF Accept

(* A row that has an encoder for an id has a reply there.                  *)
LEMMA EncodersTyped ==
  ASSUME state \in States, NEW id \in Nat, Encodable(id)
  PROVE  Encoders[state][id + 1] \in Replies
<1>1. CASE state = "HANDSHAKE"
  <2>1. Encoders[state] = <<"EMPTY">>
    BY <1>1 DEF Encoders
  <2>2. id + 1 = 1
    BY <2>1 DEF Encodable
  <2>3. QED BY <2>1, <2>2 DEF Replies
<1>2. CASE state = "STATUS"
  <2>1. Encoders[state] = <<"STATUS_RESPONSE", "PONG">>
    BY <1>2 DEF Encoders
  <2>2. id + 1 \in {1, 2}
    BY <2>1 DEF Encodable
  <2>3. QED BY <2>1, <2>2 DEF Replies
<1>3. CASE state = "LOGIN"
  <2>1. Encoders[state] = <<"EMPTY", "CRYPT_REQUEST", "LOGIN_SUCCESS", "COMPRESS">>
    BY <1>3 DEF Encoders
  <2>2. id + 1 \in {1, 2, 3, 4}
    BY <2>1 DEF Encodable
  <2>3. QED BY <2>1, <2>2 DEF Replies
<1>4. QED BY <1>1, <1>2, <1>3 DEF States

LEMMA SendsTyped ==
  ASSUME TypeInv, NEW id \in Nat, NEW cmp \in BOOLEAN, Sends(id, cmp)
  PROVE  toClient' \in Seq(ToClient)
<1>1. CASE Encodable(id)
  <2> DEFINE r == [id |-> Encoders[state][id + 1], enc |-> encryption, cmp |-> cmp]
  <2>1. r \in ToClient
    BY <1>1, EncodersTyped DEF TypeInv, ToClient
  <2>2. toClient' = Append(toClient, r)
    BY <1>1 DEF Sends
  <2> HIDE DEF r
  <2>3. QED BY <2>1, <2>2, AppendProperties DEF TypeInv
<1>2. CASE ~Encodable(id)
  BY <1>2 DEF Sends, TypeInv
<1>3. QED BY <1>1, <1>2

(* The thread is between two steps of a handler, or between packets, and   *)
(* its memory is in order.                                                 *)
Memory == TypeInv /\ NameInv /\ PointersLive /\ SaveInv

LEMMA FailKeeps ==
  ASSUME Memory, Fail,
         UNCHANGED <<toServer, cStep, cEnc, cCmp, strays, garbled>>,
         recvBuf' \in Seq(ToServer), pc # "idle"
  PROVE  Memory'
<1>1. UNCHANGED <<pc, state, encryption, compression, scratch, cached, persistent, playerName,
                  verifyToken, sharedSecret, streams, json, toClient>> /\ open' = FALSE
  BY DEF Fail, connVars, pointerVars
<1>2. TypeInv'
  BY <1>1 DEF Memory, TypeInv
<1>3. NameInv' /\ PointersLive' /\ SaveInv'
  BY <1>1 DEF Memory, NameInv, PointersLive, SaveInv, Sound, Saved, Restored, LeftOver, Holds, length
<1>4. QED BY <1>2, <1>3 DEF Memory

LEMMA DiesKeeps ==
  ASSUME Memory, Dies,
         UNCHANGED <<toServer, cStep, cEnc, cCmp, strays>>,
         recvBuf' \in Seq(ToServer), garbled' \in BOOLEAN
  PROVE  Memory'
<1>1. /\ UNCHANGED <<state, encryption, compression, scratch, cached, persistent, playerName,
                     verifyToken, sharedSecret, streams, json, toClient>>
      /\ open' = FALSE /\ pc' = "dead"
  BY DEF Dies, connVars, pointerVars
<1>2. TypeInv'
  BY <1>1 DEF Memory, TypeInv
<1>3. NameInv' /\ PointersLive' /\ SaveInv'
  BY <1>1 DEF Memory, NameInv, PointersLive, SaveInv, Holds
<1>4. QED BY <1>2, <1>3 DEF Memory

(* A handler that leaves pointers and flags alone                          *)
LEMMA HandlerKeeps ==
  ASSUME Memory, NEW h, Accept(h), NEW a, Return(a), Sound(a),
         UNCHANGED <<encryption, compression, pointerVars, json>>,
         state' \in States, toClient' \in Seq(ToClient)
  PROVE  Memory'
<1>1. /\ pc = "receive" /\ open /\ recvBuf' \in Seq(ToServer)
      /\ UNCHANGED <<toServer, cStep, cEnc, cCmp, strays, garbled>>
  BY AcceptKeeps DEF Memory
<1>2. /\ scratch' = arena_restore(a) /\ cached' = FALSE /\ pc' = "receive" /\ UNCHANGED open
      /\ UNCHANGED <<persistent, playerName, verifyToken, sharedSecret, streams, json>>
  BY DEF Return, pointerVars
<1>3. Restored(scratch')
  BY <1>2, SavedRestores, RestoredRestores DEF Sound
<1>4. TypeInv'
  BY <1>1, <1>2, <1>3 DEF Memory, TypeInv, Restored
<1>5. NameInv' /\ PointersLive' /\ SaveInv'
  BY <1>1, <1>2, <1>3 DEF Memory, NameInv, PointersLive, SaveInv, Holds
<1>6. QED BY <1>4, <1>5 DEF Memory
-----------------------------------------------------------------------------
LEMMA InitMemory == Init => Memory
<1> SUFFICES ASSUME Init
             PROVE  Memory
  OBVIOUS
<1>1. scratch \in Arenas /\ scratch.saved = NotSaved /\ length(scratch) = 0
  BY DEF Init, arena_create, Arenas, NotSaved, length
<1>2. persistent \in Arenas
  <2> DEFINE three == <<"recv_buffer", "send_buffer", "peer_addr">>
  <2>1. three \in Seq(Labels)
    BY DEF Labels
  <2> HIDE DEF three
  <2>2. [arena_create EXCEPT !.blocks = three] \in Arenas
    BY <2>1 DEF arena_create, Arenas, NotSaved
  <2>3. QED BY <2>2 DEF Init, three
<1>3. TypeInv
  <2>1. toServer \in Seq(ToServer) /\ recvBuf \in Seq(ToServer) /\ toClient \in Seq(ToClient)
    BY DEF Init
  <2>2. /\ playerName \in Nat /\ verifyToken \in Nat /\ sharedSecret \in Nat /\ streams \in Nat
        /\ json \in Nat /\ strays \in Nat
    BY DEF Init, NULL
  <2>3. state \in States /\ cStep \in Steps
    BY DEF Init, States, Steps
  <2>4. QED BY <1>1, <1>2, <2>1, <2>2, <2>3 DEF Init, TypeInv
<1>4. NameInv /\ PointersLive
  BY DEF Init, NameInv, PointersLive
<1>5. SaveInv
  BY <1>1 DEF Init, SaveInv, Restored, LeftOver
<1>6. QED BY <1>3, <1>4, <1>5 DEF Memory

LEMMA FillMemory == Memory /\ fill_buffer => Memory'
<1> SUFFICES ASSUME Memory, fill_buffer
             PROVE  Memory'
  OBVIOUS
<1>1. /\ pc = "idle" /\ pc' = "receive" /\ toServer' = <<>>
      /\ UNCHANGED <<open, state, encryption, compression, scratch, cached, persistent, playerName,
                     verifyToken, sharedSecret, streams, json, toClient, cStep, cEnc, cCmp, strays,
                     garbled>>
  BY DEF fill_buffer, connVars, pointerVars, clientVars
<1>2. recvBuf' \in Seq(ToServer)
  <2>1. toServer \in Seq(ToServer) /\ encryption \in BOOLEAN
    BY DEF Memory, TypeInv
  <2>2. ASSUME NEW i \in 1 .. Len(toServer)
        PROVE  [toServer[i] EXCEPT !.enc = (@ # encryption)] \in ToServer
    <3>1. toServer[i] \in ToServer
      BY <2>1
    <3>2. QED BY <2>1, <3>1 DEF ToServer
  <2>3. recvBuf' = [i \in 1 .. Len(toServer) |-> [toServer[i] EXCEPT !.enc = (@ # encryption)]]
    BY <2>1 DEF fill_buffer
  <2>4. QED BY <2>1, <2>2, <2>3
<1>3. TypeInv'
  BY <1>1, <1>2 DEF Memory, TypeInv
<1>4. NameInv' /\ PointersLive' /\ SaveInv'
  BY <1>1 DEF Memory, NameInv, PointersLive, SaveInv, Sound, Saved, Restored, LeftOver, Holds, length
<1>5. QED BY <1>3, <1>4 DEF Memory

LEMMA AgainMemory == Memory /\ receive_again => Memory'
<1> SUFFICES ASSUME Memory, receive_again
             PROVE  Memory'
  OBVIOUS
<1>1. /\ pc = "receive" /\ pc' = "idle" /\ recvBuf = <<>> /\ scratch' = Cache /\ cached' = TRUE
      /\ UNCHANGED <<open, state, encryption, compression, persistent, playerName, verifyToken,
                     sharedSecret, streams, json, toServer, toClient, recvBuf, cStep, cEnc, cCmp,
                     strays, garbled>>
  BY DEF receive_again, connVars, pointerVars, clientVars
<1>2. Saved(scratch') /\ scratch'.saved = length(scratch') - 1
  BY <1>1, CacheIsSaved DEF Memory, length
<1>3. TypeInv'
  BY <1>1, <1>2 DEF Memory, TypeInv, Saved
<1>4. NameInv' /\ PointersLive' /\ SaveInv'
  BY <1>1, <1>2 DEF Memory, NameInv, PointersLive, SaveInv, Holds, length
<1>5. QED BY <1>3, <1>4 DEF Memory

LEMMA GarbledMemory == Memory /\ receive_garbled => Memory'
<1> SUFFICES ASSUME Memory, receive_garbled
             PROVE  Memory'
  OBVIOUS
<1>1. /\ garbled' = TRUE /\ UNCHANGED <<toServer, recvBuf, cStep, cEnc, cCmp, strays>>
      /\ recvBuf' \in Seq(ToServer)
  BY DEF receive_garbled, clientVars, Memory, TypeInv
<1>2. CASE Fail
  <2>1. /\ open' = FALSE
        /\ UNCHANGED <<pc, state, encryption, compression, scratch, cached, persistent, playerName,
                       verifyToken, sharedSecret, streams, json, toClient>>
    BY <1>2 DEF Fail, connVars, pointerVars
  <2>2. TypeInv'
    BY <1>1, <2>1 DEF Memory, TypeInv
  <2>3. NameInv' /\ PointersLive' /\ SaveInv'
    BY <2>1 DEF Memory, NameInv, PointersLive, SaveInv, Sound, Saved, Restored, LeftOver, Holds,
               length
  <2>4. QED BY <2>2, <2>3 DEF Memory
<1>3. CASE Dies
  BY <1>1, <1>3, DiesKeeps
<1>4. QED BY <1>2, <1>3 DEF receive_garbled

LEMMA UnsupportedMemory == Memory /\ receive_unsupported => Memory'
  BY ReceiveKeeps, FailKeeps DEF Memory, receive_unsupported

LEMMA WildMemory == Memory /\ receive_wild => Memory'
<1> SUFFICES ASSUME Memory, receive_wild
             PROVE  Memory'
  OBVIOUS
<1>1. /\ pc = "receive" /\ recvBuf' \in Seq(ToServer)
      /\ UNCHANGED <<toServer, cStep, cEnc, cCmp, strays, garbled>>
  BY ReceiveKeeps DEF Memory, receive_wild
<1>2. QED BY <1>1, FailKeeps, DiesKeeps DEF Memory, TypeInv, receive_wild

LEMMA MismatchedMemory == Memory /\ receive_mismatched => Memory'
<1> SUFFICES ASSUME Memory, receive_mismatched
             PROVE  Memory'
  OBVIOUS
<1>1. /\ recvBuf' \in Seq(ToServer)
      /\ UNCHANGED <<toServer, cStep, cEnc, cCmp, strays, garbled>>
  BY ReceiveKeeps DEF Memory, receive_mismatched
<1>2. QED BY <1>1, DiesKeeps DEF Memory, TypeInv, receive_mismatched

LEMMA DummyMemory == Memory /\ pkt_handle_dummy => Memory'
<1> SUFFICES ASSUME Memory, pkt_handle_dummy
             PROVE  Memory'
  OBVIOUS
<1>1. Sound(Decoded("dummy"))
  BY AcceptKeeps, DecodedIsSaved DEF Memory, pkt_handle_dummy, Sound
<1>2. QED BY <1>1, HandlerKeeps DEF Memory, TypeInv, pkt_handle_dummy, connVars

LEMMA HandshakeMemory == Memory /\ pkt_handle_handshake => Memory'
<1> SUFFICES ASSUME Memory, pkt_handle_handshake
             PROVE  Memory'
  OBVIOUS
<1>1. Accept("handshake") /\ Sound(Decoded("handshake"))
  BY AcceptKeeps, DecodedIsSaved DEF Memory, pkt_handle_handshake, Sound
<1>2. CASE /\ Head(recvBuf).body \in NextStates
           /\ state' = Head(recvBuf).body
           /\ Return(Decoded("handshake"))
           /\ UNCHANGED <<encryption, compression, pointerVars, json, toClient>>
  <2>1. state' \in States /\ toClient' \in Seq(ToClient)
    BY <1>2 DEF NextStates, States, Memory, TypeInv
  <2>2. QED BY <1>1, <1>2, <2>1, HandlerKeeps
<1>3. CASE Fail
  BY <1>1, <1>3, AcceptKeeps, FailKeeps DEF Memory
<1>4. QED BY <1>2, <1>3 DEF pkt_handle_handshake

LEMMA StatusMemory == Memory /\ pkt_handle_status => Memory'
<1> SUFFICES ASSUME Memory, pkt_handle_status
             PROVE  Memory'
  OBVIOUS
<1>1. Sound(AfterSend(PKT_STATUS, Decoded("status")))
  BY AcceptKeeps, DecodedIsSaved, SavedSends DEF Memory, pkt_handle_status
<1>2. toClient' \in Seq(ToClient)
  BY SendsTyped DEF Memory, TypeInv, pkt_handle_status, PKT_STATUS
<1>3. QED BY <1>1, <1>2, HandlerKeeps DEF Memory, TypeInv, pkt_handle_status, connVars

LEMMA PingMemory == Memory /\ pkt_handle_ping => Memory'
<1> SUFFICES ASSUME Memory, pkt_handle_ping
             PROVE  Memory'
  OBVIOUS
<1>1. Accept("ping")
  BY DEF pkt_handle_ping
<1>2. CASE /\ Sends(PKT_STATUS_PING, compression)
           /\ Return(AfterSend(PKT_STATUS_PING, Decoded("ping")))
           /\ UNCHANGED <<connVars, pointerVars, json>>
  <2>1. Sound(AfterSend(PKT_STATUS_PING, Decoded("ping")))
    BY <1>1, AcceptKeeps, DecodedIsSaved, SavedSends DEF Memory
  <2>2. toClient' \in Seq(ToClient)
    BY <1>2, SendsTyped DEF Memory, TypeInv, PKT_STATUS_PING
  <2>3. QED BY <1>1, <1>2, <2>1, <2>2, HandlerKeeps DEF Memory, TypeInv, connVars
<1>3. CASE Dies
  <2>1. /\ recvBuf' \in Seq(ToServer)
        /\ UNCHANGED <<toServer, cStep, cEnc, cCmp, strays, garbled>>
    BY <1>1, AcceptKeeps DEF Memory
  <2>2. QED BY <1>3, <2>1, DiesKeeps DEF Memory, TypeInv
<1>4. QED BY <1>2, <1>3 DEF pkt_handle_ping

LEMMA LoginStartMemory == Memory /\ pkt_handle_log_start => Memory'
<1> SUFFICES ASSUME Memory, pkt_handle_log_start
             PROVE  Memory'
  OBVIOUS
<1> DEFINE name == arena_allocate(persistent, "player_name")
           token == arena_allocate(name, "verify_token")
           a == AfterSend(PKT_LOGIN_CRYPT_REQUEST,
                          arena_allocate(Decoded("log_start"), "request"))
<1>1. /\ pc = "receive" /\ open /\ recvBuf' \in Seq(ToServer)
      /\ UNCHANGED <<toServer, cStep, cEnc, cCmp, strays, garbled>>
  BY AcceptKeeps DEF Memory, pkt_handle_log_start
<1>2. Sound(a)
  BY <1>1, DecodedIsSaved, SavedAllocates, SavedSends DEF Memory, Labels
<1>3. toClient' \in Seq(ToClient)
  BY SendsTyped DEF Memory, TypeInv, pkt_handle_log_start, PKT_LOGIN_CRYPT_REQUEST
<1>4. /\ persistent' = token
      /\ playerName' = length(persistent) + 1 /\ verifyToken' = length(persistent) + 2
  BY DEF pkt_handle_log_start, Kept
<1>5. /\ persistent \in Arenas /\ name \in Arenas /\ token \in Arenas
      /\ length(persistent) \in Nat
      /\ Holds(token, length(persistent) + 1, "player_name")
  BY ArenaAllocates, HoldsAllocated, HoldsAfterAllocate DEF Memory, TypeInv, Labels
<1>6. ASSUME Holds(persistent, streams, "streams")
      PROVE  Holds(token, streams, "streams")
  BY <1>5, <1>6, HoldsAfterAllocate DEF Labels
<1> HIDE DEF name, token, a
<1>7. /\ scratch' = arena_restore(a) /\ cached' = FALSE /\ pc' = "receive"
      /\ UNCHANGED <<open, state, encryption, compression, sharedSecret, streams, json>>
  BY DEF pkt_handle_log_start, Return, connVars, a
<1>8. Restored(scratch')
  BY <1>2, <1>7, SavedRestores, RestoredRestores DEF Sound
<1>9. TypeInv'
  <2>1. scratch' \in Arenas /\ persistent' \in Arenas /\ playerName' \in Nat /\ verifyToken' \in Nat
    BY <1>4, <1>5, <1>8 DEF Restored
  <2>2. QED BY <1>1, <1>3, <1>7, <2>1 DEF Memory, TypeInv
<1>10. NameInv'
  BY <1>4, <1>5 DEF NameInv
<1>11. PointersLive'
  BY <1>1, <1>4, <1>6, <1>7 DEF Memory, PointersLive
<1>12. SaveInv'
  BY <1>7, <1>8 DEF SaveInv
<1>13. QED BY <1>9, <1>10, <1>11, <1>12 DEF Memory

LEMMA EncResMemory == Memory /\ pkt_handle_enc_res => Memory'
<1> SUFFICES ASSUME Memory, pkt_handle_enc_res
             PROVE  Memory'
  OBVIOUS
<1> DEFINE freed == arena_free_ptr(persistent, verifyToken)
<1>1. /\ pc = "receive" /\ open /\ recvBuf' \in Seq(ToServer)
      /\ UNCHANGED <<toServer, cStep, cEnc, cCmp, strays, garbled>>
  BY AcceptKeeps DEF Memory, pkt_handle_enc_res
<1>2. CASE /\ TRUE \in TokenMatches(Head(recvBuf))
           /\ persistent' = arena_allocate(freed, "shared_secret")
           /\ sharedSecret' = length(freed) + 1
           /\ encryption' = TRUE
           /\ scratch' = arena_allocate(Decoded("enc_res"), "secret")
           /\ pc' = "authenticate"
           /\ UNCHANGED <<open, state, compression, cached, playerName, verifyToken, streams, json,
                          toClient>>
  <2>1. verifyToken # NULL
    <3>1. ~Holds(persistent, NULL, "verify_token")
      BY DEF Memory, TypeInv, Arenas, Holds, NULL
    <3>2. QED BY <1>2, <3>1 DEF TokenMatches
  <2>2. /\ verifyToken = playerName + 1 /\ Holds(persistent, playerName, "player_name")
        /\ persistent \in Arenas /\ playerName \in Nat /\ verifyToken \in Nat
    BY <2>1 DEF Memory, NameInv, TypeInv
  <2>3. freed \in Arenas /\ Holds(freed, playerName, "player_name") /\ length(freed) \in Nat
    BY <2>2, ArenaFrees, HoldsAfterFree DEF Arenas, length
  <2> HIDE DEF freed
  <2>4. /\ persistent' \in Arenas
        /\ Holds(persistent', playerName, "player_name")
        /\ Holds(persistent', sharedSecret', "shared_secret")
    BY <1>2, <2>3, ArenaAllocates, HoldsAllocated, HoldsAfterAllocate DEF Labels
  <2>5. Saved(scratch')
    BY <1>1, <1>2, DecodedIsSaved, SavedAllocates DEF Memory, Labels
  <2>6. TypeInv'
    <3>1. sharedSecret' \in Nat /\ scratch' \in Arenas
      BY <1>2, <2>3, <2>5 DEF Saved
    <3>2. QED BY <1>1, <1>2, <2>4, <3>1 DEF Memory, TypeInv
  <2>7. NameInv' /\ PointersLive' /\ SaveInv'
    BY <1>2, <2>2, <2>4, <2>5 DEF NameInv, PointersLive, SaveInv
  <2>8. QED BY <2>6, <2>7 DEF Memory
<1>3. CASE Fail
  BY <1>1, <1>3, FailKeeps
<1>4. QED BY <1>2, <1>3 DEF pkt_handle_enc_res

LEMMA HandlingKeeps ==
  ASSUME Memory, NEW step, Handling(step)
  PROVE  /\ pc = step /\ open
         /\ UNCHANGED <<toServer, recvBuf, cStep, cEnc, cCmp, strays, garbled>>
         /\ recvBuf' \in Seq(ToServer)
  BY DEF Handling, clientVars, Memory, TypeInv

LEMMA AuthenticateMemory == Memory /\ encryption_authenticate_player => Memory'
<1> SUFFICES ASSUME Memory, encryption_authenticate_player
             PROVE  Memory'
  OBVIOUS
<1>1. /\ pc = "authenticate" /\ open
      /\ UNCHANGED <<toServer, recvBuf, cStep, cEnc, cCmp, strays, garbled>>
      /\ recvBuf' \in Seq(ToServer)
  BY HandlingKeeps DEF encryption_authenticate_player
<1>2. CASE /\ scratch' = arena_allocate(arena_allocate(scratch, "answer"), "json")
           /\ json' = length(scratch')
           /\ pc' = "enable_compression"
           /\ UNCHANGED <<open, connVars, cached, pointerVars, toClient>>
  <2>1. UNCHANGED <<state, encryption, compression, persistent, playerName, verifyToken,
                    sharedSecret, streams>>
    BY <1>2 DEF connVars, pointerVars
  <2>2. Saved(scratch')
    BY <1>1, <1>2, SavedAllocates DEF Memory, SaveInv, Labels
  <2>3. scratch' \in Arenas /\ json' \in Nat
    BY <1>2, <2>2 DEF Saved, Arenas, length
  <2>4. TypeInv'
    BY <1>1, <1>2, <2>1, <2>3 DEF Memory, TypeInv
  <2>5. NameInv' /\ PointersLive' /\ SaveInv'
    BY <1>2, <2>1, <2>2 DEF Memory, NameInv, PointersLive, SaveInv, Holds
  <2>6. QED BY <2>4, <2>5 DEF Memory
<1>3. CASE Fail
  BY <1>1, <1>3, FailKeeps
<1>4. QED BY <1>2, <1>3 DEF encryption_authenticate_player

LEMMA CompressionMemory == Memory /\ enable_compression => Memory'
<1> SUFFICES ASSUME Memory, enable_compression
             PROVE  Memory'
  OBVIOUS
<1>1. /\ pc = "enable_compression" /\ open
      /\ UNCHANGED <<toServer, recvBuf, cStep, cEnc, cCmp, strays, garbled>>
      /\ recvBuf' \in Seq(ToServer)
  BY HandlingKeeps DEF enable_compression
<1>2. /\ persistent' = arena_allocate(persistent, "streams") /\ streams' = length(persistent')
      /\ scratch' = AfterSend(PKT_LOGIN_COMPRESS, scratch) /\ compression' = TRUE /\ pc' = "login_success"
      /\ UNCHANGED <<open, state, encryption, cached, playerName, verifyToken, sharedSecret, json>>
  BY DEF enable_compression
<1>3. toClient' \in Seq(ToClient)
  BY SendsTyped DEF Memory, TypeInv, enable_compression, PKT_LOGIN_COMPRESS, AnnounceFormat
<1>4. Sound(scratch')
  BY <1>1, <1>2, SavedSends DEF Memory, SaveInv
<1>5. persistent \in Arenas /\ "streams" \in Labels
  BY DEF Memory, TypeInv, Labels
<1>6. /\ persistent' \in Arenas /\ streams' = length(persistent) + 1 /\ streams' \in Nat
      /\ Holds(persistent', streams', "streams")
  BY <1>2, <1>5, ArenaAllocates, HoldsAllocated
<1>7. TypeInv'
  <2>1. scratch' \in Arenas
    BY <1>4 DEF Sound, Saved, Restored
  <2>2. QED BY <1>1, <1>2, <1>3, <1>6, <2>1 DEF Memory, TypeInv
<1>8. NameInv'
  <2>1. ASSUME Holds(persistent, playerName, "player_name")
        PROVE  Holds(persistent', playerName, "player_name")
    BY <1>2, <1>5, <2>1, HoldsAfterAllocate
  <2>2. QED BY <1>2, <2>1 DEF Memory, NameInv
<1>9. PointersLive' /\ SaveInv'
  BY <1>2, <1>4, <1>6 DEF PointersLive, SaveInv
<1>10. QED BY <1>7, <1>8, <1>9 DEF Memory

LEMMA SuccessMemory == Memory /\ send_login_success => Memory'
<1> SUFFICES ASSUME Memory, send_login_success
             PROVE  Memory'
  OBVIOUS
<1>1. /\ pc = "login_success" /\ open
      /\ UNCHANGED <<toServer, recvBuf, cStep, cEnc, cCmp, strays, garbled>>
      /\ recvBuf' \in Seq(ToServer)
  BY HandlingKeeps DEF send_login_success
<1> DEFINE sent == AfterSend(PKT_LOGIN_SUCCESS, arena_allocate(scratch, "login_success"))
           freed == arena_free_ptr(sent, json)
<1>2. CASE /\ Sends(PKT_LOGIN_SUCCESS, compression)
           /\ Return(freed)
           /\ json' = NULL
           /\ UNCHANGED <<connVars, pointerVars>>
  <2>1. Restored(arena_restore(freed))
    BY <1>1, SoundSends, FreedRestores DEF Memory, SaveInv, TypeInv
  <2> HIDE DEF sent, freed
  <2>2. /\ scratch' = arena_restore(freed) /\ cached' = FALSE /\ pc' = "receive" /\ open' = open
        /\ UNCHANGED <<state, encryption, compression, persistent, playerName, verifyToken,
                       sharedSecret, streams>>
    BY <1>2 DEF Return, connVars, pointerVars
  <2>3. toClient' \in Seq(ToClient)
    BY <1>2, SendsTyped DEF Memory, TypeInv, PKT_LOGIN_SUCCESS
  <2>4. TypeInv'
    <3>1. scratch' \in Arenas /\ json' \in Nat
      BY <1>2, <2>1, <2>2 DEF Restored, NULL
    <3>2. QED BY <1>1, <2>2, <2>3, <3>1 DEF Memory, TypeInv
  <2>5. NameInv' /\ PointersLive' /\ SaveInv'
    BY <1>1, <2>1, <2>2 DEF Memory, NameInv, PointersLive, SaveInv, Holds
  <2>6. QED BY <2>4, <2>5 DEF Memory
<1>3. CASE Fail
  BY <1>1, <1>3, FailKeeps
<1>4. QED BY <1>2, <1>3 DEF send_login_success

LEMMA ClientMemory ==
  Memory /\ (ClientConnect \/ ClientRequest \/ ClientEncrypt \/ ClientStray \/ ClientReceive)
     => Memory'
<1> SUFFICES ASSUME Memory,
                    ClientConnect \/ ClientRequest \/ ClientEncrypt \/ ClientStray \/ ClientReceive
             PROVE  Memory'
  OBVIOUS
<1>1. /\ UNCHANGED <<pc, open, state, encryption, compression, scratch, cached, persistent,
                     playerName, verifyToken, sharedSecret, streams, json, recvBuf>>
      /\ toServer' \in Seq(ToServer) /\ toClient' \in Seq(ToClient)
      /\ cStep' \in Steps /\ cEnc' \in BOOLEAN /\ cCmp' \in BOOLEAN
      /\ strays' \in Nat /\ garbled' \in BOOLEAN
  <2>1. ASSUME NEW id \in Ids, NEW body \in Bodies, ClientSends(id, body)
        PROVE  /\ UNCHANGED <<pc, open, state, encryption, compression, scratch, cached, persistent,
                              playerName, verifyToken, sharedSecret, streams, json, recvBuf,
                              toClient, garbled>>
               /\ toServer' \in Seq(ToServer)
    <3>1. [id |-> id, body |-> body, enc |-> cEnc, cmp |-> cCmp] \in ToServer
      BY DEF Memory, TypeInv, ToServer
    <3>2. QED BY <2>1, <3>1, AppendProperties
          DEF Memory, TypeInv, ClientSends, connVars, pointerVars
  <2>2. CASE ClientConnect \/ ClientRequest
    <3>1. PICK id \in Ids, body \in Bodies : ClientSends(id, body)
      BY <2>2, ProtocolIds DEF ClientConnect, ClientRequest, Bodies
    <3>2. UNCHANGED <<cEnc, cCmp, strays>> /\ cStep' \in Steps
      BY <2>2 DEF ClientConnect, ClientRequest, ClientGoes, Steps
    <3>3. QED BY <2>1, <3>1, <3>2 DEF Memory, TypeInv
  <2>3. CASE ClientEncrypt
    <3>1. 1 \in Ids /\ "token" \in Bodies /\ ClientSends(1, "token")
      BY <2>3, ProtocolIds DEF ClientEncrypt, Bodies
    <3>2. UNCHANGED <<cCmp, strays>> /\ cStep' \in Steps /\ cEnc' = TRUE
      BY <2>3 DEF ClientEncrypt, ClientGoes, Steps
    <3>3. QED BY <2>1, <3>1, <3>2 DEF Memory, TypeInv
  <2>4. CASE ClientStray
    <3>1. PICK id \in Ids, body \in Bodies : ClientSends(id, body)
      BY <2>4, LoginAssumption DEF ClientStray, Ids
    <3>2. UNCHANGED <<cStep, cEnc, cCmp>> /\ strays' \in Nat
      BY <2>4 DEF ClientStray, Memory, TypeInv
    <3>3. QED BY <2>1, <3>1, <3>2 DEF Memory, TypeInv
  <2>5. CASE ClientReceive
    <3>1. /\ UNCHANGED <<pc, open, state, encryption, compression, scratch, cached, persistent,
                         playerName, verifyToken, sharedSecret, streams, json, recvBuf,
                         toServer, cEnc, strays>>
          /\ toClient # <<>> /\ toClient' = Tail(toClient)
      BY <2>5 DEF ClientReceive, connVars, pointerVars
    <3>2. toClient' \in Seq(ToClient)
      BY <3>1, HeadTailProperties DEF Memory, TypeInv
    <3>3. cStep' \in Steps
      <4>1. \A id : Answered(id) \in Steps
        BY DEF Answered, Steps, Memory, TypeInv
      <4>2. QED BY <2>5, <4>1 DEF ClientReceive, Steps
    <3>4. cCmp' \in BOOLEAN /\ garbled' \in BOOLEAN
      BY <2>5 DEF ClientReceive, Memory, TypeInv
    <3>5. QED BY <3>1, <3>2, <3>3, <3>4 DEF Memory, TypeInv
  <2>6. QED BY <2>2, <2>3, <2>4, <2>5
<1>2. TypeInv'
  BY <1>1 DEF Memory, TypeInv
<1>3. NameInv' /\ PointersLive' /\ SaveInv'
  BY <1>1 DEF Memory, NameInv, PointersLive, SaveInv, Sound, Saved, Restored, LeftOver, Holds, length
<1>4. QED BY <1>2, <1>3 DEF Memory

LEMMA NextMemory == Memory /\ [Next]_vars => Memory'
<1>1. ASSUME Memory, UNCHANGED vars
      PROVE  Memory'
  <2>1. UNCHANGED <<pc, open, state, encryption, compression, scratch, cached, persistent,
                    playerName, verifyToken, sharedSecret, streams, json, toServer, toClient,
                    recvBuf, cStep, cEnc, cCmp, strays, garbled>>
    BY <1>1 DEF vars, connVars, pointerVars, clientVars
  <2>2. TypeInv'
    BY <1>1, <2>1 DEF Memory, TypeInv
  <2>3. NameInv' /\ PointersLive' /\ SaveInv'
    BY <1>1, <2>1
    DEF Memory, NameInv, PointersLive, SaveInv, Sound, Saved, Restored, LeftOver, Holds, length
  <2>4. QED BY <2>2, <2>3 DEF Memory
<1>2. QED
  BY <1>1, FillMemory, AgainMemory, GarbledMemory, UnsupportedMemory, WildMemory,
     MismatchedMemory, DummyMemory, HandshakeMemory,
     StatusMemory, PingMemory, LoginStartMemory, EncResMemory, AuthenticateMemory,
     CompressionMemory, SuccessMemory, ClientMemory
  DEF Next, ServerStep

LEMMA MemoryAlways == Spec => []Memory
  BY InitMemory, NextMemory, PTL DEF Spec

(* PointersLive: whatever the client sends, and however often, nothing     *)
(* that enc_res frees is followed again.                                   *)
THEOREM NothingFreedIsUsed == Spec => []PointersLive
<1>1. Memory => PointersLive
  BY DEF Memory
<1>2. QED BY <1>1, MemoryAlways, PTL

(* ScratchReturned: between packets the scratch arena holds the packet     *)
(* cache and what logins have left.                                        *)
THEOREM ScratchIsReturned == Spec => []ScratchReturned
<1>1. Memory => ScratchReturned
  <2>1. SUFFICES ASSUME Memory, pc = "idle", NEW i \in DOMAIN scratch.blocks
                 PROVE  scratch.blocks[i] = "login_success" \/ (cached /\ i = length(scratch))
    BY DEF ScratchReturned
  <2>2. i \in 1 .. length(scratch) /\ length(scratch) \in Nat
    BY <2>1 DEF Memory, TypeInv, Arenas, length
  <2>3. CASE cached
    <3>1. scratch.saved = length(scratch) - 1 /\ LeftOver(scratch, scratch.saved)
      BY <2>1, <2>3 DEF Memory, SaveInv, Saved
    <3>2. CASE i = length(scratch)
      BY <2>3, <3>2
    <3>3. CASE i # length(scratch)
      <4>1. i \in 1 .. scratch.saved
        BY <2>2, <3>1, <3>3
      <4>2. QED BY <3>1, <4>1 DEF LeftOver
    <3>4. QED BY <3>2, <3>3
  <2>4. CASE ~cached
    BY <2>1, <2>2, <2>4 DEF Memory, SaveInv, Restored, LeftOver
  <2>5. QED BY <2>3, <2>4
<1>2. QED BY <1>1, MemoryAlways, PTL
-----------------------------------------------------------------------------
(* The packets on their way, as one sequence                               *)
LEMMA PipeSends ==
  ASSUME TypeInv, NEW p \in ToServer, toServer' = Append(toServer, p), recvBuf' = recvBuf
  PROVE  Pipe' = Append(Pipe, p)
<1>1. recvBuf \in Seq(ToServer) /\ toServer \in Seq(ToServer)
  BY DEF TypeInv
<1>2. recvBuf \o Append(toServer, p) = Append(recvBuf \o toServer, p)
  BY <1>1
<1>3. QED BY <1>2 DEF Pipe

LEMMA PipeIsEmpty ==
  ASSUME TypeInv
  PROVE  Pipe = <<>> <=> recvBuf = <<>> /\ toServer = <<>>
  BY ConcatSimplifications, ConcatEmptySeq DEF TypeInv, Pipe

LEMMA PipeAccepts ==
  ASSUME TypeInv, recvBuf # <<>>, recvBuf' = Tail(recvBuf), toServer' = toServer
  PROVE  Pipe # <<>> /\ Head(recvBuf) = Head(Pipe) /\ Pipe' = Tail(Pipe)
<1>1. recvBuf \in Seq(ToServer) /\ toServer \in Seq(ToServer)
  BY DEF TypeInv
<1>2. /\ recvBuf \o toServer # <<>>
      /\ Head(recvBuf) = Head(recvBuf \o toServer)
      /\ Tail(recvBuf) \o toServer = Tail(recvBuf \o toServer)
  BY <1>1
<1>3. QED BY <1>2 DEF Pipe

(* In the clear, what is read is what was sent.                            *)
LEMMA PipeFills ==
  ASSUME TypeInv, fill_buffer, ~encryption
  PROVE  Pipe' = Pipe
<1>1. toServer \in Seq(ToServer) /\ recvBuf = <<>> /\ toServer' = <<>>
  BY DEF TypeInv, fill_buffer
<1>2. ASSUME NEW i \in DOMAIN toServer
      PROVE  [toServer[i] EXCEPT !.enc = (@ # encryption)] = toServer[i]
  <2>1. toServer[i] \in ToServer
    BY <1>1
  <2>2. toServer[i].enc \in BOOLEAN
    BY <2>1 DEF ToServer
  <2>3. (toServer[i].enc # encryption) = toServer[i].enc
    BY <2>2 DEF TypeInv
  <2>4. QED BY <2>1, <2>3 DEF ToServer
<1>3. recvBuf' = toServer
  BY <1>1, <1>2 DEF fill_buffer
<1>4. recvBuf \o toServer = toServer /\ toServer \o <<>> = toServer
  BY <1>1, ConcatEmptySeq
<1>5. QED BY <1>1, <1>3, <1>4 DEF Pipe

LEMMA ShortSequences ==
  ASSUME NEW a, NEW b
  PROVE  /\ <<a>> # <<>> /\ <<a, b>> # <<>> /\ Head(<<a>>) = a /\ Head(<<a, b>>) = a
         /\ Tail(<<a>>) = <<>> /\ Tail(<<a, b>>) = <<b>>
         /\ Append(<<>>, a) = <<a>> /\ Append(<<a>>, b) = <<a, b>>
<1> DEFINE S == {a, b}
<1>1. <<a>> \in Seq(S) /\ <<a, b>> \in Seq(S) /\ <<b>> \in Seq(S) /\ <<>> \in Seq(S)
  OBVIOUS
<1>2. <<a>> # <<>> /\ <<a, b>> # <<>>
  OBVIOUS
<1>3. Head(<<a>>) = a /\ Head(<<a, b>>) = a
  OBVIOUS
<1>4. Tail(<<a>>) = <<>>
  BY <1>1
<1>5. Tail(<<a, b>>) = <<b>>
  BY <1>1
<1>6. Append(<<>>, a) = <<a>>
  BY <1>1
<1>7. Append(<<a>>, b) = <<a, b>>
  <2>1. /\ Append(<<a>>, b) \in Seq(S) /\ Len(Append(<<a>>, b)) = 2
        /\ Append(<<a>>, b)[1] = a /\ Append(<<a>>, b)[2] = b
    BY <1>1, AppendProperties
  <2>2. Len(<<a, b>>) = 2 /\ <<a, b>>[1] = a /\ <<a, b>>[2] = b
    OBVIOUS
  <2>3. \A i \in 1 .. 2 : Append(<<a>>, b)[i] = <<a, b>>[i]
    BY <2>1, <2>2
  <2>4. QED BY <1>1, <2>1, <2>2, <2>3, SeqEqual
<1>8. QED BY <1>2, <1>3, <1>4, <1>5, <1>6, <1>7

(* Which handler each packet of the protocol gets                          *)
LEMMA HandlerOf ==
  /\ state = "HANDSHAKE" => \A body : Handler(Packet(0, body)) = "handshake"
  /\ state = "STATUS" => \A body :
        Handler(Packet(0, body)) = "status" /\ Handler(Packet(1, body)) = "ping"
  /\ state = "LOGIN" => \A body : /\ Handler(Packet(0, body)) = "log_start"
                                  /\ Handler(Packet(1, body)) = "enc_res"
  /\ state = "LOGIN" => \A enc : Handler(Ack(enc)) = "dummy"
<1>1. \A body : Packet(0, body).id = 0 /\ Packet(1, body).id = 1
  BY DEF Packet
<1>2. \A enc : Ack(enc).id = 3
  BY DEF Ack
<1>3. /\ DOMAIN function_table = 0 .. 29
      /\ function_table[0] = "handshake"
      /\ function_table[6] = "status" /\ function_table[7] = "ping"
      /\ function_table[12] = "log_start" /\ function_table[13] = "enc_res"
      /\ function_table[15] = "dummy"
  BY DEF function_table
<1>4. CASE state = "HANDSHAKE"
  <2>1. Entry(0) = 0
    BY <1>4 DEF Entry
  <2>2. QED BY <1>1, <1>3, <1>4, <2>1 DEF Handler
<1>5. CASE state = "STATUS"
  <2>1. Entry(0) = 6 /\ Entry(1) = 7
    BY <1>5 DEF Entry
  <2>2. QED BY <1>1, <1>3, <1>5, <2>1 DEF Handler
<1>6. CASE state = "LOGIN"
  <2>1. Entry(0) = 12 /\ Entry(1) = 13 /\ Entry(3) = 15
    BY <1>6 DEF Entry
  <2>2. QED BY <1>1, <1>2, <1>3, <1>6, <2>1 DEF Handler
<1>7. QED BY <1>4, <1>5, <1>6

(* Which reply each packet of the server is                                *)
LEMMA ReplyOf ==
  /\ state = "STATUS" => /\ Encodable(PKT_STATUS)
                         /\ Encoders[state][PKT_STATUS + 1] = "STATUS_RESPONSE"
                         /\ Encodable(PKT_STATUS_PING)
                         /\ Encoders[state][PKT_STATUS_PING + 1] = "PONG"
  /\ state = "LOGIN" => /\ Encodable(PKT_LOGIN_CRYPT_REQUEST)
                        /\ Encoders[state][PKT_LOGIN_CRYPT_REQUEST + 1] = "CRYPT_REQUEST"
                        /\ Encodable(PKT_LOGIN_SUCCESS)
                        /\ Encoders[state][PKT_LOGIN_SUCCESS + 1] = "LOGIN_SUCCESS"
                        /\ Encodable(PKT_LOGIN_COMPRESS)
                        /\ Encoders[state][PKT_LOGIN_COMPRESS + 1] = "COMPRESS"
<1>1. CASE state = "STATUS"
  <2>1. Encoders[state] = <<"STATUS_RESPONSE", "PONG">>
    BY <1>1 DEF Encoders
  <2>2. QED BY <1>1, <2>1 DEF Encodable, PKT_STATUS, PKT_STATUS_PING
<1>2. CASE state = "LOGIN"
  <2>1. Encoders[state] = <<"EMPTY", "CRYPT_REQUEST", "LOGIN_SUCCESS", "COMPRESS">>
    BY <1>2 DEF Encoders
  <2>2. QED BY <1>2, <2>1
        DEF Encodable, PKT_LOGIN_CRYPT_REQUEST, PKT_LOGIN_SUCCESS, PKT_LOGIN_COMPRESS
<1>3. QED BY <1>1, <1>2

Quiet == strays = 0 /\ open

(* The packet that a client within the protocol has the server read next,  *)
(* and what is still on its way behind it                                  *)
NextClear ==
    \/ /\ state = "HANDSHAKE" /\ Head(recvBuf) = Packet(0, "STATUS")
       /\ \/ cStep = "status" /\ Tail(Pipe) = <<>>
          \/ cStep = "await_status" /\ Tail(Pipe) = <<Packet(0, "other")>>
    \/ /\ state = "HANDSHAKE" /\ Head(recvBuf) = Packet(0, "LOGIN")
       /\ \/ cStep = "login" /\ Tail(Pipe) = <<>>
          \/ cStep = "await_crypt" /\ Tail(Pipe) = <<Packet(0, "other")>>
    \/ /\ state = "STATUS" /\ Tail(Pipe) = <<>>
       /\ \/ Head(recvBuf) = Packet(0, "other") /\ cStep = "await_status"
          \/ Head(recvBuf) = Packet(1, "other") /\ cStep = "await_pong"
    \/ /\ state = "LOGIN" /\ Tail(Pipe) = <<>>
       /\ Head(recvBuf) = Packet(0, "other") /\ cStep = "await_crypt"

LEMMA NextPacket ==
  ASSUME TypeInv, FormatInv, Quiet, pc = "receive", recvBuf # <<>>
  PROVE  \/ /\ ~encryption /\ ~compression /\ ~cEnc /\ ~cCmp /\ toClient = <<>>
            /\ NextClear
         \/ /\ ~encryption /\ ~compression /\ cEnc /\ ~cCmp /\ toClient = <<>>
            /\ cStep = "await_success" /\ state = "LOGIN"
            /\ Head(recvBuf) = Packet(1, "token") /\ Tail(Pipe) = <<>>
         \/ /\ encryption /\ compression /\ cEnc /\ cCmp /\ toClient = <<>>
            /\ cStep = "done" /\ state = "LOGIN"
            /\ Head(recvBuf) = Ack(FALSE) /\ Tail(recvBuf) = <<>> /\ toServer = <<>>
<1>1. Pipe # <<>> /\ Head(recvBuf) = Head(Pipe)
  BY ConcatProperties DEF TypeInv, Pipe
<1>2. CASE ClearPhase
  <2>1. \A step, s, replies : ~Exchange(step, s, <<>>, replies)
    BY <1>1 DEF Exchange
  <2>2. \/ Exchange("status", "HANDSHAKE", <<Packet(0, "STATUS")>>, <<>>)
        \/ Exchange("await_status", "HANDSHAKE", <<Packet(0, "STATUS"), Packet(0, "other")>>, <<>>)
        \/ Exchange("await_status", "STATUS", <<Packet(0, "other")>>, <<>>)
        \/ Exchange("await_pong", "STATUS", <<Packet(1, "other")>>, <<>>)
        \/ Exchange("login", "HANDSHAKE", <<Packet(0, "LOGIN")>>, <<>>)
        \/ Exchange("await_crypt", "HANDSHAKE", <<Packet(0, "LOGIN"), Packet(0, "other")>>, <<>>)
        \/ Exchange("await_crypt", "LOGIN", <<Packet(0, "other")>>, <<>>)
    BY <1>2, <2>1 DEF ClearPhase
  <2>3. /\ ~encryption /\ ~compression /\ ~cEnc /\ ~cCmp
    BY <1>2 DEF ClearPhase
  <2>4. \A a, b : /\ Head(<<a>>) = a /\ Tail(<<a>>) = <<>>
                  /\ Head(<<a, b>>) = a /\ Tail(<<a, b>>) = <<b>>
    BY ShortSequences
  <2>5. toClient = <<>> /\ NextClear
    BY <1>1, <2>2, <2>4, ZenonT(60) DEF Exchange, NextClear
  <2>6. QED BY <2>3, <2>5
<1>3. CASE TokenPhase
  BY <1>1, <1>3, ShortSequences DEF TokenPhase, Exchange
<1>4. CASE CompressPhase
  BY <1>1, <1>4 DEF CompressPhase, Exchange
<1>5. CASE FinalPhase
  BY <1>5, ShortSequences DEF FinalPhase
<1>6. QED BY <1>2, <1>3, <1>4, <1>5 DEF FormatInv, Quiet

(* A closed connection says no more, and what it said reads as it did.     *)
LEMMA ClosedFormat ==
  ASSUME FormatInv, open' = FALSE, garbled' = garbled, strays' = strays,
         UNCHANGED <<toClient, cEnc, cCmp>>
  PROVE  FormatInv'
<1>1. RepliesInv => RepliesInv'
  BY DEF RepliesInv, Reply
<1>2. QED BY <1>1 DEF FormatInv

LEMMA FailFormat ==
  ASSUME Memory, FormatInv, Fail \/ Dies, NEW h, Receive(h) \/ Handling(h)
  PROVE  FormatInv'
  BY ClosedFormat DEF Fail, Dies, Receive, Handling, clientVars

(* What every handler finds, in a run without strays                       *)
LEMMA AcceptPipe ==
  ASSUME Memory, FormatInv, strays' = 0, NEW h, Accept(h)
  PROVE  /\ Quiet /\ pc = "receive" /\ recvBuf # <<>> /\ recvBuf' = Tail(recvBuf)
         /\ Handler(Head(recvBuf)) = h /\ Pipe' = Tail(Pipe) /\ ~garbled
         /\ UNCHANGED <<toServer, cStep, cEnc, cCmp, strays, garbled>>
<1>1. /\ pc = "receive" /\ open /\ recvBuf # <<>> /\ Handler(Head(recvBuf)) = h
      /\ UNCHANGED <<toServer, cStep, cEnc, cCmp, strays, garbled>>
  BY AcceptKeeps DEF Memory
<1>2. recvBuf' = Tail(recvBuf)
  BY DEF Accept, Receive
<1>3. Pipe' = Tail(Pipe)
  BY <1>1, <1>2, PipeAccepts DEF Memory
<1>4. Quiet /\ ~garbled
  BY <1>1 DEF Quiet, FormatInv
<1>5. QED BY <1>1, <1>2, <1>3, <1>4

(* What a reply in the clear leaves to the client                          *)
LEMMA SendsFirst ==
  ASSUME NEW id, NEW cmp, Sends(id, cmp), Encodable(id), toClient = <<>>
  PROVE  toClient' = <<Reply(Encoders[state][id + 1], encryption, cmp)>>
  BY ShortSequences DEF Sends, Reply

LEMMA ClearFormat ==
  ASSUME Memory, ClearPhase', ~garbled', UNCHANGED <<cEnc, cCmp>>,
         toClient' = <<>> \/ \E id \in Replies : toClient' = <<Reply(id, FALSE, FALSE)>>
  PROVE  FormatInv'
<1>1. cEnc' = FALSE /\ cCmp' = FALSE
  BY DEF ClearPhase, Memory, TypeInv
<1>2. RepliesInv'
  BY <1>1 DEF RepliesInv
<1>3. QED BY <1>2 DEF FormatInv
-----------------------------------------------------------------------------
LEMMA InitFormat == Init => FormatInv
<1> SUFFICES ASSUME Init PROVE FormatInv
  OBVIOUS
<1>1. Pipe = <<>>
  BY DEF Init, Pipe
<1>2. ClearPhase
  BY <1>1 DEF Init, ClearPhase, Exchange
<1>3. QED BY <1>2 DEF Init, FormatInv, RepliesInv

LEMMA GarbledFormat == Memory /\ FormatInv /\ receive_garbled => FormatInv'
<1> SUFFICES ASSUME Memory, FormatInv, receive_garbled, strays' = 0
             PROVE  FALSE
  BY DEF FormatInv
<1>1. Quiet /\ pc = "receive" /\ recvBuf # <<>> /\ ~Readable(Head(recvBuf))
  BY DEF receive_garbled, Quiet, clientVars
<1>2. \/ ~compression /\ \E id, body : Head(recvBuf) = Packet(id, body)
      \/ compression /\ Head(recvBuf) = Ack(FALSE)
  BY <1>1, NextPacket DEF Memory, NextClear
<1>3. compression \in BOOLEAN
  BY DEF Memory, TypeInv
<1>4. Readable(Head(recvBuf))
  <2>1. \A id, body : Packet(id, body).enc = FALSE /\ Packet(id, body).cmp = FALSE
    BY DEF Packet
  <2>2. Ack(FALSE).enc = FALSE /\ Ack(FALSE).cmp = TRUE
    BY DEF Ack
  <2>3. Head(recvBuf).enc = FALSE /\ Head(recvBuf).cmp = compression
    BY <1>2, <1>3, <2>1, <2>2
  <2>4. QED BY <2>3 DEF Readable
<1>5. QED BY <1>1, <1>4

LEMMA UnsupportedFormat == Memory /\ FormatInv /\ receive_unsupported => FormatInv'
  BY FailFormat DEF receive_unsupported

LEMMA WildFormat == Memory /\ FormatInv /\ receive_wild => FormatInv'
  BY FailFormat DEF receive_wild

LEMMA MismatchedFormat == Memory /\ FormatInv /\ receive_mismatched => FormatInv'
  BY FailFormat DEF receive_mismatched

LEMMA StatusFormat == Memory /\ FormatInv /\ pkt_handle_status => FormatInv'
<1> SUFFICES ASSUME Memory, FormatInv, pkt_handle_status, strays' = 0
             PROVE  FormatInv'
  BY DEF FormatInv
<1>1. /\ Accept("status") /\ Sends(PKT_STATUS, compression) /\ pc' = "receive"
      /\ UNCHANGED <<state, encryption, compression>>
  BY DEF pkt_handle_status, Return, connVars
<1>2. /\ Quiet /\ pc = "receive" /\ recvBuf # <<>> /\ Handler(Head(recvBuf)) = "status"
      /\ Pipe' = Tail(Pipe) /\ ~garbled /\ UNCHANGED <<cStep, cEnc, cCmp, garbled>>
  BY <1>1, AcceptPipe
<1>3. /\ ~encryption /\ ~compression /\ ~cEnc /\ ~cCmp /\ toClient = <<>>
      /\ state = "STATUS" /\ cStep = "await_status" /\ Tail(Pipe) = <<>>
  BY <1>2, NextPacket, HandlerOf DEF Memory, NextClear
<1>4. toClient' = <<Reply("STATUS_RESPONSE", FALSE, FALSE)>>
  BY <1>1, <1>3, SendsFirst, ReplyOf DEF Memory, TypeInv
<1>5. ClearPhase'
  BY <1>1, <1>2, <1>3, <1>4 DEF ClearPhase, Exchange
<1>6. QED BY <1>2, <1>4, <1>5, ClearFormat DEF Replies

LEMMA PingFormat == Memory /\ FormatInv /\ pkt_handle_ping => FormatInv'
<1> SUFFICES ASSUME Memory, FormatInv, pkt_handle_ping, strays' = 0
             PROVE  FormatInv'
  BY DEF FormatInv
<1>1. Accept("ping")
  BY DEF pkt_handle_ping
<1>2. /\ Quiet /\ pc = "receive" /\ recvBuf # <<>> /\ Handler(Head(recvBuf)) = "ping"
      /\ Pipe' = Tail(Pipe) /\ ~garbled /\ UNCHANGED <<cStep, cEnc, cCmp, garbled>>
  BY <1>1, AcceptPipe
<1>3. CASE Dies
  BY <1>1, <1>3, FailFormat DEF Accept
<1>4. CASE /\ Sends(PKT_STATUS_PING, compression) /\ pc' = "receive"
           /\ UNCHANGED <<state, encryption, compression>>
  <2>1. /\ ~encryption /\ ~compression /\ ~cEnc /\ ~cCmp /\ toClient = <<>>
        /\ state = "STATUS" /\ cStep = "await_pong" /\ Tail(Pipe) = <<>>
    BY <1>2, NextPacket, HandlerOf DEF Memory, NextClear
  <2>2. toClient' = <<Reply("PONG", FALSE, FALSE)>>
    BY <1>4, <2>1, SendsFirst, ReplyOf DEF Memory, TypeInv
  <2>3. ClearPhase'
    BY <1>2, <1>4, <2>1, <2>2 DEF ClearPhase, Exchange
  <2>4. QED BY <1>2, <2>2, <2>3, ClearFormat DEF Replies
<1>5. QED BY <1>3, <1>4 DEF pkt_handle_ping, Return, connVars

LEMMA LoginStartFormat == Memory /\ FormatInv /\ pkt_handle_log_start => FormatInv'
<1> SUFFICES ASSUME Memory, FormatInv, pkt_handle_log_start, strays' = 0
             PROVE  FormatInv'
  BY DEF FormatInv
<1>1. /\ Accept("log_start") /\ Sends(PKT_LOGIN_CRYPT_REQUEST, compression) /\ pc' = "receive"
      /\ UNCHANGED <<state, encryption, compression>>
  BY DEF pkt_handle_log_start, Return, connVars
<1>2. /\ Quiet /\ pc = "receive" /\ recvBuf # <<>> /\ Handler(Head(recvBuf)) = "log_start"
      /\ Pipe' = Tail(Pipe) /\ ~garbled /\ UNCHANGED <<cStep, cEnc, cCmp, garbled>>
  BY <1>1, AcceptPipe
<1>3. /\ ~encryption /\ ~compression /\ ~cEnc /\ ~cCmp /\ toClient = <<>>
      /\ state = "LOGIN" /\ cStep = "await_crypt" /\ Tail(Pipe) = <<>>
  BY <1>2, NextPacket, HandlerOf DEF Memory, NextClear
<1>4. toClient' = <<Reply("CRYPT_REQUEST", FALSE, FALSE)>>
  BY <1>1, <1>3, SendsFirst, ReplyOf DEF Memory, TypeInv
<1>5. ClearPhase'
  BY <1>1, <1>2, <1>3, <1>4 DEF ClearPhase, Exchange
<1>6. QED BY <1>2, <1>4, <1>5, ClearFormat DEF Replies

LEMMA HandshakeFormat == Memory /\ FormatInv /\ pkt_handle_handshake => FormatInv'
<1> SUFFICES ASSUME Memory, FormatInv, pkt_handle_handshake, strays' = 0
             PROVE  FormatInv'
  BY DEF FormatInv
<1>1. Accept("handshake")
  BY DEF pkt_handle_handshake
<1>2. /\ Quiet /\ pc = "receive" /\ recvBuf # <<>> /\ Handler(Head(recvBuf)) = "handshake"
      /\ Pipe' = Tail(Pipe) /\ ~garbled /\ UNCHANGED <<cStep, cEnc, cCmp, garbled>>
  BY <1>1, AcceptPipe
<1>3. CASE Fail
  BY <1>1, <1>3, FailFormat DEF Accept
<1>4. CASE /\ state' = Head(recvBuf).body /\ pc' = "receive"
           /\ UNCHANGED <<encryption, compression, toClient>>
  <2>1. /\ ~encryption /\ ~compression /\ ~cEnc /\ ~cCmp /\ toClient = <<>>
        /\ \/ /\ Head(recvBuf) = Packet(0, "STATUS")
              /\ \/ cStep = "status" /\ Tail(Pipe) = <<>>
                 \/ cStep = "await_status" /\ Tail(Pipe) = <<Packet(0, "other")>>
           \/ /\ Head(recvBuf) = Packet(0, "LOGIN")
              /\ \/ cStep = "login" /\ Tail(Pipe) = <<>>
                 \/ cStep = "await_crypt" /\ Tail(Pipe) = <<Packet(0, "other")>>
    BY <1>2, NextPacket, HandlerOf DEF Memory, NextClear
  <2>2. Packet(0, "STATUS").body = "STATUS" /\ Packet(0, "LOGIN").body = "LOGIN"
    BY DEF Packet
  <2>3. ClearPhase'
    BY <1>2, <1>4, <2>1, <2>2 DEF ClearPhase, Exchange
  <2>4. QED BY <1>2, <1>4, <2>1, <2>3, ClearFormat
<1>5. QED BY <1>3, <1>4 DEF pkt_handle_handshake, Return

(* The token that is checked is the last packet in the clear.              *)
LEMMA EncResFormat == Memory /\ FormatInv /\ pkt_handle_enc_res => FormatInv'
<1> SUFFICES ASSUME Memory, FormatInv, pkt_handle_enc_res, strays' = 0
             PROVE  FormatInv'
  BY DEF FormatInv
<1>1. Accept("enc_res")
  BY DEF pkt_handle_enc_res
<1>2. /\ Quiet /\ pc = "receive" /\ recvBuf # <<>> /\ Handler(Head(recvBuf)) = "enc_res"
      /\ Pipe' = Tail(Pipe) /\ ~garbled /\ UNCHANGED <<cStep, cEnc, cCmp, garbled>>
  BY <1>1, AcceptPipe
<1>3. CASE Fail
  BY <1>1, <1>3, FailFormat DEF Accept
<1>4. CASE /\ encryption' = TRUE /\ pc' = "authenticate"
           /\ UNCHANGED <<state, compression, toClient>>
  <2>1. /\ ~compression /\ cEnc /\ ~cCmp /\ toClient = <<>>
        /\ state = "LOGIN" /\ cStep = "await_success" /\ Tail(Pipe) = <<>>
    BY <1>2, NextPacket, HandlerOf DEF Memory, NextClear
  <2>2. TokenPhase'
    BY <1>2, <1>4, <2>1 DEF TokenPhase, Exchange
  <2>3. QED BY <1>2, <1>4, <2>1, <2>2 DEF FormatInv, RepliesInv
<1>5. QED BY <1>3, <1>4 DEF pkt_handle_enc_res

LEMMA DummyFormat == Memory /\ FormatInv /\ pkt_handle_dummy => FormatInv'
<1> SUFFICES ASSUME Memory, FormatInv, pkt_handle_dummy, strays' = 0
             PROVE  FormatInv'
  BY DEF FormatInv
<1>1. /\ Accept("dummy") /\ pc' = "receive"
      /\ UNCHANGED <<state, encryption, compression, toClient>>
  BY DEF pkt_handle_dummy, Return, connVars
<1>2. /\ Quiet /\ pc = "receive" /\ recvBuf # <<>> /\ Handler(Head(recvBuf)) = "dummy"
      /\ recvBuf' = Tail(recvBuf) /\ ~garbled
      /\ UNCHANGED <<toServer, cStep, cEnc, cCmp, garbled>>
  BY <1>1, AcceptPipe
<1>3. /\ encryption /\ compression /\ cEnc /\ cCmp /\ toClient = <<>>
      /\ cStep = "done" /\ state = "LOGIN" /\ Tail(recvBuf) = <<>> /\ toServer = <<>>
  BY <1>2, NextPacket, HandlerOf DEF Memory, NextClear
<1>4. FinalPhase'
  BY <1>1, <1>2, <1>3 DEF FinalPhase
<1>5. QED BY <1>1, <1>2, <1>3, <1>4 DEF FormatInv, RepliesInv
-----------------------------------------------------------------------------
LEMMA AgainFormat == Memory /\ FormatInv /\ receive_again => FormatInv'
<1> SUFFICES ASSUME Memory, FormatInv, receive_again, strays' = 0
             PROVE  FormatInv'
  BY DEF FormatInv
<1>1. /\ pc = "receive" /\ pc' = "idle" /\ recvBuf = <<>>
      /\ UNCHANGED <<open, state, encryption, compression, cStep, cEnc, cCmp, strays, garbled,
                     toServer, toClient, recvBuf>>
  BY DEF receive_again, connVars, clientVars
<1>2. Pipe' = Pipe
  BY <1>1 DEF Pipe
<1>3. RepliesInv' /\ ~garbled' /\ (open' => open)
  BY <1>1 DEF FormatInv, RepliesInv
<1>4. /\ ClearPhase => ClearPhase'
      /\ TokenPhase => TokenPhase'
      /\ CompressPhase => CompressPhase'
      /\ FinalPhase => FinalPhase'
  BY <1>1, <1>2, Zenon DEF ClearPhase, TokenPhase, CompressPhase, FinalPhase, Exchange
<1>5. QED BY <1>1, <1>3, <1>4 DEF FormatInv

LEMMA AckDeciphers == [Ack(TRUE) EXCEPT !.enc = FALSE] = Ack(FALSE)
<1> DEFINE S == [id : {3}, body : {"other"}, enc : BOOLEAN, cmp : BOOLEAN]
           a == [Ack(TRUE) EXCEPT !.enc = FALSE]
<1>1. Ack(TRUE) \in S /\ Ack(FALSE) \in S
  BY DEF Ack
<1>2. a \in S
  BY <1>1
<1>3. a.id = Ack(FALSE).id /\ a.body = Ack(FALSE).body
  BY DEF Ack
<1>4. a.cmp = TRUE /\ Ack(FALSE).cmp = TRUE
  BY DEF Ack
<1>5. a.enc = FALSE
  BY <1>1
<1>6. Ack(FALSE).enc = FALSE
  BY DEF Ack
<1>7. \A r, t \in S : r.id = t.id /\ r.body = t.body /\ r.enc = t.enc /\ r.cmp = t.cmp => r = t
  OBVIOUS
<1>8. QED BY <1>1, <1>2, <1>3, <1>4, <1>5, <1>6, <1>7

LEMMA OneElement ==
  ASSUME NEW a
  PROVE  [i \in 1 .. 1 |-> a] = <<a>>
<1> DEFINE f == [i \in 1 .. 1 |-> a]
<1>1. f \in Seq({a}) /\ <<a>> \in Seq({a}) /\ Len(f) = 1 /\ Len(<<a>>) = 1
  OBVIOUS
<1>2. f[1] = a /\ <<a>>[1] = a
  OBVIOUS
<1>3. \A i \in 1 .. 1 : f[i] = <<a>>[i]
  <2>1. \A i \in 1 .. 1 : i = 1
    OBVIOUS
  <2>2. QED BY <1>2, <2>1
<1>4. QED BY <1>1, <1>3, SeqEqual

(* The packet in the new format is deciphered: the switch is behind it.    *)
LEMMA FillFormat == Memory /\ FormatInv /\ fill_buffer => FormatInv'
<1> SUFFICES ASSUME Memory, FormatInv, fill_buffer, strays' = 0
             PROVE  FormatInv'
  BY DEF FormatInv
<1>1. /\ pc = "idle" /\ pc' = "receive" /\ toServer # <<>> /\ toServer' = <<>> /\ open
      /\ UNCHANGED <<open, state, encryption, compression, cStep, cEnc, cCmp, strays, garbled,
                     toClient>>
  BY DEF fill_buffer, connVars, clientVars
<1>2. RepliesInv' /\ ~garbled'
  BY <1>1 DEF FormatInv, RepliesInv
<1>3. CASE ~encryption
  <2>1. Pipe' = Pipe
    BY <1>3, PipeFills DEF Memory
  <2>2. ClearPhase => ClearPhase'
    BY <1>1, <2>1, Zenon DEF ClearPhase, Exchange
  <2>3. TokenPhase => TokenPhase'
    BY <1>1, <1>3, <2>1, Zenon DEF TokenPhase, Exchange
  <2>4. QED BY <1>1, <1>2, <1>3, <2>2, <2>3 DEF FormatInv, CompressPhase, FinalPhase
<1>4. CASE encryption
  <2>1. Pipe # <<>>
    BY <1>1, PipeIsEmpty DEF Memory
  <2>2. FinalPhase
    BY <1>1, <1>4, <2>1 DEF FormatInv, ClearPhase, TokenPhase, CompressPhase, Exchange
  <2>3. toServer = <<Ack(TRUE)>> /\ cStep = "done"
    BY <1>1, <2>2 DEF FinalPhase
  <2>4. recvBuf' = <<Ack(FALSE)>>
    <3>1. encryption = TRUE
      BY <1>4 DEF Memory, TypeInv
    <3>2. (TRUE # encryption) = FALSE
      BY <3>1
    <3>3. Ack(TRUE).enc = TRUE /\ [Ack(TRUE) EXCEPT !.enc = FALSE] = Ack(FALSE)
      <4>1. Ack(TRUE).enc = TRUE
        BY DEF Ack
      <4>2. [Ack(TRUE) EXCEPT !.enc = FALSE] = Ack(FALSE)
        BY AckDeciphers
      <4>3. QED BY <4>1, <4>2
    <3>4. [Ack(TRUE) EXCEPT !.enc = (@ # encryption)] = Ack(FALSE)
      BY <3>2, <3>3, Zenon
    <3>5. recvBuf' = [i \in DOMAIN <<Ack(TRUE)>> |->
                         [<<Ack(TRUE)>>[i] EXCEPT !.enc = (@ # encryption)]]
      BY <2>3, Zenon DEF fill_buffer
    <3>6. DOMAIN <<Ack(TRUE)>> = 1 .. 1 /\ <<Ack(TRUE)>>[1] = Ack(TRUE)
      OBVIOUS
    <3>7. \A i \in 1 .. 1 : [<<Ack(TRUE)>>[i] EXCEPT !.enc = (@ # encryption)] = Ack(FALSE)
      <4>1. \A i \in 1 .. 1 : i = 1
        OBVIOUS
      <4>2. QED BY <3>4, <3>6, <4>1, Zenon
    <3>8. recvBuf' = [i \in 1 .. 1 |-> Ack(FALSE)]
      BY <3>5, <3>6, <3>7, Zenon
    <3>9. [i \in 1 .. 1 |-> Ack(FALSE)] = <<Ack(FALSE)>>
      BY OneElement
    <3>10. QED BY <3>8, <3>9
  <2>5. FinalPhase'
    BY <1>1, <2>2, <2>3, <2>4 DEF FinalPhase
  <2>6. QED BY <1>2, <2>5 DEF FormatInv
<1>5. QED BY <1>3, <1>4

(* The three parts of a login that enc_res goes through                    *)
LEMMA HandlingPipe ==
  ASSUME FormatInv, strays' = 0, NEW step, Handling(step)
  PROVE  /\ Quiet /\ pc = step /\ Pipe' = Pipe /\ ~garbled
         /\ UNCHANGED <<cStep, cEnc, cCmp, strays, garbled>>
  BY DEF Handling, Quiet, Pipe, FormatInv, clientVars

LEMMA AuthenticateFormat == Memory /\ FormatInv /\ encryption_authenticate_player => FormatInv'
<1> SUFFICES ASSUME Memory, FormatInv, encryption_authenticate_player, strays' = 0
             PROVE  FormatInv'
  BY DEF FormatInv
<1>1. Handling("authenticate")
  BY DEF encryption_authenticate_player
<1>2. /\ Quiet /\ pc = "authenticate" /\ Pipe' = Pipe /\ ~garbled
      /\ UNCHANGED <<cStep, cEnc, cCmp, strays, garbled>>
  BY <1>1, HandlingPipe
<1>3. CASE Fail
  BY <1>1, <1>3, FailFormat DEF Accept
<1>4. CASE pc' = "enable_compression" /\ UNCHANGED <<state, encryption, compression, toClient>>
  <2>1. TokenPhase
    BY <1>2 DEF FormatInv, Quiet, ClearPhase, CompressPhase, FinalPhase
  <2>2. TokenPhase' /\ toClient' = <<>>
    BY <1>2, <1>4, <2>1 DEF TokenPhase, Exchange
  <2>3. QED BY <1>2, <2>2 DEF FormatInv, RepliesInv
<1>5. QED BY <1>3, <1>4 DEF encryption_authenticate_player, connVars

LEMMA CompressionFormat == Memory /\ FormatInv /\ enable_compression => FormatInv'
<1> SUFFICES ASSUME Memory, FormatInv, enable_compression, strays' = 0
             PROVE  FormatInv'
  BY DEF FormatInv
<1>1. /\ Handling("enable_compression") /\ Sends(PKT_LOGIN_COMPRESS, compression)
      /\ compression' = TRUE /\ pc' = "login_success" /\ UNCHANGED <<state, encryption>>
  BY DEF enable_compression, AnnounceFormat
<1>2. /\ Quiet /\ pc = "enable_compression" /\ Pipe' = Pipe /\ ~garbled
      /\ UNCHANGED <<cStep, cEnc, cCmp, strays, garbled>>
  BY <1>1, HandlingPipe
<1>3. TokenPhase
  BY <1>2 DEF FormatInv, Quiet, ClearPhase, CompressPhase, FinalPhase
<1>4. /\ encryption /\ ~compression /\ cEnc /\ ~cCmp
      /\ Exchange("await_success", "LOGIN", <<>>, <<>>)
  BY <1>2, <1>3 DEF TokenPhase
<1>5. encryption = TRUE /\ compression = FALSE /\ cEnc' = TRUE /\ cCmp' = FALSE
  BY <1>2, <1>4 DEF Memory, TypeInv
<1>6. toClient' = <<Reply("COMPRESS", TRUE, FALSE)>>
  BY <1>1, <1>4, <1>5, SendsFirst, ReplyOf DEF Exchange
<1>7. CompressPhase'
  BY <1>1, <1>2, <1>4, <1>5, <1>6 DEF CompressPhase, Exchange
<1>8. RepliesInv'
  BY <1>5, <1>6 DEF RepliesInv, Replies
<1>9. QED BY <1>2, <1>7, <1>8 DEF FormatInv

LEMMA SuccessFormat == Memory /\ FormatInv /\ send_login_success => FormatInv'
<1> SUFFICES ASSUME Memory, FormatInv, send_login_success, strays' = 0
             PROVE  FormatInv'
  BY DEF FormatInv
<1>1. Handling("login_success")
  BY DEF send_login_success
<1>2. /\ Quiet /\ pc = "login_success" /\ Pipe' = Pipe /\ ~garbled
      /\ UNCHANGED <<cStep, cEnc, cCmp, strays, garbled>>
  BY <1>1, HandlingPipe
<1>3. CASE Fail
  BY <1>1, <1>3, FailFormat DEF Accept
<1>4. CASE /\ Sends(PKT_LOGIN_SUCCESS, compression) /\ pc' = "receive"
           /\ UNCHANGED <<state, encryption, compression>>
  <2>1. CompressPhase
    BY <1>2 DEF FormatInv, Quiet, ClearPhase, TokenPhase, FinalPhase
  <2>2. /\ encryption /\ compression /\ cEnc
        /\ cStep = "await_success" /\ state = "LOGIN" /\ Pipe = <<>>
        /\ \/ ~cCmp /\ toClient = <<Reply("COMPRESS", TRUE, FALSE)>>
           \/ cCmp /\ toClient = <<>>
    BY <1>2, <2>1 DEF CompressPhase, Exchange
  <2>3. encryption = TRUE /\ compression = TRUE /\ cEnc = TRUE
    BY <2>2 DEF Memory, TypeInv
  <2>4. toClient' = Append(toClient, Reply("LOGIN_SUCCESS", TRUE, TRUE))
    BY <1>4, <2>2, <2>3, ReplyOf DEF Sends, Reply
  <2>5. CASE ~cCmp
    <3>1. toClient' = <<Reply("COMPRESS", TRUE, FALSE), Reply("LOGIN_SUCCESS", TRUE, TRUE)>>
      BY <2>2, <2>4, <2>5, ShortSequences
    <3>2. CompressPhase' /\ RepliesInv'
      BY <1>2, <1>4, <2>2, <2>5, <3>1 DEF CompressPhase, Exchange, RepliesInv
    <3>3. QED BY <1>2, <3>2 DEF FormatInv
  <2>6. CASE cCmp
    <3>1. toClient' = <<Reply("LOGIN_SUCCESS", TRUE, TRUE)>>
      BY <2>2, <2>4, <2>6, ShortSequences
    <3>2. cCmp' = TRUE /\ cEnc' = TRUE
      BY <1>2, <2>3, <2>6 DEF Memory, TypeInv
    <3>3. CompressPhase'
      BY <1>2, <1>4, <2>2, <3>1, <3>2 DEF CompressPhase, Exchange
    <3>4. RepliesInv'
      BY <3>1, <3>2 DEF RepliesInv, Replies
    <3>5. QED BY <1>2, <3>3, <3>4 DEF FormatInv
  <2>7. QED BY <2>2, <2>5, <2>6
<1>5. QED BY <1>3, <1>4 DEF send_login_success, connVars, Return
-----------------------------------------------------------------------------
(* The client within the protocol                                          *)
LEMMA ClientSendsPipe ==
  ASSUME Memory, NEW id \in Ids, NEW body \in Bodies, ClientSends(id, body)
  PROVE  /\ Pipe' = Append(Pipe, [id |-> id, body |-> body, enc |-> cEnc, cmp |-> cCmp])
         /\ open
         /\ UNCHANGED <<pc, open, state, encryption, compression, toClient, recvBuf, garbled>>
         /\ toServer' = Append(toServer, [id |-> id, body |-> body, enc |-> cEnc, cmp |-> cCmp])
<1>1. [id |-> id, body |-> body, enc |-> cEnc, cmp |-> cCmp] \in ToServer
  BY DEF Memory, TypeInv, ToServer
<1>2. /\ open /\ UNCHANGED <<pc, open, state, encryption, compression, toClient, recvBuf, garbled>>
      /\ toServer' = Append(toServer, [id |-> id, body |-> body, enc |-> cEnc, cmp |-> cCmp])
  BY DEF ClientSends, connVars
<1>3. QED BY <1>1, <1>2, PipeSends DEF Memory

LEMMA StrayFormat == Memory /\ FormatInv /\ ClientStray => FormatInv'
<1> SUFFICES ASSUME Memory, ClientStray
             PROVE  strays' # 0
  BY DEF FormatInv
<1>1. strays' = strays + 1 /\ strays \in Nat
  BY DEF ClientStray, Memory, TypeInv
<1>2. QED BY <1>1

LEMMA ConnectFormat == Memory /\ FormatInv /\ ClientConnect => FormatInv'
<1> SUFFICES ASSUME Memory, FormatInv, ClientConnect, strays' = 0
             PROVE  FormatInv'
  BY DEF FormatInv
<1>1. /\ UNCHANGED <<cEnc, cCmp, strays>> /\ cStep = "connect"
      /\ \/ cStep' = "status" /\ ClientSends(0, "STATUS")
         \/ cStep' = "login" /\ ClientSends(0, "LOGIN")
  BY DEF ClientConnect, ClientGoes
<1>2. /\ open /\ UNCHANGED <<pc, open, state, encryption, compression, toClient, garbled>>
      /\ \/ /\ cStep' = "status"
            /\ Pipe' = Append(Pipe, [id |-> 0, body |-> "STATUS", enc |-> cEnc, cmp |-> cCmp])
         \/ /\ cStep' = "login"
            /\ Pipe' = Append(Pipe, [id |-> 0, body |-> "LOGIN", enc |-> cEnc, cmp |-> cCmp])
  BY <1>1, ClientSendsPipe, ProtocolIds DEF Bodies
<1>3. ClearPhase
  BY <1>1, <1>2 DEF FormatInv, TokenPhase, CompressPhase, FinalPhase, Exchange
<1>4. /\ pc \in {"idle", "receive"} /\ ~encryption /\ ~compression /\ ~cEnc /\ ~cCmp
      /\ state = "HANDSHAKE" /\ Pipe = <<>> /\ toClient = <<>>
  BY <1>1, <1>3 DEF ClearPhase, Exchange
<1>5. cEnc = FALSE /\ cCmp = FALSE
  BY <1>4 DEF Memory, TypeInv
<1>6. \/ cStep' = "status" /\ Pipe' = <<Packet(0, "STATUS")>>
      \/ cStep' = "login" /\ Pipe' = <<Packet(0, "LOGIN")>>
  BY <1>2, <1>4, <1>5, ShortSequences DEF Packet
<1>7. ClearPhase'
  BY <1>1, <1>2, <1>4, <1>6 DEF ClearPhase, Exchange
<1>8. QED BY <1>1, <1>2, <1>4, <1>7, ClearFormat DEF FormatInv

LEMMA RequestFormat == Memory /\ FormatInv /\ ClientRequest => FormatInv'
<1> SUFFICES ASSUME Memory, FormatInv, ClientRequest, strays' = 0
             PROVE  FormatInv'
  BY DEF FormatInv
<1> DEFINE Written(id) == [id |-> id, body |-> "other", enc |-> cEnc, cmp |-> cCmp]
<1>1. /\ UNCHANGED <<cEnc, cCmp, strays>>
      /\ \E id \in Ids : ClientSends(id, "other")
      /\ \/ cStep = "status" /\ cStep' = "await_status" /\ ClientSends(0, "other")
         \/ cStep = "ping" /\ cStep' = "await_pong" /\ ClientSends(1, "other")
         \/ cStep = "login" /\ cStep' = "await_crypt" /\ ClientSends(0, "other")
         \/ cStep = "ack" /\ cStep' = "done" /\ ClientSends(3, "other")
  BY ProtocolIds DEF ClientRequest, ClientGoes
<1>2. /\ open /\ UNCHANGED <<pc, open, state, encryption, compression, toClient, recvBuf, garbled>>
  BY <1>1, ClientSendsPipe DEF Bodies
<1>3. \/ /\ cStep = "status" /\ cStep' = "await_status"
         /\ Pipe' = Append(Pipe, Written(0))
      \/ /\ cStep = "ping" /\ cStep' = "await_pong"
         /\ Pipe' = Append(Pipe, Written(1))
      \/ /\ cStep = "login" /\ cStep' = "await_crypt"
         /\ Pipe' = Append(Pipe, Written(0))
      \/ /\ cStep = "ack" /\ cStep' = "done"
         /\ toServer' = Append(toServer, Written(3))
  BY <1>1, ClientSendsPipe, ProtocolIds DEF Bodies
<1>4. CASE cStep = "ack"
  <2>1. FinalPhase
    BY <1>1, <1>2, <1>4 DEF FormatInv, ClearPhase, TokenPhase, CompressPhase, Exchange
  <2>2. cEnc = TRUE /\ cCmp = TRUE
    BY <2>1 DEF FinalPhase, Memory, TypeInv
  <2>3. toServer = <<>> /\ recvBuf = <<>>
    BY <1>4, <2>1 DEF FinalPhase
  <2>4. toServer' = <<Ack(TRUE)>> /\ cStep' = "done"
    BY <1>3, <1>4, <2>2, <2>3, ShortSequences DEF Ack
  <2>5. FinalPhase' /\ toClient' = <<>>
    BY <1>1, <1>2, <2>1, <2>3, <2>4 DEF FinalPhase
  <2>6. QED BY <1>1, <1>2, <2>5 DEF FormatInv, RepliesInv
<1>5. CASE cStep \in {"status", "ping", "login"}
  <2>1. ClearPhase
    BY <1>1, <1>2, <1>5 DEF FormatInv, TokenPhase, CompressPhase, FinalPhase, Exchange
  <2>2. /\ pc \in {"idle", "receive"} /\ ~encryption /\ ~compression /\ ~cEnc /\ ~cCmp
    BY <2>1 DEF ClearPhase
  <2>3. cEnc = FALSE /\ cCmp = FALSE
    BY <2>2 DEF Memory, TypeInv
  <2>4. Written(0) = Packet(0, "other") /\ Written(1) = Packet(1, "other")
    BY <2>3 DEF Packet
  <2>5. /\ toClient = <<>>
        /\ \/ /\ cStep = "status"
              /\ \/ state = "HANDSHAKE" /\ Pipe = <<Packet(0, "STATUS")>>
                 \/ state = "STATUS" /\ Pipe = <<>>
           \/ cStep = "ping" /\ state = "STATUS" /\ Pipe = <<>>
           \/ /\ cStep = "login"
              /\ \/ state = "HANDSHAKE" /\ Pipe = <<Packet(0, "LOGIN")>>
                 \/ state = "LOGIN" /\ Pipe = <<>>
    BY <1>5, <2>1 DEF ClearPhase, Exchange
  <2>6. \A a, b : Append(<<>>, a) = <<a>> /\ Append(<<a>>, b) = <<a, b>>
    BY ShortSequences
  <2> HIDE DEF Written
  <2>7. /\ cStep = "status" => /\ cStep' = "await_status"
                               /\ Pipe' = Append(Pipe, Packet(0, "other"))
        /\ cStep = "ping" => /\ cStep' = "await_pong"
                             /\ Pipe' = Append(Pipe, Packet(1, "other"))
        /\ cStep = "login" => /\ cStep' = "await_crypt"
                              /\ Pipe' = Append(Pipe, Packet(0, "other"))
    BY <1>3, <2>4
  <2>8. ClearPhase'
    <3>1. /\ pc' \in {"idle", "receive"} /\ ~encryption' /\ ~compression' /\ ~cEnc' /\ ~cCmp'
          /\ toClient' = <<>> /\ state' = state
      BY <1>1, <1>2, <2>2, <2>5
    <3>2. \/ /\ cStep' = "await_status" /\ state' = "HANDSHAKE"
             /\ Pipe' = <<Packet(0, "STATUS"), Packet(0, "other")>>
          \/ cStep' = "await_status" /\ state' = "STATUS" /\ Pipe' = <<Packet(0, "other")>>
          \/ cStep' = "await_pong" /\ state' = "STATUS" /\ Pipe' = <<Packet(1, "other")>>
          \/ /\ cStep' = "await_crypt" /\ state' = "HANDSHAKE"
             /\ Pipe' = <<Packet(0, "LOGIN"), Packet(0, "other")>>
          \/ cStep' = "await_crypt" /\ state' = "LOGIN" /\ Pipe' = <<Packet(0, "other")>>
      BY <2>5, <2>6, <2>7, <3>1, Zenon
    <3>3. QED BY <3>1, <3>2 DEF ClearPhase, Exchange
  <2>9. QED BY <1>1, <1>2, <2>5, <2>8, ClearFormat DEF FormatInv
<1>6. QED BY <1>1, <1>4, <1>5

LEMMA EncryptFormat == Memory /\ FormatInv /\ ClientEncrypt => FormatInv'
<1> SUFFICES ASSUME Memory, FormatInv, ClientEncrypt, strays' = 0
             PROVE  FormatInv'
  BY DEF FormatInv
<1>1. /\ cStep = "respond" /\ cStep' = "await_success" /\ ClientSends(1, "token")
      /\ cEnc' = TRUE /\ UNCHANGED <<cCmp, strays>>
  BY DEF ClientEncrypt, ClientGoes
<1>2. /\ open /\ UNCHANGED <<pc, open, state, encryption, compression, toClient, garbled>>
      /\ Pipe' = Append(Pipe, [id |-> 1, body |-> "token", enc |-> cEnc, cmp |-> cCmp])
  BY <1>1, ClientSendsPipe, ProtocolIds DEF Bodies
<1>3. ClearPhase
  BY <1>1, <1>2 DEF FormatInv, TokenPhase, CompressPhase, FinalPhase, Exchange
<1>4. /\ pc \in {"idle", "receive"} /\ ~encryption /\ ~compression /\ ~cEnc /\ ~cCmp
      /\ state = "LOGIN" /\ Pipe = <<>> /\ toClient = <<>>
  BY <1>1, <1>3 DEF ClearPhase, Exchange
<1>5. cEnc = FALSE /\ cCmp = FALSE
  BY <1>4 DEF Memory, TypeInv
<1>6. Pipe' = <<Packet(1, "token")>>
  BY <1>2, <1>4, <1>5, ShortSequences DEF Packet
<1>7. TokenPhase'
  BY <1>1, <1>2, <1>4, <1>6 DEF TokenPhase, Exchange
<1>8. QED BY <1>1, <1>2, <1>4, <1>7 DEF FormatInv, RepliesInv

(* What the client reads is in the format that it expects.                 *)
LEMMA ReceiveFormat == Memory /\ FormatInv /\ ClientReceive => FormatInv'
<1> SUFFICES ASSUME Memory, FormatInv, ClientReceive, strays' = 0
             PROVE  FormatInv'
  BY DEF FormatInv
<1>1. /\ toClient # <<>> /\ toClient' = Tail(toClient)
      /\ UNCHANGED <<pc, open, state, encryption, compression, toServer, recvBuf, cEnc, strays>>
  BY DEF ClientReceive, connVars
<1>2. ~garbled /\ RepliesInv /\ Pipe' = Pipe
  BY <1>1 DEF FormatInv, Pipe
<1>3. /\ Head(toClient).enc = cEnc /\ Head(toClient).cmp = cCmp
      /\ \/ toClient' = <<>>
         \/ /\ Head(toClient).id = "COMPRESS" /\ cEnc
            /\ toClient' = <<Reply("LOGIN_SUCCESS", TRUE, TRUE)>>
  <2>1. CASE \E id \in Replies : toClient = <<Reply(id, cEnc, cCmp)>>
    BY <1>1, <2>1, ShortSequences DEF Reply
  <2>2. CASE /\ cEnc /\ ~cCmp
             /\ toClient = <<Reply("COMPRESS", TRUE, FALSE), Reply("LOGIN_SUCCESS", TRUE, TRUE)>>
    <3>1. cEnc = TRUE /\ cCmp = FALSE
      BY <2>2 DEF Memory, TypeInv
    <3>2. /\ Head(toClient) = Reply("COMPRESS", TRUE, FALSE)
          /\ Tail(toClient) = <<Reply("LOGIN_SUCCESS", TRUE, TRUE)>>
      BY <2>2, ShortSequences
    <3>3. Reply("COMPRESS", TRUE, FALSE).enc = TRUE
      BY DEF Reply
    <3>4. Reply("COMPRESS", TRUE, FALSE).cmp = FALSE
      BY DEF Reply
    <3>5. Reply("COMPRESS", TRUE, FALSE).id = "COMPRESS"
      BY DEF Reply
    <3>6. QED BY <1>1, <2>2, <3>1, <3>2, <3>3, <3>4, <3>5
  <2>3. QED BY <1>1, <1>2, <2>1, <2>2 DEF RepliesInv
<1>4. /\ garbled' = garbled /\ cStep' = Answered(Head(toClient).id)
      /\ cCmp' = (cCmp \/ Head(toClient).id = "COMPRESS")
  BY <1>3 DEF ClientReceive
<1>5. RepliesInv'
  <2>1. CASE toClient' = <<>>
    BY <2>1 DEF RepliesInv
  <2>2. CASE /\ Head(toClient).id = "COMPRESS" /\ cEnc
             /\ toClient' = <<Reply("LOGIN_SUCCESS", TRUE, TRUE)>>
    <3>1. cEnc' = TRUE /\ cCmp' = TRUE
      BY <1>1, <1>4, <2>2 DEF Memory, TypeInv
    <3>2. QED BY <2>2, <3>1 DEF RepliesInv, Replies
  <2>3. QED BY <1>3, <2>1, <2>2
<1>6. CASE open /\ ClearPhase
  <2>1. /\ pc \in {"idle", "receive"} /\ ~encryption /\ ~compression /\ ~cEnc /\ ~cCmp
        /\ Pipe = <<>>
        /\ \/ /\ cStep = "await_status" /\ state = "STATUS"
              /\ toClient = <<Reply("STATUS_RESPONSE", FALSE, FALSE)>>
           \/ /\ cStep = "await_pong" /\ state = "STATUS"
              /\ toClient = <<Reply("PONG", FALSE, FALSE)>>
           \/ /\ cStep = "await_crypt" /\ state = "LOGIN"
              /\ toClient = <<Reply("CRYPT_REQUEST", FALSE, FALSE)>>
    BY <1>1, <1>6 DEF ClearPhase, Exchange
  <2>2. \/ /\ cStep = "await_status" /\ state = "STATUS"
           /\ Head(toClient).id = "STATUS_RESPONSE"
        \/ cStep = "await_pong" /\ state = "STATUS" /\ Head(toClient).id = "PONG"
        \/ cStep = "await_crypt" /\ state = "LOGIN" /\ Head(toClient).id = "CRYPT_REQUEST"
    BY <2>1, ShortSequences DEF Reply
  <2>3. toClient' = <<>> /\ ~cCmp'
    BY <1>1, <1>3, <1>4, <2>1, <2>2
  <2>4. \/ cStep' = "ping" /\ state' = "STATUS"
        \/ cStep' = "done" /\ state' = "STATUS"
        \/ cStep' = "respond" /\ state' = "LOGIN"
    BY <1>1, <1>4, <2>2 DEF Answered
  <2>5. ClearPhase'
    BY <1>1, <1>2, <2>1, <2>3, <2>4 DEF ClearPhase, Exchange
  <2>6. QED BY <1>2, <1>4, <1>5, <2>5 DEF FormatInv
<1>7. CASE open /\ CompressPhase
  <2>1. /\ encryption /\ compression /\ cEnc /\ cStep = "await_success" /\ state = "LOGIN"
        /\ Pipe = <<>>
    BY <1>7 DEF CompressPhase, Exchange
  <2>2. \/ /\ pc = "login_success" /\ ~cCmp /\ toClient = <<Reply("COMPRESS", TRUE, FALSE)>>
        \/ /\ pc \in {"idle", "receive"} /\ ~cCmp
           /\ toClient = <<Reply("COMPRESS", TRUE, FALSE), Reply("LOGIN_SUCCESS", TRUE, TRUE)>>
        \/ /\ pc \in {"idle", "receive"} /\ cCmp
           /\ toClient = <<Reply("LOGIN_SUCCESS", TRUE, TRUE)>>
    BY <1>1, <1>7 DEF CompressPhase, Exchange
  <2>3. CASE /\ pc = "login_success" /\ toClient = <<Reply("COMPRESS", TRUE, FALSE)>>
    <3>1. Head(toClient).id = "COMPRESS" /\ toClient' = <<>>
      BY <1>1, <2>3, ShortSequences DEF Reply
    <3>2. cCmp' /\ cStep' = "await_success"
      BY <1>4, <2>1, <3>1 DEF Answered
    <3>3. CompressPhase'
      BY <1>1, <1>2, <2>1, <2>3, <3>1, <3>2 DEF CompressPhase, Exchange
    <3>4. QED BY <1>2, <1>4, <1>5, <3>3 DEF FormatInv
  <2>4. CASE /\ pc \in {"idle", "receive"}
             /\ toClient = <<Reply("COMPRESS", TRUE, FALSE), Reply("LOGIN_SUCCESS", TRUE, TRUE)>>
    <3>1. Head(toClient).id = "COMPRESS" /\ toClient' = <<Reply("LOGIN_SUCCESS", TRUE, TRUE)>>
      <4>1. Head(toClient) = Reply("COMPRESS", TRUE, FALSE)
        BY <2>4, ShortSequences
      <4>2. toClient' = <<Reply("LOGIN_SUCCESS", TRUE, TRUE)>>
        BY <1>1, <2>4, ShortSequences
      <4>3. Reply("COMPRESS", TRUE, FALSE).id = "COMPRESS"
        BY DEF Reply
      <4>4. QED BY <4>1, <4>2, <4>3
    <3>2. cCmp' /\ cStep' = "await_success"
      BY <1>4, <2>1, <3>1 DEF Answered
    <3>3. CompressPhase'
      BY <1>1, <1>2, <2>1, <2>4, <3>1, <3>2 DEF CompressPhase, Exchange
    <3>4. QED BY <1>2, <1>4, <1>5, <3>3 DEF FormatInv
  <2>5. CASE /\ pc \in {"idle", "receive"} /\ cCmp
             /\ toClient = <<Reply("LOGIN_SUCCESS", TRUE, TRUE)>>
    <3>1. Head(toClient).id = "LOGIN_SUCCESS" /\ toClient' = <<>>
      BY <1>1, <2>5, ShortSequences DEF Reply
    <3>2. cCmp' /\ cStep' = "ack"
      BY <1>4, <2>1, <2>5, <3>1 DEF Answered
    <3>3. recvBuf' = <<>> /\ toServer' = <<>>
      BY <1>1, <2>1, PipeIsEmpty DEF Memory
    <3>4. FinalPhase'
      BY <1>1, <2>1, <2>5, <3>1, <3>2, <3>3 DEF FinalPhase
    <3>5. QED BY <1>2, <1>4, <1>5, <3>4 DEF FormatInv
  <2>6. QED BY <2>2, <2>3, <2>4, <2>5
<1>8. CASE ~open
  BY <1>1, <1>2, <1>4, <1>5, <1>8 DEF FormatInv
<1>9. QED BY <1>1, <1>6, <1>7, <1>8 DEF FormatInv, TokenPhase, FinalPhase, Exchange
-----------------------------------------------------------------------------
LEMMA NextFormat == Memory /\ FormatInv /\ [Next]_vars => FormatInv'
<1>1. ASSUME FormatInv, UNCHANGED vars
      PROVE  FormatInv'
  <2>1. UNCHANGED <<pc, open, state, encryption, compression, toServer, toClient, recvBuf, cStep,
                    cEnc, cCmp, strays, garbled>>
    BY <1>1 DEF vars, connVars, clientVars
  <2>2. Pipe' = Pipe
    BY <2>1 DEF Pipe
  <2>3. /\ RepliesInv => RepliesInv'
        /\ ClearPhase => ClearPhase'
        /\ TokenPhase => TokenPhase'
        /\ CompressPhase => CompressPhase'
        /\ FinalPhase => FinalPhase'
    BY <2>1, <2>2, Zenon
    DEF RepliesInv, ClearPhase, TokenPhase, CompressPhase, FinalPhase, Exchange
  <2>4. QED BY <1>1, <2>1, <2>3 DEF FormatInv
<1>2. QED
  BY <1>1, FillFormat, AgainFormat, GarbledFormat, UnsupportedFormat, WildFormat,
     MismatchedFormat, DummyFormat,
     HandshakeFormat, StatusFormat, PingFormat, LoginStartFormat, EncResFormat,
     AuthenticateFormat, CompressionFormat, SuccessFormat, ConnectFormat, RequestFormat,
     EncryptFormat, StrayFormat, ReceiveFormat
  DEF Next, ServerStep

(* FormatsAgree: a client that keeps to the protocol and the server switch *)
(* to encryption and compression at the same packet in each direction,     *)
(* whatever was on its way at the switch.                                  *)
THEOREM BothSidesSwitchTogether == Spec => []FormatsAgree
<1>1. Init => Memory /\ FormatInv
  BY InitMemory, InitFormat
<1>2. Memory /\ FormatInv /\ [Next]_vars => (Memory /\ FormatInv)'
  BY NextMemory, NextFormat
<1>3. Memory /\ FormatInv => FormatsAgree
  BY DEF FormatInv, FormatsAgree
<1>4. QED BY <1>1, <1>2, <1>3, PTL DEF Spec
=============================================================================
