------------------------------ MODULE ByteBuffer ------------------------------
(***************************************************************************)
(* The fixed byte buffer of src/src/containers/bytebuffer.c, in the hands  *)
(* of each of its users: recv_buffer, which sock_recv_buf fills through    *)
(* the write regions and the decoders read; the scratch buffer in which    *)
(* send_packet builds a packet; and send_buffer, to which packets are      *)
(* copied and which sock_send_buf empties through the read regions.        *)
(*                                                                         *)
(* A slot of the storage holds a byte and how often it was enciphered.     *)
(* Dynamic buffers, unread and unwrite have no user in the server.         *)
(***************************************************************************)
EXTENDS Integers, Sequences, FiniteSets

CONSTANTS Bytes,      (* the bytes                                             *)
          Garbage,    (* what the arena's memory holds                         *)
          Capacity,   (* bytebuf_cap                                           *)
          MaxChunk,   (* the most bytes written at once                        *)
          Users       (* whose buffers are looked at                           *)

ASSUME BufferAssumption ==
    /\ Capacity \in Nat \ {0}
    /\ MaxChunk \in 1 .. Capacity
    /\ Users \subseteq {"recv", "scratch", "send"}

VARIABLES
    buf, read_head, write_head, size,  (* the fields of ByteBuffer           *)
    moved,     (* the bytes that the last operation took in or handed out    *)
    user,      (* whose buffer it is                                         *)
    stage      (* how far the packet in the scratch buffer is                *)

heads == <<read_head, write_head, size>>
vars == <<buf, heads, moved, user, stage>>

Slots == 0 .. Capacity - 1
Content == (Bytes \union {Garbage}) \X Nat
Chunks == UNION {[1 .. n -> Bytes] : n \in 1 .. MaxChunk}

(* bytebuf_create_fixed *)
Init ==
    /\ user \in Users
    /\ buf = [s \in Slots |-> <<Garbage, 0>>]
    /\ read_head = 0 /\ write_head = 0 /\ size = 0
    /\ moved = <<>>
    /\ stage = "body"
-----------------------------------------------------------------------------
(* get_read_region_size and get_write_region_size are mirror images: the   *)
(* readable bytes start at the read head and end at the write head, the    *)
(* free ones the other way round.                                          *)
RegionSize(from, to, start) ==
    CASE from = to \/ (from > to /\ start >= from)     -> Capacity - start
      [] start < to /\ (from > to \/ start >= from)    -> to - start
      [] OTHER                                         -> 0

Region(start, n) == [i \in 1 .. n |-> start + i - 1]

(* get_regions with room for two regions and no offset: the slots of the   *)
(* first region, and of a second one if the first is not all.              *)
get_regions(from, to, total) ==
    LET n == RegionSize(from, to, from)
        second == (from + n) % Capacity
    IN  CASE total = 0 -> <<>>
          [] total > 0 /\ n >= total -> Region(from, n)
          [] n < total -> Region(from, n) \o Region(second, RegionSize(from, to, second))

read_regions == get_regions(read_head, write_head, size)
write_regions == get_regions(write_head, read_head, Capacity - size)

Clear(data) == [i \in DOMAIN data |-> <<data[i], 0>>]
Gather(slots) == [i \in DOMAIN slots |-> buf[slots[i]]]

Scatter(data, slots) ==
    [s \in Slots |->
        IF \E i \in DOMAIN data : slots[i] = s
        THEN <<data[CHOOSE i \in DOMAIN data : slots[i] = s], 0>>
        ELSE buf[s]]

bytebuf_register_read(n) ==
    /\ read_head' = (read_head + n) % Capacity
    /\ size' = size - n
    /\ UNCHANGED write_head

bytebuf_register_write(n) ==
    /\ write_head' = (write_head + n) % Capacity
    /\ size' = size + n
    /\ UNCHANGED read_head

(* write_at_position goes on at the start of the storage when it has       *)
(* reached the end, but with the first bytes of data again.                *)
write_at_position(data, position) ==
    LET writable == Capacity - position
        Byte(i) == IF i <= writable THEN data[i] ELSE data[i - writable]
    IN  Scatter([i \in DOMAIN data |-> Byte(i)],
                [i \in DOMAIN data |-> (position + i - 1) % Capacity])
-----------------------------------------------------------------------------
(* sock_recv_buf: recvmsg fills the write regions with what the socket     *)
(* has.  More than fits, which the overlapping regions of an empty buffer  *)
(* have room for, aborts the process in bytebuf_register_write.            *)
sock_recv_buf ==
    /\ user = "recv" /\ size < Capacity
    /\ \E data \in Chunks :
          /\ Len(data) <= Capacity - size
          /\ buf' = Scatter(data, write_regions)
          /\ bytebuf_register_write(Len(data))
          /\ moved' = Clear(data)
    /\ UNCHANGED <<user, stage>>

bytebuf_read ==
    /\ user = "recv"
    /\ \E n \in 0 .. size :
          /\ moved' = [i \in 1 .. n |-> buf[(read_head + i - 1) % Capacity]]
          /\ bytebuf_register_read(n)
    /\ UNCHANGED <<buf, user, stage>>

(* ensure_capacity aborts the process for more than fits.                  *)
bytebuf_write ==
    /\ user \in {"scratch", "send"} /\ stage = "body"
    /\ \E data \in Chunks :
          /\ size + Len(data) <= Capacity
          /\ buf' = write_at_position(data, write_head)
          /\ bytebuf_register_write(Len(data))
          /\ moved' = Clear(data)
    /\ UNCHANGED <<user, stage>>

bytebuf_prepend ==
    /\ user = "scratch" /\ stage \in {"body", "prefixed"}
    /\ \E data \in Chunks :
          LET position == IF read_head < Len(data)
                          THEN read_head - Len(data) + Capacity
                          ELSE read_head - Len(data)
          IN  /\ size + Len(data) <= Capacity
              /\ read_head' = position
              /\ buf' = write_at_position(data, position)
              /\ size' = size + Len(data)
              /\ moved' = Clear(data)
    /\ stage' = "prefixed"
    /\ UNCHANGED <<write_head, user>>

(* Mutant: only the first of the two regions is enciphered. *)
encryption_cipher_First ==
    /\ user = "scratch" /\ stage = "prefixed"
    /\ LET first == Region(read_head, RegionSize(read_head, write_head, read_head)) IN
       buf' = [s \in Slots |->
                  <<buf[s][1], buf[s][2] + Cardinality({i \in DOMAIN first : first[i] = s})>>]
    /\ stage' = "complete"
    /\ moved' = <<>>
    /\ UNCHANGED <<heads, user>>

(* encryption_cipher enciphers the read regions in place.                  *)
encryption_cipher ==
    /\ user = "scratch" /\ stage = "prefixed"
    /\ buf' = [s \in Slots |->
                  <<buf[s][1],
                    buf[s][2] + Cardinality({i \in DOMAIN read_regions : read_regions[i] = s})>>]
    /\ stage' = "complete"
    /\ moved' = <<>>
    /\ UNCHANGED <<heads, user>>

(* bytebuf_write_buffer reads all of the scratch buffer and leaves it.     *)
bytebuf_write_buffer ==
    /\ user = "scratch" /\ stage \in {"prefixed", "complete"}
    /\ moved' = Gather(read_regions)
    /\ stage' = "copied"
    /\ UNCHANGED <<buf, heads, user>>

(* The scratch buffer of the next packet, in the same memory               *)
bytebuf_create_fixed ==
    /\ user = "scratch" /\ stage = "copied"
    /\ read_head' = 0 /\ write_head' = 0 /\ size' = 0
    /\ stage' = "body"
    /\ moved' = <<>>
    /\ UNCHANGED <<buf, user>>

(* sendmsg takes some of the bytes in the read regions.                    *)
sock_send_buf ==
    /\ user = "send" /\ size > 0
    /\ \E n \in 1 .. Len(read_regions) :
          /\ moved' = SubSeq(Gather(read_regions), 1, n)
          /\ bytebuf_register_read(IF n < size THEN n ELSE size)
    /\ UNCHANGED <<buf, user, stage>>

Next ==
    \/ sock_recv_buf
    \/ bytebuf_read
    \/ bytebuf_write
    \/ bytebuf_prepend
    \/ encryption_cipher
    \/ bytebuf_write_buffer
    \/ bytebuf_create_fixed
    \/ sock_send_buf

Spec == Init /\ [][Next]_vars
-----------------------------------------------------------------------------
Contents == [i \in 1 .. size |-> buf[(read_head + i - 1) % Capacity]]

Fifo == INSTANCE ByteFifo WITH items <- Contents

(* A write for send_buffer that goes around the end of the storage adds as *)
(* many bytes as it was given and spoils none that were there, but only    *)
(* those in front of the end are the ones it was given.                    *)
Straddled ==
    /\ user = "send"
    /\ \E data \in Chunks :
          /\ write_head + Len(data) > Capacity
          /\ size' = size + Len(data)
          /\ \A i \in 1 .. size : Contents'[i] = Contents[i]
          /\ \A i \in 1 .. Capacity - write_head : Contents'[size + i] = <<data[i], 0>>
          /\ moved' = Clear(data)

(* The second read region of a full buffer overlaps the first: each byte   *)
(* is enciphered, some of them twice, and all bytes are handed out in      *)
(* order, but with more behind them.                                       *)
Overlapped ==
    /\ size = Capacity /\ read_head # 0
    /\ \/ /\ size' = size
          /\ \A i \in 1 .. size :
                Contents'[i][1] = Contents[i][1] /\ Contents'[i][2] > Contents[i][2]
       \/ /\ Contents' \in {Contents, <<>>}
          /\ Len(moved') > size
          /\ \A i \in 1 .. size : moved'[i] = Contents[i]

(* Bytes come out as they were written and are enciphered once, wherever   *)
(* the heads are, through the regions as through reads and writes.  The    *)
(* two exceptions spoil no more than what they say.                        *)
FifoButAtTheEnd == Fifo!Init /\ [][Fifo!Next \/ Straddled \/ Overlapped]_Fifo!vars

(* bytebuffer.h:7-11: the buffer "stores bytes in a First In, First Out    *)
(* fashion", and "writing data after the end of a buffer would instead     *)
(* write it at the beginning".                                             *)
ImplementsFifo == Fifo!Spec
=============================================================================
