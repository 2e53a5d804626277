------------------------------- MODULE ByteFifo -------------------------------
(***************************************************************************)
(* What src/src/containers/bytebuffer.h promises of a byte buffer: bytes   *)
(* come out at the front in the order in which they were written at the    *)
(* end, behind those put in front of them.  An item is a byte and how      *)
(* often it was enciphered.                                                *)
(***************************************************************************)
EXTENDS Naturals, Sequences

CONSTANTS Bytes, Capacity

VARIABLES items,   (* the bytes in the buffer                       *)
          moved    (* the bytes that the last operation took in or    *)
                   (* handed out                                   *)

vars == <<items, moved>>

Clear(data) == [i \in DOMAIN data |-> <<data[i], 0>>]

Init == items = <<>> /\ moved = <<>>

Fits(data) == data \in Seq(Bytes) /\ Len(items) + Len(data) <= Capacity

Write ==
    \E n \in 0 .. Capacity : \E data \in [1 .. n -> Bytes] :
       Fits(data) /\ items' = items \o Clear(data) /\ moved' = Clear(data)

Prepend ==
    \E n \in 0 .. Capacity : \E data \in [1 .. n -> Bytes] :
       Fits(data) /\ items' = Clear(data) \o items /\ moved' = Clear(data)

Read ==
    \E n \in 0 .. Len(items) :
        /\ moved' = SubSeq(items, 1, n)
        /\ items' = SubSeq(items, n + 1, Len(items))

(* All bytes are enciphered, once. *)
Cipher ==
    /\ items' = [i \in DOMAIN items |-> <<items[i][1], items[i][2] + 1>>]
    /\ moved' = <<>>

Copy ==
    /\ moved' = items
    /\ UNCHANGED items

Renew ==
    /\ items' = <<>>
    /\ moved' = <<>>

Next ==
    \/ Write
    \/ Prepend
    \/ Read
    \/ Cipher
    \/ Copy
    \/ Renew

Spec == Init /\ [][Next]_vars
=============================================================================
