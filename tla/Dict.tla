--------------------------------- MODULE Dict ---------------------------------
(***************************************************************************)
(* The dynamic dictionary of src/src/containers/dict-op.c and dict-init.c, *)
(* as operators on a value: a table of slots, each Empty or a mapping, and *)
(* the count of the puts.  A slot is empty if its hash is 0.               *)
(*                                                                         *)
(* dict_remove and what only it calls are left out: nothing calls it.      *)
(* Dictionaries of a fixed size are in EventSystem, as its registry.       *)
(***************************************************************************)
EXTENDS Integers, Sequences, FiniteSets

CONSTANTS Keys,
          Hash,         (* their hashes                                       *)
          DEFAULT_CAP   (* the slots of a new dictionary: 4 in the code       *)

ASSUME DictAssumption ==
    /\ Hash \in [Keys -> Nat \ {0}]
    /\ DEFAULT_CAP \in Nat
    /\ \E n \in 1 .. 8 : DEFAULT_CAP = 2 ^ n

(* The hash of any name; of those that are not Keys it is only not 0.      *)
cmp_hash(key) == IF key \in Keys THEN Hash[key] ELSE CHOOSE h \in Nat \ {0} : TRUE

Empty == [hash |-> 0]
IsEmpty(node) == node.hash = 0

dict_init == [slots |-> [i \in 0 .. DEFAULT_CAP - 1 |-> Empty], size |-> 0]
capacity(d) == Cardinality(DOMAIN d.slots)

idx_iter(cap, idx) == (5 * idx + 1) % cap

(* The slots in the order in which they are probed for a hash.  The        *)
(* capacity is a power of two, so that these are all of them.              *)
Probes(cap, h) ==
    LET slot[n \in 0 .. cap - 1] == IF n = 0 THEN h % cap ELSE idx_iter(cap, slot[n - 1])
    IN  slot

(* The first slot among some that is probed for a key                      *)
FirstProbed(d, key, slots) ==
    LET probes == Probes(capacity(d), cmp_hash(key))
        hits == {n \in DOMAIN probes : probes[n] \in slots}
    IN  IF hits = {} THEN -1 ELSE probes[CHOOSE n \in hits : \A m \in hits : n <= m]

Matches(node, key) == ~IsEmpty(node) /\ node.hash = cmp_hash(key) /\ node.key = key

(* get_elem passes over empty slots; it gives up after as many mappings    *)
(* as the size says, which is no less than there are, and then reports     *)
(* FALSE, which is slot 0.                                                 *)
Occupied(d, key) == {i \in DOMAIN d.slots : Matches(d.slots[i], key)}
get_elem(d, key) == FirstProbed(d, key, Occupied(d, key))
Has(d, key) == d.size > 0 /\ get_elem(d, key) # -1

(* What dict_get copies out for a key that is there; for one that is not,  *)
(* the caller reads what it was not given.                                 *)
dict_get(d, key) == d.slots[get_elem(d, key)].value

(* rehash_nodes looks for an empty slot from the new place of the hash on, *)
(* but always tests and fills the slot of the old index.                   *)
rehash_nodes_Drop(d, cap) ==  (* Mutant: the last slot is not copied. *)
    [i \in 0 .. cap - 1 |-> IF i < capacity(d) - 1 THEN d.slots[i] ELSE Empty]
rehash_nodes(d, cap) ==
    [i \in 0 .. cap - 1 |-> IF i \in DOMAIN d.slots THEN d.slots[i] ELSE Empty]

grow(d) == [d EXCEPT !.slots = rehash_nodes(d, 2 * capacity(d))]

(* dict_put takes the first slot that is empty or has the key, counts the  *)
(* mapping in any case, and grows at three quarters of the capacity.       *)
dict_put(d, key, value) ==
    LET free == {i \in DOMAIN d.slots : IsEmpty(d.slots[i])}
        idx == FirstProbed(d, key, free \cup Occupied(d, key))
        put == [slots |-> [d.slots EXCEPT ![idx] =
                              [hash |-> cmp_hash(key), key |-> key, value |-> value]],
                size  |-> d.size + 1]
    IN  IF 4 * put.size >= 3 * capacity(d) THEN grow(put) ELSE put

(* The mappings that dict_foreach visits, in the order of the slots        *)
dict_foreach(d) ==
    LET used == {i \in DOMAIN d.slots : ~IsEmpty(d.slots[i])}
        Rank(i) == Cardinality({j \in used : j < i})
        count == IF Cardinality(used) < d.size THEN Cardinality(used) ELSE d.size
    IN  [n \in 1 .. count |-> d.slots[CHOOSE i \in used : Rank(i) = n - 1]]
=============================================================================
