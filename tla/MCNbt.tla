--------------------------------- MODULE MCNbt ---------------------------------
(***************************************************************************)
(* Files for the run of Nbt, made from trees, and constants.               *)
(***************************************************************************)
EXTENDS Nbt

(* What is inside of a tag, without its type and name                      *)
Val(v) == [type |-> NBT_INT, body |-> <<<<"value", v>>>>]
Str(s) == [type |-> NBT_STRING, body |-> <<<<"value", s>>>>]
Compound(members) ==
    [type |-> NBT_COMPOUND,
     body |-> FlattenSeq([i \in DOMAIN members |->
                             <<<<"type", members[i][2].type>>, <<"name", members[i][1]>>>>
                             \o members[i][2].body])
              \o <<<<"type", NBT_END>>>>]
Items(elements) == FlattenSeq([i \in DOMAIN elements |-> elements[i].body])
List(elem, elements) ==
    [type |-> NBT_LIST,
     body |-> <<<<"elem", elem>>, <<"length", Len(elements)>>>> \o Items(elements)]
Array(type, elements) ==
    [type |-> type, body |-> <<<<"count", Len(elements)>>>> \o Items(elements)]

AsFile(tree) == <<<<"type", tree.type>>, <<"name", "a">>>> \o tree.body

Leaves == {Val(1), Str("text"), Compound(<<>>), List(NBT_END, <<>>), Array(NBT_BYTE_ARRAY, <<>>)}
Pairs(S) == {<<x, y>> : x \in S, y \in S}
Same(S) == {p \in Pairs(S) : p[1].type = p[2].type}
Over(S) == {Compound(<<<<"a", p[1]>>, <<"b", p[2]>>>>) : p \in Pairs(S)}
           \cup {List(p[1].type, p) : p \in Same(S)}
           \cup {Compound(<<<<"a", x>>>>) : x \in S} \cup {List(x.type, <<x>>) : x \in S}

(* Trees of three levels, and some of four with lists of lists in lists,   *)
(* and with arrays; one of which the stack holds all but an empty list,    *)
(* and one that is too deep                                                *)
RECURSIVE Nested(_, _)
Nested(n, x) == Compound(<<<<"a", IF n = 0 THEN x ELSE Nested(n - 1, x)>>>>)

Numbers == Array(NBT_INT_ARRAY, <<Val(1), Val(2)>>)
Deep == {List(NBT_LIST, <<List(NBT_LIST, <<List(NBT_INT, <<Val(1)>>)>>)>>),
         Compound(<<<<"a", List(NBT_COMPOUND, <<Compound(<<<<"b", Val(1)>>>>), Compound(<<>>)>>)>>,
                    <<"b", Compound(<<<<"a", Compound(<<<<"a", Val(2)>>>>)>>>>)>>>>),
         Compound(<<<<"a", Numbers>>, <<"b", Val(1)>>>>),
         Nested(3, List(NBT_END, <<>>)), Nested(4, Val(1)),
         List(NBT_INT_ARRAY, <<Numbers, Numbers>>)}

MCFiles ==
    {AsFile(t) : t \in Leaves \cup Over(Leaves)
                       \cup Over(Over({Val(1), List(NBT_END, <<>>)})) \cup Deep}
=============================================================================
