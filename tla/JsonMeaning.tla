------------------------------ MODULE JsonMeaning ------------------------------
(***************************************************************************)
(* What the documents of Json mean, by the grammar as a recursive          *)
(* definition, and that its parser and its printer agree with it.          *)
(***************************************************************************)
EXTENDS Json

(* What tokens i to j of the document denote, by the grammar: a set of at  *)
(* most one value, with depth the levels of nesting that are left.         *)
Tok(i) == source[i].tok
Commas(i, j) == {k \in i .. j : Tok(k) = "TOK_COMMA"}

RECURSIVE Denoted(_, _, _), Items(_, _, _), Members(_, _, _)
Items(i, j, depth) ==
    {<<v>> : v \in Denoted(i, j, depth)} \cup
    UNION {{<<v>> \o rest : v \in Denoted(i, k - 1, depth), rest \in Items(k + 1, j, depth)} :
               k \in Commas(i, j)}

Members(i, j, depth) ==
    IF i + 2 > j \/ Tok(i) # "TOK_STRING" \/ Tok(i + 1) # "TOK_COLON"
    THEN {}
    ELSE {<< <<source[i].val[2], v>> >> : v \in Denoted(i + 2, j, depth)} \cup
         UNION {{<< <<source[i].val[2], v>> >> \o rest :
                     v \in Denoted(i + 2, k - 1, depth), rest \in Members(k + 1, j, depth)} :
                    k \in Commas(i + 3, j)}

Denoted(i, j, depth) ==
    IF depth = 0 \/ i > j
    THEN {}
    ELSE IF i = j
    THEN CASE token_has_value(Tok(i)) -> {source[i].val}
           [] Tok(i) = "TOK_NULL"     -> {<<"null">>}
           [] OTHER                   -> {}
    ELSE CASE Tok(i) = "TOK_LBRACKET" /\ Tok(j) = "TOK_RBRACKET" ->
                  {<<"array", s>> : s \in IF j = i + 1 THEN {<<>>}
                                          ELSE Items(i + 1, j - 1, depth - 1)}
           [] Tok(i) = "TOK_LBRACE" /\ Tok(j) = "TOK_RBRACE" ->
                  {<<"object", s>> : s \in IF j = i + 1 THEN {<<>>}
                                           ELSE Members(i + 1, j - 1, depth - 1)}
           [] OTHER -> {}

(* json_parse stops at the end of the value: the rest is only lexed.       *)
Meaning ==
    IF "TOK_ERROR" \in {Tok(i) : i \in DOMAIN source}
    THEN {}
    ELSE UNION {Denoted(1, j, JSON_MAX_NESTING) : j \in DOMAIN source}

(* A node holds a value, as its readers find it.  Of names that an object  *)
(* gives twice, or does not have, the code keeps no promise.               *)
Once(pairs, name) == Cardinality({i \in DOMAIN pairs : pairs[i][1] = name}) = 1
RECURSIVE Holds(_, _)
Holds(node, value) ==
    CASE value[1] = "object" ->
             /\ json_get_length(node) = Len(value[2])
             /\ \A i \in DOMAIN value[2] :
                    LET member == json_get_obj(node, value[2][i][1])
                    IN  Once(value[2], value[2][i][1]) =>
                            member \in DOMAIN nodes /\ Holds(member, value[2][i][2])
      [] value[1] = "array" ->
             /\ json_get_length(node) = Len(value[2])
             /\ \A i \in DOMAIN value[2] : Holds(json_get_array(node, i - 1), value[2][i])
      [] OTHER -> json_get_value(node) = value

(* A document is accepted exactly if it begins with a value by the grammar *)
(* of at most JSON_MAX_NESTING levels and has no lexical error anywhere,   *)
(* and then the tree holds that value: every member is found by its name,  *)
(* every element at its index (json_parse, json_get_obj, json_get_array).  *)
ParseIsExact ==
    pc = "done" =>
        /\ root # NULL <=> Meaning # {}
        /\ root # NULL => \A value \in Meaning : Holds(root, value)

RECURSIVE Depth(_), Distinct(_)
Parts(value) ==
    CASE value[1] = "object" -> {value[2][i][2] : i \in DOMAIN value[2]}
      [] value[1] = "array"  -> {value[2][i] : i \in DOMAIN value[2]}
      [] OTHER               -> {}
Depth(value) ==
    1 + (IF Parts(value) = {} THEN 0 ELSE Max({Depth(v) : v \in Parts(value)}))
Distinct(value) ==
    /\ value[1] = "object" => \A i \in DOMAIN value[2] : Once(value[2], value[2][i][1])
    /\ \A v \in Parts(value) : Distinct(v)

(* What json_stringify prints of a tree, json_parse reads back as the same *)
(* tree, if no name was put twice and the tree is not too deep.            *)
PrintsBack ==
    pc = "done" /\ built # Nothing /\ Distinct(built) /\ Depth(built) <= JSON_MAX_NESTING =>
        root # NULL /\ Holds(root, built)
=============================================================================
