--------------------------------- MODULE Json ---------------------------------
(***************************************************************************)
(* JSON trees, their printer and their parser (src/src/data/json/json.c    *)
(* and json_parse.c), over the vectors and dictionaries they are made of.  *)
(* One tree is built call by call as the handler of a status request does, *)
(* or none; the printed text, or a document from outside, is lexed, parsed *)
(* step by step, and destroyed.                                            *)
(*                                                                         *)
(* Text is a sequence of lexemes: blanks, the letters of a string and the  *)
(* digits of a number are left out.  Strings hold no quotes and no         *)
(* backslashes, numbers no fraction: the lexer reads one as an integer.    *)
(***************************************************************************)
EXTENDS Vector, Dict

CONSTANTS Documents,          (* what json_parse may be given from outside    *)
          JSON_MAX_NESTING,   (* 32 in the code                               *)
          MaxNodes,           (* bound of the model on the built tree         *)
          MaxTokens           (* the tokens that the arena has room for       *)

ASSUME JsonAssumption ==
    /\ \A document \in Documents : document \in Seq(Range(document))
    /\ JSON_MAX_NESTING \in Nat \ {0}
    /\ MaxNodes \in Nat \ {0}
    /\ MaxTokens \in Nat \ {0}

VARIABLES
    pc,         (* where the program is                                      *)
    nodes,      (* the JSON nodes of the arena: pointers are indices         *)
    root,       (* json->root                                                *)
    freed,      (* the objects whose tables dict_destroy has freed, in order *)
    lost,       (* the nodes that no pointer leads to any more               *)
    built,      (* what the printed tree says, unless a put was overwritten  *)
    source,     (* the document to parse                                     *)
    input,      (* what of it is not lexed                                   *)
    saved,      (* the arena of the parser has a mark to go back to          *)
    tok_list, tok_values, idx, val_idx, (* the ParsingInfo                   *)
    frames,     (* the calls of json_analyze_obj and json_analyze_array      *)
    ret         (* what the last call returned                               *)

heapVars == <<nodes, root, freed, lost>>
textVars == <<built, source, saved>>
lexVars == <<input, tok_list, tok_values>>
infoVars == <<idx, val_idx>>
vars == <<pc, heapVars, textVars, lexVars, infoVars, frames, ret>>

NULL == 0
Nothing == <<>>
Punctuation == {"TOK_LBRACE", "TOK_RBRACE", "TOK_LBRACKET", "TOK_RBRACKET", "TOK_COMMA",
                "TOK_COLON", "TOK_NULL", "TOK_ERROR", "TOK_EOF"}
token_has_value(tok) == tok \notin Punctuation

(* A value carries its kind; a lexeme is a token and its value.            *)
Mark(tok) == [tok |-> tok, val |-> Nothing]
Word(str) == [tok |-> "TOK_STRING", val |-> <<"string", str>>]
Number(i) == [tok |-> "TOK_INT", val |-> <<"int", i>>]
Boolean(b) == [tok |-> "TOK_BOOL", val |-> <<"bool", b>>]
Minus == [tok |-> "MINUS", val |-> <<"int", 0>>]

types(tok) ==
    CASE tok = "TOK_LBRACE"   -> "JSON_OBJECT"
      [] tok = "TOK_LBRACKET" -> "JSON_ARRAY"
      [] tok = "TOK_STRING"   -> "JSON_STRING"
      [] tok = "TOK_INT"      -> "JSON_INT"
      [] tok = "TOK_BOOL"     -> "JSON_BOOL"
      [] tok = "TOK_NULL"     -> "JSON_NULL"

Init ==
    /\ pc = "idle"
    /\ nodes = <<>> /\ root = NULL /\ freed = <<>> /\ lost = {}
    /\ built = Nothing /\ source = <<>> /\ saved = FALSE
    /\ input = <<>>
    /\ tok_list = vect_init_dynamic(16, "TOK_LBRACE") /\ tok_values = vect_init_dynamic(4, Nothing)
    /\ idx = 0 /\ val_idx = 0
    /\ frames = <<>> /\ ret = NULL
-----------------------------------------------------------------------------
(* json_node_create: the new node is the last one.  A string is not set    *)
(* (its base is NULL) until it is given a value.                           *)
Zero(type) ==
    CASE type = "JSON_OBJECT" -> dict_init
      [] type = "JSON_ARRAY"  -> vect_init_dynamic(4, NULL)
      [] type = "JSON_STRING" -> Nothing
      [] type = "JSON_BOOL"   -> <<"bool", FALSE>>
      [] type = "JSON_INT"    -> <<"int", 0>>
      [] type = "JSON_NULL"   -> <<"null">>
json_node_create(heap, type) == Append(heap, [type |-> type, data |-> Zero(type)])
New(heap) == Len(heap) + 1

json_node_putn(heap, obj, name, subnode) ==
    [heap EXCEPT ![obj].data = dict_put(@, name, subnode)]
json_node_addn(heap, array, element) == [heap EXCEPT ![array].data = vect_add(@, element)]

Children(heap, node) ==
    CASE heap[node].type = "JSON_OBJECT" ->
             LET mappings == dict_foreach(heap[node].data)
             IN  [i \in DOMAIN mappings |-> mappings[i].value]
      [] heap[node].type = "JSON_ARRAY" -> Elements(heap[node].data)
      [] OTHER -> <<>>

(* What a put of a name that is there already overwrites                   *)
Overwritten(heap, obj, put) == Range(Children(heap, obj)) \ Range(Children(put, obj))

(* json_node_destroy: the tables it frees, those of the children first     *)
json_node_destroy(heap, node) ==
    LET destroyed[n \in DOMAIN heap] ==
            LET children == Children(heap, n)
            IN  FlattenSeq([i \in DOMAIN children |-> destroyed[children[i]]])
                \o IF heap[n].type = "JSON_OBJECT" THEN <<n>> ELSE <<>>
    IN  destroyed[node]

(* For a name that an object does not have, the pointer that is returned   *)
(* was never set, unless the object is empty.                              *)
Unset == -1
json_get_obj(node, name) ==
    IF nodes[node].type # "JSON_OBJECT" \/ nodes[node].data.size = 0 THEN NULL
    ELSE IF Has(nodes[node].data, name) THEN dict_get(nodes[node].data, name)
    ELSE Unset
json_get_array(node, i) ==
    IF nodes[node].type = "JSON_ARRAY" /\ vect_has(nodes[node].data, i)
    THEN vect_get(nodes[node].data, i)
    ELSE NULL
json_get_length(node) ==
    IF nodes[node].type \in {"JSON_OBJECT", "JSON_ARRAY"} THEN nodes[node].data.size ELSE -1
json_get_value(node) == nodes[node].data
-----------------------------------------------------------------------------
(* The printer, with the texts of the children.  A comma follows all       *)
(* entries but the one whose number is one less than the size of the       *)
(* dictionary: the number of the puts.                                     *)
Comma(i, size) == IF i - 1 < size - 1 THEN <<Mark("TOK_COMMA")>> ELSE <<>>

json_array_stringify(text, node) ==
    LET size == json_get_length(node)
    IN  <<Mark("TOK_LBRACKET")>>
        \o FlattenSeq([i \in 1 .. size |->
                          text[json_get_array(node, i - 1)] \o Comma(i, size)])
        \o <<Mark("TOK_RBRACKET")>>

foreach_stringify_Seen(text, mappings, i, size) ==  (* Mutant: it counts from one. *)
    <<Word(mappings[i].key), Mark("TOK_COLON")>> \o text[mappings[i].value] \o Comma(i + 1, size)
foreach_stringify(text, mappings, i, size) ==
    <<Word(mappings[i].key), Mark("TOK_COLON")>> \o text[mappings[i].value] \o Comma(i, size)

json_object_stringify(text, node) ==
    LET data == nodes[node].data
        mappings == dict_foreach(data)
    IN  <<Mark("TOK_LBRACE")>>
        \o FlattenSeq([i \in DOMAIN mappings |-> foreach_stringify(text, mappings, i, data.size)])
        \o <<Mark("TOK_RBRACE")>>

json_simple_stringify(node) ==
    LET data == nodes[node].data
    IN  CASE nodes[node].type = "JSON_BOOL"   -> [tok |-> "TOK_BOOL", val |-> data]
          [] nodes[node].type = "JSON_INT"    -> [tok |-> "TOK_INT", val |-> data]
          [] nodes[node].type = "JSON_STRING" -> IF data = Nothing
                                                 THEN Word("")
                                                 ELSE [tok |-> "TOK_STRING", val |-> data]
          [] nodes[node].type = "JSON_NULL"   -> Mark("TOK_NULL")

json_node_stringify(node) ==
    LET text[n \in DOMAIN nodes] ==
            CASE nodes[n].type = "JSON_OBJECT" -> json_object_stringify(text, n)
              [] nodes[n].type = "JSON_ARRAY"  -> json_array_stringify(text, n)
              [] OTHER                         -> <<json_simple_stringify(n)>>
    IN  text[node]

(* What a tree says: an object is its names and values in their order.     *)
Says(node) ==
    LET said[n \in DOMAIN nodes] ==
            CASE nodes[n].type = "JSON_OBJECT" ->
                     LET mappings == dict_foreach(nodes[n].data)
                     IN  <<"object", [i \in DOMAIN mappings |->
                                         <<mappings[i].key, said[mappings[i].value]>>]>>
              [] nodes[n].type = "JSON_ARRAY" ->
                     <<"array", [i \in 1 .. json_get_length(n) |-> said[json_get_array(n, i - 1)]]>>
              [] nodes[n].type = "JSON_STRING" /\ nodes[n].data = Nothing -> <<"string", "">>
              [] OTHER -> nodes[n].data
    IN  said[node]
-----------------------------------------------------------------------------
(* Building a tree: json_create and json_set_root, then nodes put in an    *)
(* object or added to an array, of which the caller gives a value to the   *)
(* newest one.                                                             *)
Types == {"JSON_OBJECT", "JSON_ARRAY", "JSON_STRING", "JSON_INT"}

json_create ==
    /\ pc = "idle"
    /\ \E type \in Types : nodes' = json_node_create(<<>>, type)
    /\ root' = 1
    /\ pc' = "build"
    /\ UNCHANGED <<freed, lost, textVars, lexVars, infoVars, frames, ret>>

json_node_put ==
    /\ pc = "build" /\ Len(nodes) < MaxNodes
    /\ \E obj \in DOMAIN nodes, name \in Keys, type \in Types :
           /\ nodes[obj].type = "JSON_OBJECT"
           /\ nodes' = json_node_putn(json_node_create(nodes, type), obj, name, New(nodes))
           /\ lost' = lost \cup Overwritten(nodes, obj, nodes')
    /\ UNCHANGED <<pc, root, freed, textVars, lexVars, infoVars, frames, ret>>

json_node_add ==
    /\ pc = "build" /\ Len(nodes) < MaxNodes
    /\ \E array \in DOMAIN nodes, type \in Types :
           /\ nodes[array].type = "JSON_ARRAY"
           /\ nodes' = json_node_addn(json_node_create(nodes, type), array, New(nodes))
    /\ UNCHANGED <<pc, root, freed, lost, textVars, lexVars, infoVars, frames, ret>>

(* json_set_cstr does not change a string that is set.                     *)
json_set ==
    /\ pc = "build"
    /\ \/ /\ nodes[Len(nodes)].type = "JSON_STRING" /\ nodes[Len(nodes)].data = Nothing
          /\ nodes' = [nodes EXCEPT ![Len(nodes)].data = <<"string", CHOOSE k \in Keys : TRUE>>]
       \/ /\ nodes[Len(nodes)].type = "JSON_INT"
          /\ nodes' = [nodes EXCEPT ![Len(nodes)].data = <<"int", 1>>]
    /\ UNCHANGED <<pc, root, freed, lost, textVars, lexVars, infoVars, frames, ret>>

json_stringify ==
    /\ pc = "build"
    /\ source' = json_node_stringify(root)
    /\ built' = IF lost = {} THEN Says(root) ELSE Nothing
    /\ pc' = "printed"
    /\ UNCHANGED <<heapVars, saved, lexVars, infoVars, frames, ret>>

(* The owner destroys what it has printed, or what it was given.           *)
json_destroy ==
    /\ pc \in {"printed", "done"} /\ root # NULL
    /\ freed' = freed \o json_node_destroy(nodes, root)
    /\ root' = NULL
    /\ pc' = IF pc = "printed" THEN "sent" ELSE "over"
    /\ UNCHANGED <<nodes, lost, textVars, lexVars, infoVars, frames, ret>>
-----------------------------------------------------------------------------
(* json_parse of what was printed, or of a document.  That is read in an   *)
(* arena without a mark, or in the scratch arena of a connection, which is *)
(* saved while a packet is handled.                                        *)
json_parse ==
    /\ \/ pc = "idle" /\ source' \in Documents /\ saved' \in BOOLEAN
       \/ pc = "sent" /\ UNCHANGED <<source, saved>>
    /\ input' = source'
    /\ nodes' = <<>> /\ root' = NULL /\ freed' = <<>> /\ lost' = {}
    /\ pc' = "lex"
    /\ UNCHANGED <<built, tok_list, tok_values, infoVars, frames, ret>>

(* json_lex adds the token, and its value if it has one.                   *)
Lexes(tok, val) ==
    /\ tok_list' = vect_add(tok_list, tok)
    /\ tok_values' = IF token_has_value(tok) THEN vect_add(tok_values, val) ELSE tok_values
    /\ UNCHANGED <<heapVars, textVars, infoVars, frames, ret>>

IsNumber(lexeme) == lexeme.tok \in {"TOK_INT", "MINUS"}

lex_token ==
    /\ pc = "lex" /\ input # <<>> /\ vect_size(tok_list) < MaxTokens
    /\ ~IsNumber(Head(input))
    /\ Lexes(Head(input).tok, Head(input).val)
    /\ input' = Tail(input)
    /\ pc' = IF Head(input).tok = "TOK_ERROR" THEN "done" ELSE "lex"

(* A minus is where a number may start, but it is not read as one: the     *)
(* number is empty, and the minus stays.                                   *)
AfterNumber_Stuck(text) == text  (* Mutant: a number is only looked at. *)
AfterNumber(text) == IF Head(text).tok = "MINUS" THEN text ELSE Tail(text)
lex_number ==
    /\ pc = "lex" /\ input # <<>> /\ vect_size(tok_list) < MaxTokens
    /\ IsNumber(Head(input)) /\ ~saved
    /\ Lexes("TOK_INT", Head(input).val)
    /\ input' = AfterNumber(input)
    /\ UNCHANGED pc

(* lex_number restores the arena.  If it was saved, that frees the lists   *)
(* of tokens; what comes of it is not followed.                            *)
lex_number_restores ==
    /\ pc = "lex" /\ input # <<>> /\ vect_size(tok_list) < MaxTokens
    /\ IsNumber(Head(input)) /\ saved
    /\ pc' = "corrupted"
    /\ UNCHANGED <<heapVars, textVars, lexVars, infoVars, frames, ret>>

lex_end ==
    /\ pc = "lex" /\ input = <<>> /\ vect_size(tok_list) < MaxTokens
    /\ Lexes("TOK_EOF", Nothing)
    /\ pc' = "analyze"
    /\ UNCHANGED input

(* The arena is full: arena_allocate aborts the process.                   *)
lex_aborts ==
    /\ pc = "lex" /\ vect_size(tok_list) = MaxTokens
    /\ pc' = "aborted"
    /\ UNCHANGED <<heapVars, textVars, lexVars, infoVars, frames, ret>>
-----------------------------------------------------------------------------
Token(n) == vect_get(tok_list, idx + n)
pop(tokens, values) == idx' = idx + tokens /\ val_idx' = val_idx + values
pop_value == vect_get(tok_values, val_idx)

Top == frames[Len(frames)]
IsObject(frame) == nodes[frame.node].type = "JSON_OBJECT"
Closing(type) == IF type = "JSON_OBJECT" THEN "TOK_RBRACE" ELSE "TOK_RBRACKET"
Returns(node) == ret' = node /\ pc' = "return"

(* The caller destroys what it has made, and returns NULL.                 *)
Fails_Keep ==  (* Mutant: it does not. *)
    /\ freed' = freed
    /\ frames' = Front(frames)
    /\ Returns(NULL)
Fails ==
    /\ freed' = freed \o json_node_destroy(nodes, Top.node)
    /\ frames' = Front(frames)
    /\ Returns(NULL)

json_analyze_deep ==
    /\ pc = "analyze" /\ Len(frames) >= JSON_MAX_NESTING
    /\ Returns(NULL)
    /\ UNCHANGED <<heapVars, textVars, lexVars, infoVars, frames>>

Analyzes == pc = "analyze" /\ Len(frames) < JSON_MAX_NESTING

(* json_set_value fills the new node with the next value, if it takes one. *)
json_analyze_value ==
    /\ Analyzes /\ Token(0) \in {"TOK_STRING", "TOK_INT", "TOK_BOOL", "TOK_NULL"}
    /\ IF token_has_value(Token(0))
       THEN /\ nodes' = [json_node_create(nodes, types(Token(0)))
                             EXCEPT ![New(nodes)].data = pop_value]
            /\ pop(1, 1)
       ELSE /\ nodes' = json_node_create(nodes, types(Token(0)))
            /\ pop(1, 0)
    /\ Returns(New(nodes))
    /\ UNCHANGED <<root, freed, lost, textVars, lexVars, frames>>

json_analyze_empty ==
    /\ Analyzes /\ Token(0) \in {"TOK_LBRACE", "TOK_LBRACKET"}
    /\ Token(1) = Closing(types(Token(0)))
    /\ pop(2, 0)
    /\ nodes' = json_node_create(nodes, types(Token(0)))
    /\ Returns(New(nodes))
    /\ UNCHANGED <<root, freed, lost, textVars, lexVars, frames>>

json_analyze_open ==
    /\ Analyzes /\ Token(0) \in {"TOK_LBRACE", "TOK_LBRACKET"}
    /\ Token(1) # Closing(types(Token(0)))
    /\ pop(1, 0)
    /\ nodes' = json_node_create(nodes, types(Token(0)))
    /\ frames' = Append(frames, [node |-> New(nodes), key |-> Nothing])
    /\ pc' = IF Token(0) = "TOK_LBRACE" THEN "member" ELSE "analyze"
    /\ UNCHANGED <<root, freed, lost, textVars, lexVars, ret>>

json_analyze_unexpected ==
    /\ Analyzes
    /\ Token(0) \in {"TOK_RBRACE", "TOK_RBRACKET", "TOK_COMMA", "TOK_COLON", "TOK_EOF"}
    /\ pop(1, 0)
    /\ Returns(NULL)
    /\ UNCHANGED <<heapVars, textVars, lexVars, frames>>

(* The loop of json_analyze_obj: a name, a colon, and the value.           *)
json_analyze_name ==
    /\ pc = "member" /\ Token(0) = "TOK_STRING" /\ Token(1) = "TOK_COLON"
    /\ pop(2, 1)
    /\ frames' = [frames EXCEPT ![Len(frames)].key = pop_value[2]]
    /\ pc' = "analyze"
    /\ UNCHANGED <<heapVars, textVars, lexVars, ret>>

json_analyze_not_a_name ==
    /\ pc = "member" /\ Token(0) # "TOK_STRING"
    /\ pop(1, 0)
    /\ Fails
    /\ UNCHANGED <<nodes, root, lost, textVars, lexVars>>

(* Here the object is not destroyed.                                       *)
json_analyze_no_colon ==
    /\ pc = "member" /\ Token(0) = "TOK_STRING" /\ Token(1) # "TOK_COLON"
    /\ pop(2, 1)
    /\ frames' = Front(frames)
    /\ lost' = lost \cup {Top.node}
    /\ Returns(NULL)
    /\ UNCHANGED <<nodes, root, freed, textVars, lexVars>>

json_analyze_failed ==
    /\ pc = "return" /\ frames # <<>> /\ ret = NULL
    /\ Fails
    /\ UNCHANGED <<nodes, root, lost, textVars, lexVars, infoVars>>

(* A value was read: it goes to its object or array, and a comma, the end  *)
(* or an error follows.                                                    *)
Stored(heap) ==
    IF IsObject(Top)
    THEN json_node_putn(heap, Top.node, Top.key, ret)
    ELSE json_node_addn(heap, Top.node, ret)

json_analyze_next ==
    /\ pc = "return" /\ frames # <<>> /\ ret # NULL
    /\ nodes' = Stored(nodes)
    /\ lost' = lost \cup Overwritten(nodes, Top.node, nodes')
    /\ pop(1, 0)
    /\ UNCHANGED <<root, textVars, lexVars>>
    /\ \/ /\ Token(0) = "TOK_COMMA"
          /\ pc' = IF IsObject(Top) THEN "member" ELSE "analyze"
          /\ UNCHANGED <<freed, frames, ret>>
       \/ /\ Token(0) = Closing(nodes[Top.node].type)
          /\ frames' = Front(frames)
          /\ Returns(Top.node)
          /\ UNCHANGED freed
       \/ /\ Token(0) \notin {"TOK_COMMA", Closing(nodes[Top.node].type)}
          /\ freed' = freed \o json_node_destroy(nodes', Top.node)
          /\ frames' = Front(frames)
          /\ Returns(NULL)

(* json_parse sets the root, or destroys the tree that has none.           *)
json_set_root ==
    /\ pc = "return" /\ frames = <<>>
    /\ root' = ret
    /\ pc' = "done"
    /\ UNCHANGED <<nodes, freed, lost, textVars, lexVars, infoVars, frames, ret>>
-----------------------------------------------------------------------------
Building == json_create \/ json_node_put \/ json_node_add \/ json_set
Parsing ==
    \/ lex_token \/ lex_number \/ lex_number_restores \/ lex_end \/ lex_aborts
    \/ json_analyze_deep \/ json_analyze_value \/ json_analyze_empty \/ json_analyze_open
    \/ json_analyze_unexpected \/ json_analyze_name \/ json_analyze_not_a_name
    \/ json_analyze_no_colon \/ json_analyze_failed \/ json_analyze_next \/ json_set_root

Next == Building \/ json_stringify \/ json_destroy \/ json_parse \/ Parsing

(* A call that has begun goes on to its end.                               *)
Spec == Init /\ [][Next]_vars /\ WF_vars(Parsing)
-----------------------------------------------------------------------------
(* The tables of what is lost, which nothing can free any more             *)
Leaked == UNION {Range(json_node_destroy(nodes, n)) : n \in lost}

(* The table of every object is on the heap, and is freed at most once.    *)
(* When the tree is destroyed or the document rejected, all tables were    *)
(* freed, but for what was put under a name that was put again, and for    *)
(* the object whose name has no colon after it (json_node_destroy,         *)
(* json_analyze_obj and json_analyze_array, json_parse.c:313).             *)
NoDoubleFree == \A i, j \in DOMAIN freed : freed[i] = freed[j] => i = j
NoTableLeaks ==
    pc \in {"sent", "over"} \/ (pc = "done" /\ root = NULL) =>
        Range(freed) = {n \in DOMAIN nodes : nodes[n].type = "JSON_OBJECT"} \ Leaked
TablesFreedOnce == NoDoubleFree /\ NoTableLeaks

(* What of the document is in the lists                                    *)
Lexed == SubSeq(source, 1, Len(source) - Len(input))
Seen == IF vect_size(tok_list) > Len(Lexed) THEN Append(Lexed, Mark("TOK_EOF")) ELSE Lexed
(* How many of the first n of some lexemes have a value                    *)
Valued(lexemes, n) == Cardinality({i \in 1 .. n : token_has_value(lexemes[i].tok)})

(* The two lists hold the tokens of the document and the values of those   *)
(* that have one, the parser never reads behind TOK_EOF, and the value it  *)
(* takes next is that of the next token that has one, until it fails       *)
(* (json_lex, pop_token, pop_value, vect_add).                             *)
TokensInStep ==
    /\ pc \notin {"idle", "build", "printed", "sent"}
    /\ \A i \in DOMAIN source : source[i].tok # "MINUS"
    =>  /\ ~tok_list.spoiled /\ ~tok_values.spoiled
        /\ Elements(tok_list) = [i \in DOMAIN Seen |-> Seen[i].tok]
        /\ vect_size(tok_values) = Valued(Seen, Len(Seen))
        /\ \A i \in DOMAIN Seen :
               token_has_value(Seen[i].tok) =>
                   vect_get(tok_values, Valued(Seen, i) - 1) = Seen[i].val
        /\ idx <= Len(Seen)
        /\ pc \in {"lex", "analyze", "member"} \/ ret # NULL => val_idx = Valued(Seen, idx)

(* Lexing and parsing come to an end, whatever the document without a      *)
(* minus, in an arena that was not saved before: what follows the minus,   *)
(* and in a saved arena a number, is not modelled, and documents that reach*)
(* either are left out.                                                    *)
ParseEnds ==
    pc = "lex" /\ Minus \notin Range(source) /\ ~saved ~> pc = "done"
=============================================================================
