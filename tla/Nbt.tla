---------------------------------- MODULE Nbt ----------------------------------
(***************************************************************************)
(* NBT trees (src/src/data/nbt): the calls that build a tree around its    *)
(* cursor (nbt.c), the writer and the reader of binary files (serial.c),   *)
(* and the writer of text (snbt.c), each tag by tag as their loops go.     *)
(*                                                                         *)
(* A tree is the sequence of its tags, each before its children, and what  *)
(* belongs to what is said by sizes alone.  The data of a tag is a union:  *)
(* its words w0, w1 and w2 are read under several names, and some code     *)
(* reads them under the wrong one.  A file is a sequence of fields with    *)
(* their kinds; reading a field as another kind is not followed.           *)
(***************************************************************************)
EXTENDS Vector

CONSTANTS Names,        (* of tags: not empty                                 *)
          Files,        (* what nbt_parse may be given from outside           *)
          MaxTags,      (* bound of the model on a tree that is built         *)
          MaxCursor,    (* bound of the model on the stack of its cursor      *)
          STACK_CAP     (* the room of each stack: 512 in the code            *)

ASSUME NbtAssumption ==
    /\ MaxTags \in Nat /\ STACK_CAP \in Nat \ {0} /\ MaxCursor \in 0 .. STACK_CAP
    /\ "" \notin Names

VARIABLES
    pc,
    tags,       (* nbt->tags                                                  *)
    stack,      (* nbt->stack: indices of tags, for the cursor                *)
    ordered,    (* tags were only added where the tree ended                  *)
    ctx,        (* the stack of the writer or reader: what is open            *)
    index,      (* the tag that is written                                    *)
    file,       (* what is written, or left to read                           *)
    given,      (* what the tree was read from                                *)
    cut         (* the end of the file was missing                            *)

treeVars == <<tags, stack, ordered>>
vars == <<pc, treeVars, ctx, index, file, given, cut>>

NBT_END == 0
NBT_BYTE == 1
NBT_INT == 3
NBT_BYTE_ARRAY == 7
NBT_STRING == 8
NBT_LIST == 9
NBT_COMPOUND == 10
NBT_INT_ARRAY == 11
NBT_LONG_ARRAY == 12
TagTypes == 0 .. 12
Arrays == {NBT_BYTE_ARRAY, NBT_INT_ARRAY, NBT_LONG_ARRAY}
ElementType(array) ==
    CASE array = NBT_BYTE_ARRAY -> NBT_BYTE [] array = NBT_INT_ARRAY -> NBT_INT [] OTHER -> 4
is_not_array(type) == type \notin Arrays \cup {NBT_LIST}

(* The words: a number or a string is w0, the length of an array too; a    *)
(* compound has its total length and its size, a list the type of its      *)
(* elements, its total length and its size.                                *)
Tag(type, name, w0, w1, w2) == [type |-> type, name |-> name, w0 |-> w0, w1 |-> w1, w2 |-> w2]
Zero(type) == IF type = NBT_STRING THEN "" ELSE 0

(* nbt_init_empty: the memory of the stack is as malloc gave it, zero or   *)
(* the index of no tag.                                                    *)
NoTag == -1
EmptyTags == vect_init_dynamic(2, Tag(NBT_END, "", 0, 0, 0))
EmptyStack(memory) == vect_init(STACK_CAP, memory)
Open(type, size, idx) == [type |-> type, size |-> size, idx |-> idx]
NoneOpen == vect_init(STACK_CAP, Open(NBT_END, 0, 0))

Init ==
    /\ pc = "idle"
    /\ tags = EmptyTags /\ stack = EmptyStack(0) /\ ordered = TRUE
    /\ ctx = NoneOpen /\ index = 0
    /\ file = <<>> /\ given = <<>> /\ cut = FALSE
-----------------------------------------------------------------------------
(* The cursor, get_current_tag: vect_peek reads behind the last element.   *)
Cursor == vect_peek(stack)
HasCurrent == vect_size(stack) > 0 /\ vect_has(tags, Cursor)
Current == vect_get(tags, Cursor)

get_total_length(tag) ==
    CASE tag.type = NBT_COMPOUND -> tag.w0
      [] tag.type = NBT_LIST     -> tag.w1
      [] tag.type \in Arrays     -> 1 + tag.w0
      [] OTHER                   -> 1

nbt_create ==
    /\ pc = "idle"
    /\ \E memory \in {0, NoTag} : stack' = vect_add(EmptyStack(memory), 0)
    /\ tags' = vect_reserve(EmptyTags, Tag(NBT_COMPOUND, "", 1, 0, 0))
    /\ pc' = "ready"
    /\ UNCHANGED <<ordered, ctx, index, file, given, cut>>

(* How far the subtree of a tag reaches, by the sizes; the length of an   *)
(* array is one word to some, and another to others.                       *)
Size(tag, word) ==
    CASE tag.type = NBT_COMPOUND -> tag.w1
      [] tag.type = NBT_LIST     -> tag.w2
      [] tag.type \in Arrays     -> tag[word]
      [] OTHER                   -> 0
RECURSIVE Skip(_, _, _)
Skip(i, n, word) ==
    IF n = 0 \/ ~vect_has(tags, i)
    THEN i
    ELSE Skip(Skip(i + 1, Size(vect_get(tags, i), word), word), n - 1, word)

Builds == pc = "ready" /\ HasCurrent
Fits == vect_size(tags) < MaxTags

(* The new tag goes to the end of all, the current tag counts it.          *)
Adds(tag, current) ==
    /\ tags' = vect_add(vect_set(tags, Cursor, current), tag)
    /\ ordered' = (ordered /\ Skip(Cursor, 1, "w2") = vect_size(tags))

Unmoved == UNCHANGED <<pc, stack, ctx, index, file, given, cut>>
Counted(compound) == [compound EXCEPT !.w1 = @ + 1]

nbt_put_simple ==
    /\ Builds /\ Fits /\ Current.type = NBT_COMPOUND
    /\ \E name \in Names : Adds(Tag(NBT_INT, name, 1, 0, 0), Counted(Current))
    /\ Unmoved

(* The new tag has the type that the total length of the compound says, if *)
(* it is taken for a list.                                                 *)
nbt_put_str ==
    /\ Builds /\ Fits /\ Current.type = NBT_COMPOUND
    /\ \E name \in Names : Adds(Tag(Current.w0, name, "text", 0, 0), Counted(Current))
    /\ Unmoved

nbt_put ==
    /\ Builds /\ Fits /\ Current.type = NBT_COMPOUND
    /\ \E name \in Names, type \in {NBT_COMPOUND, NBT_LIST, NBT_BYTE_ARRAY} :
           Adds(CASE type = NBT_COMPOUND -> Tag(type, name, 1, 0, 0)
                  [] type = NBT_LIST     -> Tag(type, name, NBT_END, 1, 0)
                  [] OTHER               -> Tag(type, name, Zero(type), 0, 0),
                Counted(Current))
    /\ Unmoved

(* A list takes the type of its first element.                             *)
Takes(list, type) == list.type = NBT_LIST /\ list.w0 \in {NBT_END, type}
Pushed(list, type) == [list EXCEPT !.w0 = type, !.w2 = @ + 1]

(* increment_parent_total_lengths goes through the stack, where all tags   *)
(* must be compounds or lists.                                             *)
Entries == Elements(stack)
CanIncrement == \A i \in DOMAIN Entries :
                    vect_has(tags, Entries[i])
                        /\ vect_get(tags, Entries[i]).type \in {NBT_COMPOUND, NBT_LIST}
increment_parent_total_lengths(v) ==
    FoldSeq(LAMBDA idx, w :
                LET tag == vect_get(w, idx)
                IN  vect_set(w, idx, IF tag.type = NBT_COMPOUND
                                     THEN [tag EXCEPT !.w0 = @ + 1]
                                     ELSE [tag EXCEPT !.w1 = @ + 1]),
            v, Entries)

(* For an array the new tag has the type that the length of the array      *)
(* says, and the length is not what is increased.                          *)
PushesSimple(type) ==
    LET list == IF Current.type = NBT_LIST
                THEN Pushed(Current, type)
                ELSE [Current EXCEPT !.w2 = @ + 1]
    IN  /\ Takes(Current, type) \/ (Current.type \in Arrays /\ type = ElementType(Current.type))
        /\ ordered' = (ordered /\ Skip(Cursor, 1, "w2") = vect_size(tags))
        /\ IF CanIncrement
           THEN /\ tags' = increment_parent_total_lengths(
                               vect_add(vect_set(tags, Cursor, list), Tag(list.w0, "", 1, 0, 0)))
                /\ UNCHANGED pc
           ELSE /\ pc' = "crashed"
                /\ UNCHANGED tags

nbt_push_simple ==
    /\ Builds /\ Fits
    /\ \E type \in {NBT_INT, NBT_BYTE} : PushesSimple(type)
    /\ UNCHANGED <<stack, ctx, index, file, given, cut>>

nbt_push_str ==
    /\ Builds /\ Fits /\ Takes(Current, NBT_STRING)
    /\ Adds(Tag(NBT_STRING, "", "text", 0, 0), Pushed(Current, NBT_STRING))
    /\ Unmoved

nbt_push ==
    /\ Builds /\ Fits
    /\ \E type \in {NBT_COMPOUND, NBT_LIST} :
           /\ Takes(Current, type)
           /\ Adds(Tag(type, "", 0, 0, 0), Pushed(Current, type))
    /\ Unmoved

(* nbt_set_byte to nbt_set_double                                          *)
nbt_set ==
    /\ Builds /\ Current.type \in 1 .. 6
    /\ tags' = vect_set(tags, Cursor, [Current EXCEPT !.w0 = 2])
    /\ UNCHANGED ordered
    /\ Unmoved
-----------------------------------------------------------------------------
CanMove == vect_size(stack) < MaxCursor
Moves(idx) ==
    /\ stack' = vect_add(stack, idx)
    /\ UNCHANGED <<pc, tags, ordered, ctx, index, file, given, cut>>

(* The children are passed by their total lengths, as many of them as the  *)
(* total length of the compound; behind the last tag the program crashes.  *)
Crash == -2
RECURSIVE Find(_, _, _)
Find(name, idx, n) ==
    IF n = 0 THEN NoTag
    ELSE IF ~vect_has(tags, idx) THEN Crash
    ELSE IF vect_get(tags, idx).name = name THEN idx
    ELSE Find(name, idx + get_total_length(vect_get(tags, idx)), n - 1)

nbt_move_to_name ==
    /\ Builds /\ Current.type = NBT_COMPOUND /\ CanMove
    /\ \E name \in Names :
           /\ Find(name, Cursor + 1, Current.w0) \notin {NoTag, Crash}
           /\ Moves(Find(name, Cursor + 1, Current.w0))

(* The elements are counted from the list itself.                          *)
RECURSIVE Nth(_, _)
Nth(idx, n) ==
    IF n = 0 THEN idx
    ELSE IF ~vect_has(tags, idx) THEN Crash
    ELSE Nth(idx + get_total_length(vect_get(tags, idx)), n - 1)

nbt_move_to_index ==
    /\ Builds /\ Current.type = NBT_LIST /\ CanMove
    /\ \E n \in 0 .. Current.w2 - 1 :
           Nth(Cursor, n) # Crash /\ Moves(Nth(Cursor, n))

nbt_move_to_parent ==
    /\ pc = "ready" /\ vect_size(stack) > 0
    /\ stack' = vect_pop(stack)
    /\ UNCHANGED <<pc, tags, ordered, ctx, index, file, given, cut>>

nbt_move_to_next_sibling ==
    /\ Builds
    /\ stack' = vect_add(vect_pop(stack), Cursor + get_total_length(Current))
    /\ UNCHANGED <<pc, tags, ordered, ctx, index, file, given, cut>>

(* All calls but nbt_move_to_parent use the current tag without asking     *)
(* whether there is one; nbt_move_to_prev_sibling aborts.                  *)
Crashes ==
    /\ pc = "ready"
    /\ \/ ~HasCurrent
       \/ /\ HasCurrent /\ Current.type = NBT_COMPOUND
          /\ \E name \in Names : Find(name, Cursor + 1, Current.w0) = Crash
       \/ /\ HasCurrent /\ Current.type = NBT_LIST
          /\ \E n \in 0 .. Current.w2 - 1 : Nth(Cursor, n) = Crash
    /\ pc' = "crashed"
    /\ UNCHANGED <<treeVars, ctx, index, file, given, cut>>

Building ==
    \/ nbt_create \/ nbt_put_simple \/ nbt_put_str \/ nbt_put
    \/ nbt_push_simple \/ nbt_push_str \/ nbt_push \/ nbt_set
    \/ nbt_move_to_name \/ nbt_move_to_index \/ nbt_move_to_parent \/ nbt_move_to_next_sibling
    \/ Crashes
-----------------------------------------------------------------------------
HasParent(c) == vect_size(c) > 0
Parent(c) == vect_get(c, vect_size(c) - 1)
WithParent(c, meta) == vect_set(c, vect_size(c) - 1, meta)
(* The children of what is on top have names, or nothing is open.          *)
Named(c) == ~HasParent(c) \/ is_not_array(Parent(c).type)
Entered(c) == IF HasParent(c)
              THEN WithParent(c, [Parent(c) EXCEPT !.size = @ - 1])
              ELSE c

Header(tag, c) == IF Named(c) THEN <<<<"type", tag.type>>, <<"name", tag.name>>>> ELSE <<>>

(* nbt_write_tag: write_array takes the word w2 for the length.            *)
Body(tag) ==
    CASE tag.type \in 1 .. 6 \cup {NBT_STRING} -> <<<<"value", tag.w0>>>>
      [] tag.type = NBT_LIST                   -> <<<<"elem", tag.w0>>, <<"length", tag.w2>>>>
      [] tag.type \in Arrays                   -> <<<<"count", tag.w2>>>>
      [] OTHER                                 -> <<>>

(* The loop of nbt_write after a tag: what is complete is popped, and a    *)
(* compound is closed by a tag NBT_END.                                    *)
RECURSIVE Completed(_)
Completed_Once(c) ==  (* Mutant: only one is popped. *)
    IF HasParent(c) /\ Parent(c).size = 0
    THEN <<vect_pop(c), <<Parent(c).type>>>>
    ELSE <<c, <<>>>>
Completed(c) ==
    IF HasParent(c) /\ Parent(c).size = 0
    THEN LET rest == Completed(vect_pop(c)) IN <<rest[1], <<Parent(c).type>> \o rest[2]>>
    ELSE <<c, <<>>>>

Nests(tag) == tag.type \in {NBT_COMPOUND, NBT_LIST} \cup Arrays

(* The stacks are static vectors.  The writer of files drops what it has   *)
(* no room for (vect_add); the reader and the writer of text take it from  *)
(* vect_reserve, and write through the NULL that they get.                 *)
HasRoom(c) == CanHold(c, vect_size(c) + 1)
Opens(c, tag, size) ==
    IF Nests(tag)
    THEN vect_add(c, Open(tag.type, size, index))
    ELSE c

(* A writer does not look at the cursor, and the model does not move it    *)
(* any more: it is forgotten, so that trees that differ in nothing else    *)
(* are written once.                                                       *)
Starts(next) ==
    /\ pc = "ready"
    /\ file' = <<>> /\ ctx' = NoneOpen /\ index' = 0
    /\ stack' = EmptyStack(0)
    /\ pc' = next
    /\ UNCHANGED <<tags, ordered, given, cut>>

nbt_write == Starts("write")
nbt_write_tag ==
    /\ pc = "write" /\ index < vect_size(tags)
    /\ LET tag == vect_get(tags, index)
           done == Completed(Opens(Entered(ctx), tag, Size(tag, "w2")))
           compounds == SelectSeq(done[2], LAMBDA type : type = NBT_COMPOUND)
       IN  /\ file' = file \o Header(tag, ctx) \o Body(tag)
                           \o [i \in DOMAIN compounds |-> <<"type", NBT_END>>]
           /\ ctx' = done[1]
    /\ index' = index + 1
    /\ UNCHANGED <<pc, treeVars, given, cut>>

Ends(from, next) ==
    /\ pc = from /\ index = vect_size(tags)
    /\ pc' = next
    /\ UNCHANGED <<treeVars, ctx, index, file, given, cut>>
nbt_write_end == Ends("write", "written")
-----------------------------------------------------------------------------
(* nbt_write_snbt: here the length of an array is w0.  The first child has *)
(* no comma before it: nothing is counted off the size of its parent yet.  *)
get_tag_size_Total(tag) ==  (* Mutant: the total length is taken for the size. *)
    CASE tag.type = NBT_COMPOUND -> tag.w1
      [] tag.type = NBT_LIST     -> tag.w1
      [] tag.type \in Arrays     -> tag.w0
      [] OTHER                   -> 0
get_tag_size(tag) ==
    CASE tag.type = NBT_COMPOUND -> tag.w1
      [] tag.type = NBT_LIST     -> tag.w2
      [] tag.type = NBT_STRING   -> 4
      [] tag.type \in Arrays     -> tag.w0
      [] OTHER                   -> 0

Bracket(type) == CASE type = NBT_COMPOUND    -> <<"{">>
                   [] type = NBT_LIST        -> <<"[">>
                   [] type = NBT_BYTE_ARRAY  -> <<"[B;">>
                   [] type = NBT_INT_ARRAY   -> <<"[I;">>
                   [] type = NBT_LONG_ARRAY  -> <<"[L;">>
                   [] OTHER                  -> <<>>
Unbracket(type) == IF type = NBT_COMPOUND THEN <<"}">> ELSE <<"]">>

SnbtTag(tag) ==
    IF tag.type \in 1 .. 6 \cup {NBT_STRING} THEN <<<<"value", tag.w0>>>>
    ELSE IF tag.type = NBT_END THEN <<>>
    ELSE <<Bracket(tag.type)>>

nbt_write_snbt == Starts("snbt")
write_snbt_tag ==
    /\ pc = "snbt" /\ index < vect_size(tags)
    /\ Nests(vect_get(tags, index)) => HasRoom(ctx)
    /\ LET tag == vect_get(tags, index)
           comma == IF HasParent(ctx)
                        /\ Parent(ctx).size < get_tag_size(vect_get(tags, Parent(ctx).idx))
                    THEN <<<<",">>>> ELSE <<>>
           key == IF HasParent(ctx) /\ is_not_array(Parent(ctx).type)
                  THEN <<<<"key", tag.name>>>> ELSE <<>>
           done == Completed(Opens(Entered(ctx), tag, get_tag_size(tag)))
       IN  /\ file' = file \o comma \o key \o SnbtTag(tag)
                           \o [i \in DOMAIN done[2] |-> Unbracket(done[2][i])]
           /\ ctx' = done[1]
    /\ index' = index + 1
    /\ UNCHANGED <<pc, treeVars, given, cut>>
write_snbt_too_deep ==
    /\ pc = "snbt" /\ index < vect_size(tags)
    /\ Nests(vect_get(tags, index)) /\ ~HasRoom(ctx)
    /\ pc' = "crashed"
    /\ UNCHANGED <<treeVars, ctx, index, file, given, cut>>
nbt_write_snbt_end == Ends("snbt", "printed")
-----------------------------------------------------------------------------
(* nbt_parse, into an empty tree, of a file or of the first part of one,   *)
(* or of what was built and written.                                       *)
nbt_parse ==
    /\ \/ /\ pc = "idle" /\ given' \in Files
          /\ \E n \in 0 .. Len(given') :
                 /\ file' = SubSeq(given', 1, n)
                 /\ cut' = (n < Len(given'))
       \/ /\ pc = "written" /\ given = <<>>
          /\ given' = file
          /\ UNCHANGED <<file, cut>>
    /\ tags' = EmptyTags /\ stack' = EmptyStack(0)
    /\ ctx' = NoneOpen
    /\ pc' = "read"
    /\ UNCHANGED <<ordered, index>>

(* parse_type reads the type, or takes it from the list or array.          *)
parse_type ==
    IF Named(ctx)
    THEN IF file = <<>> \/ Head(file)[1] # "type" THEN NBT_END ELSE Head(file)[2]
    ELSE IF Parent(ctx).type = NBT_LIST THEN vect_get(tags, Parent(ctx).idx).w0
    ELSE ElementType(Parent(ctx).type)

(* What parse_array returns: how many elements follow                      *)
Elems(tag) ==
    CASE tag.type = NBT_LIST   -> tag.w2
      [] tag.type \in Arrays   -> tag.w0
      [] OTHER                 -> 0

(* The fields that parse_type and nbt_parse_tag read                       *)
Fields(type) ==
    (IF ~Named(ctx) THEN <<>> ELSE IF type = NBT_END THEN <<"type">> ELSE <<"type", "name">>)
    \o CASE type \in 1 .. 6 \cup {NBT_STRING} -> <<"value">>
         [] type = NBT_LIST                   -> <<"elem", "length">>
         [] type \in Arrays                   -> <<"count">>
         [] OTHER                             -> <<>>

Kinds(s) == [i \in DOMAIN s |-> s[i][1]]
Begin(s, n) == SubSeq(s, 1, IF n < Len(s) THEN n ELSE Len(s))

(* The fields are there; some are missing; or others are there.            *)
Complete(type) == Len(file) >= Len(Fields(type)) /\ IsPrefix(Fields(type), Kinds(file))
Truncated(type) == Len(file) < Len(Fields(type)) /\ IsPrefix(Kinds(file), Fields(type))

ParsedTag(type) ==
    LET read == Begin(file, Len(Fields(type)))
        Field(kind) == (CHOOSE i \in DOMAIN read : read[i][1] = kind)
        name == IF Named(ctx) THEN read[Field("name")][2] ELSE ""
    IN  CASE type \in 1 .. 6 \cup {NBT_STRING} ->
                 Tag(type, name, read[Field("value")][2], 0, 0)
          [] type = NBT_LIST ->
                 Tag(type, name, read[Field("elem")][2], 0, read[Field("length")][2])
          [] type \in Arrays -> Tag(type, name, read[Field("count")][2], 0, 0)
          [] OTHER -> Tag(type, name, 0, 0, 0)

(* parse_array opens what has elements, and a compound is opened in any    *)
(* case: its size is counted.                                              *)
IsOpened(tag) == tag.type = NBT_COMPOUND \/ Elems(tag) > 0
Opened(tag) ==
    IF IsOpened(tag) THEN vect_add(ctx, Open(tag.type, Elems(tag), vect_size(tags))) ELSE ctx

ParentIndex(c, type) ==
    LET top == vect_size(c) - 1
    IN  IF HasParent(c) /\ Parent(c).type = type THEN top - 1 ELSE top

CountInParent(c, type) ==
    LET i == ParentIndex(c, type)
    IN  IF i < 0 \/ type = NBT_END THEN c
        ELSE vect_set(c, i, IF vect_get(c, i).type = NBT_COMPOUND
                            THEN [vect_get(c, i) EXCEPT !.size = @ + 1]
                            ELSE [vect_get(c, i) EXCEPT !.size = @ - 1])

IncreaseTotals(c, type, v) ==
    IF ParentIndex(c, type) < 0 THEN v
    ELSE FoldSeq(LAMBDA meta, w :
                     LET tag == vect_get(w, meta.idx)
                     IN  vect_set(w, meta.idx,
                                  CASE meta.type = NBT_COMPOUND -> [tag EXCEPT !.w0 = @ + 1]
                                    [] meta.type = NBT_LIST     -> [tag EXCEPT !.w1 = @ + 1]
                                    [] OTHER                    -> tag),
                 v, Elements(c))

(* prune_parsing_stack pops the lists and arrays that are complete.        *)
RECURSIVE prune_parsing_stack(_)
prune_parsing_stack(c) ==
    IF HasParent(c) /\ Parent(c).size <= 0 /\ ~is_not_array(Parent(c).type)
    THEN prune_parsing_stack(vect_pop(c))
    ELSE c

Reads(c, v, type) ==
    /\ ctx' = prune_parsing_stack(CountInParent(c, type))
    /\ tags' = IncreaseTotals(c, type, v)
    /\ pc' = IF HasParent(ctx') THEN "read" ELSE "ready"
    /\ file' = SubSeq(file, Len(Fields(type)) + 1, Len(file))
    /\ UNCHANGED <<stack, ordered, index, given, cut>>

nbt_parse_tag ==
    /\ pc = "read" /\ parse_type # NBT_END /\ Complete(parse_type)
    /\ LET tag == ParsedTag(parse_type)
       IN  /\ IsOpened(tag) => HasRoom(ctx)
           /\ Reads(Opened(tag), vect_add(tags, tag), parse_type)

(* A compound ends: its size is what was counted.                          *)
nbt_parse_tag_end ==
    /\ pc = "read" /\ parse_type = NBT_END /\ Complete(NBT_END)
    /\ HasParent(ctx) /\ Parent(ctx).type = NBT_COMPOUND
    /\ Reads(vect_pop(ctx),
             vect_set(tags, Parent(ctx).idx,
                      [vect_get(tags, Parent(ctx).idx) EXCEPT !.w1 = Parent(ctx).size]),
             NBT_END)

Rejects_Lenient == pc' = IF Named(ctx) THEN "rejected" ELSE "ready"  (* Mutant: short lists. *)
Rejects == pc' = "rejected"

nbt_parse_rejects ==
    /\ pc = "read"
    /\ \/ Truncated(parse_type)
       \/ /\ parse_type = NBT_END /\ Complete(NBT_END)
          /\ ~(HasParent(ctx) /\ Parent(ctx).type = NBT_COMPOUND)
    /\ Rejects
    /\ UNCHANGED <<treeVars, ctx, index, file, given, cut>>

(* The tag that is read would be opened, and vect_reserve returns NULL.    *)
nbt_parse_too_deep ==
    /\ pc = "read" /\ parse_type # NBT_END /\ Complete(parse_type)
    /\ IsOpened(ParsedTag(parse_type)) /\ ~HasRoom(ctx)
    /\ pc' = "crashed"
    /\ UNCHANGED <<treeVars, ctx, index, file, given, cut>>

nbt_parse_garbled ==
    /\ pc = "read" /\ ~Complete(parse_type) /\ ~Truncated(parse_type)
    /\ pc' = "garbled"
    /\ UNCHANGED <<treeVars, ctx, index, file, given, cut>>
-----------------------------------------------------------------------------
Writing ==
    \/ nbt_write_tag \/ nbt_write_end
    \/ write_snbt_tag \/ write_snbt_too_deep \/ nbt_write_snbt_end
Reading ==
    \/ nbt_parse_tag \/ nbt_parse_tag_end \/ nbt_parse_too_deep
    \/ nbt_parse_rejects \/ nbt_parse_garbled

Next == Building \/ nbt_write \/ nbt_write_snbt \/ nbt_parse \/ Writing \/ Reading

Spec == Init /\ [][Next]_vars
-----------------------------------------------------------------------------
(* What tag i and all it holds are written as, by recursion: the tag, its  *)
(* children one after the other, and the end of a compound.                *)
Children(i, word) ==
    [k \in 1 .. Size(vect_get(tags, i), word) |-> Skip(i + 1, k - 1, word)]
RECURSIVE Encoding(_, _)
Encoding(i, named) ==
    LET tag == vect_get(tags, i)
    IN  (IF named THEN <<<<"type", tag.type>>, <<"name", tag.name>>>> ELSE <<>>)
        \o Body(tag)
        \o FlattenSeq([k \in DOMAIN Children(i, "w2") |->
                          Encoding(Children(i, "w2")[k], is_not_array(tag.type))])
        \o IF tag.type = NBT_COMPOUND THEN <<<<"type", NBT_END>>>> ELSE <<>>

(* However a tree was built, and wherever its cursor was, nbt_write writes *)
(* every tag once and in its place and ends every compound: the loop with  *)
(* its stack of sizes writes what the recursive definition says.  Its      *)
(* place is the one that the sizes give it: a tag that was put while the   *)
(* cursor was not on the tag that ends the tree is in another tag than     *)
(* nbt.h:276 says, for both.  Of trees that fit the stack.                 *)
WritesTheTree ==
    pc = "written" /\ given = <<>> =>
        /\ file = Encoding(0, TRUE)
        /\ Skip(0, 1, "w2") = vect_size(tags)
        /\ ~HasParent(ctx)

(* A file that the code reads right: no element in an array, no empty list *)
(* in a list, no named tag NBT_END.                                        *)
Regular(s) ==
    \A i \in DOMAIN s :
        /\ s[i][1] = "count" => s[i][2] = 0
        /\ s[i] = <<"length", 0>> => i > 2 /\ s[i - 2][1] = "name"
        /\ s[i] = <<"type", NBT_END>> => i = Len(s) \/ s[i + 1][1] # "name"


(* The text of tag i and all it holds, by recursion                        *)
RECURSIVE Text(_)
Text(i) ==
    LET tag == vect_get(tags, i)
        children == Children(i, "w0")
        Key(k) == IF tag.type = NBT_COMPOUND
                  THEN <<<<"key", vect_get(tags, children[k]).name>>>> ELSE <<>>
        Comma(k) == IF k > 1 THEN <<<<",">>>> ELSE <<>>
    IN  SnbtTag(tag)
        \o FlattenSeq([k \in DOMAIN children |-> Comma(k) \o Key(k) \o Text(children[k])])
        \o IF Bracket(tag.type) = <<>> THEN <<>> ELSE <<Unbracket(tag.type)>>

(* nbt_write_snbt writes every tag in its place, with the commas between   *)
(* the children and the brackets around them, whatever the tree, if no     *)
(* element was pushed to an array; arrays that were read are as good as    *)
(* lists here.  Its place is the one that the sizes give it, as above.     *)
SnbtSaysTheTree ==
    pc = "printed" /\ (\A i \in 0 .. vect_size(tags) - 1 :
                          vect_get(tags, i).type \in Arrays => vect_get(tags, i).w2 = 0) =>
        file = Text(0)

(* nbt_parse never takes the first part of such a file for a whole one.    *)
CutsAreNoticed ==
    Regular(given) /\ ordered /\ cut => pc \in {"read", "rejected", "crashed"}
=============================================================================
