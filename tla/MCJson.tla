-------------------------------- MODULE MCJson --------------------------------
(***************************************************************************)
(* Documents and constants for the run of Json: all short sequences of     *)
(* lexemes, and some documents with every change of one lexeme.            *)
(***************************************************************************)
EXTENDS JsonMeaning

MCKeys == {"a", "b", "c"}
MCHash == [k \in MCKeys |-> CASE k = "a" -> 1 [] k = "b" -> 3 [] k = "c" -> 8]

LB == Mark("TOK_LBRACKET")
RB == Mark("TOK_RBRACKET")
LC == Mark("TOK_LBRACE")
RC == Mark("TOK_RBRACE")
Com == Mark("TOK_COMMA")
Col == Mark("TOK_COLON")
Nul == Mark("TOK_NULL")
Err == Mark("TOK_ERROR")
A == Word("a")
B == Word("b")
C == Word("c")
One == Number(1)

Alphabet == {LB, RB, LC, RC, Com, Col, Nul, Err, A, One, Minus}

(* An object of three members with an object and an array in it; nested    *)
(* arrays, one level too deep; an array of seven numbers, which is as long *)
(* as two growths of a vector; an object that gives its names again.       *)
Object == <<LC, A, Col, LC, B, Col, Boolean(TRUE), RC, Com, B, Col, LB, Nul, RB, Com,
            C, Col, One, RC>>
Deep == <<LB, LB, LC, A, Col, LB, RB, RC, RB, RB>>
Numbers == <<LB, One, Com, Number(2), Com, One, Com, Number(2), Com, One, Com, Number(2), Com, One,
             RB>>
Twice == <<LC, A, Col, LC, RC, Com, A, Col, LC, A, Col, LC, RC, RC, Com, A, Col, One, RC>>
Samples == {Object, Deep, Numbers, Twice}

Cut(s) == {SubSeq(s, 1, n) : n \in 0 .. Len(s)}
Without(s) == {RemoveAt(s, i) : i \in DOMAIN s}
Changed(s) == {[s EXCEPT ![i] = l] : i \in DOMAIN s, l \in Alphabet}
Longer(s) == {InsertAt(s, i, l) : i \in 1 .. Len(s) + 1, l \in Alphabet}

MCDocuments ==
    UNION {[1 .. n -> Alphabet] : n \in 0 .. 3}
    \cup UNION {Cut(s) \cup Without(s) \cup Changed(s) \cup Longer(s) : s \in Samples}
=============================================================================
