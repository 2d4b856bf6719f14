---------------------------- MODULE MCEmbedding ----------------------------
(***************************************************************************)
(* Programs of up to four types: a root R with two embeds and an own       *)
(* field, an A and a B that declare or embed in their turn, and a C at the *)
(* bottom that both can reach.                                             *)
(***************************************************************************)
EXTENDS Embedding

MCTypes == {"R", "A", "B", "C"}
MCNames == {"x", "y", "A", "B", "S", "C"}

\* One field, its deviations from the plainest one given by EXCEPT.
Field(go) == [go |-> go, kind |-> "field", of |-> Leaf, tag |-> None, name |-> None, exported |-> TRUE,
              ignored |-> FALSE, allOf |-> FALSE, omit |-> {}, required |-> "unset", override |-> FALSE]
Embed(T) == [Field(T) EXCEPT !.kind = "embed", !.of = T]
Scalar == [Field("S") EXCEPT !.kind = "scalar"]
X == [Field("X") EXCEPT !.tag = "x"]
Y == [Field("Y") EXCEPT !.tag = "x"]
Other == [Field("Z") EXCEPT !.tag = "y"]

Program(r, a, b, c, interfaces, models, specials, unread, omits, byDefault) ==
    [fields |-> [T \in Types |-> CASE T = "R" -> r [] T = "A" -> a [] T = "B" -> b [] OTHER -> c],
     interfaces |-> interfaces, models |-> models, specials |-> specials, typed |-> {},
     source |-> [T \in Types |-> IF T = "B" THEN unread ELSE "read"],
     omits |-> [T \in Types |-> IF T = "R" THEN omits ELSE {}], allOfByDefault |-> byDefault]

FirstEmbeds ==
    LET A == Embed("A")
    IN  {A, [A EXCEPT !.required = "yes"], [A EXCEPT !.allOf = TRUE], [A EXCEPT !.omit = {<<"X">>}],
         [A EXCEPT !.tag = "x"], [A EXCEPT !.omit = {<<"C", "X">>}, !.required = "no"]}
SecondEmbeds ==
    LET B == Embed("B")
    IN  {<<>>, <<B>>, <<[B EXCEPT !.allOf = TRUE]>>, <<[B EXCEPT !.required = "yes"]>>, <<[B EXCEPT !.ignored = TRUE]>>}
OwnFields == {<<>>, <<X>>, <<[Y EXCEPT !.required = "no"]>>, <<[Field("X") EXCEPT !.tag = "-"]>>,
              <<[X EXCEPT !.of = "C"]>>, <<[X EXCEPT !.override = TRUE]>>, <<[Other EXCEPT !.exported = FALSE]>>}
Middles(T) == {<<[X EXCEPT !.required = "yes"]>>, <<Embed("C")>>, <<[Embed("C") EXCEPT !.omit = {<<"X">>}], Y>>,
               <<[Embed("C") EXCEPT !.allOf = TRUE, !.required = "yes"], Other>>}
Bottoms == {<<X>>, <<Y, [Other EXCEPT !.required = "no"]>>}

Structs ==
    {Program(<<e>> \o f \o o, a, b, c, {}, {}, {}, "read", {}, FALSE) :
        e \in FirstEmbeds, f \in SecondEmbeds, o \in OwnFields, a \in Middles("A") \cup {<<[X EXCEPT !.of = "C"]>>, <<Scalar>>},
        b \in Middles("B"), c \in Bottoms}

\* The same by default composition, and with a declaration that omits, types missing or unread.
Variants ==
    {Program(<<e>> \o f \o o, a, <<X>>, c, {}, m, {}, u, w, d) :
        e \in FirstEmbeds, f \in SecondEmbeds, o \in {<<>>, <<X>>}, a \in {<<Embed("C")>>, <<Scalar>>, <<X, Other>>},
        c \in Bottoms, m \in {{}, {"A"}}, u \in {"read", "sourceless", "missing"},
        w \in {{}, {<<"X">>}, {<<"A", "X">>, <<"B", "Q">>}}, d \in BOOLEAN}

Interfaces ==
    {Program(r, a, b, <<Other>>, i, m, s, u, {}, FALSE) :
        r \in {<<e>> \o f \o o : e \in {Embed("A"), [Embed("A") EXCEPT !.allOf = TRUE], [Embed("A") EXCEPT !.ignored = TRUE]},
                               f \in SecondEmbeds, o \in {<<>>, <<X>>}},
        a \in {<<>>, <<Y>>, <<[Embed("C") EXCEPT !.allOf = TRUE], Y>>}, b \in {<<X>>, <<>>},
        i \in {{"R", "A", "B", "C"}, {"A", "B", "C"}}, m \in {{}, {"A"}}, s \in {{}, {"B"}, {"A", "B"}},
        u \in {"read", "sourceless", "missing"}}

MCPrograms == <<Structs, Variants, Interfaces>>
=============================================================================
