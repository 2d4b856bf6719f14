----------------------------- MODULE MCProvenance -----------------------------
(***************************************************************************)
(* Instances of Provenance: small programs that share names across packages *)
(* and kinds, with a pruned and an unpruned scan of each; and universes of  *)
(* types without fields, any of which may be pruned, so that the names of   *)
(* every subset are reduced.                                                *)
(***************************************************************************)
EXTENDS Provenance

\* The words ToGoName makes of a segment; a-b and a_b mangle alike.
Word(s) == CASE s = "a" -> "A" [] s = "b" -> "B" [] s = "x" -> "X" [] s = "y" -> "Y"
             [] s = "q" -> "Q" [] s = "a-b" -> "AB" [] s = "a_b" -> "AB"
             [] s = "ex" -> "Ex" [] s = "m" -> "M" [] s = "n" -> "N" [] OTHER -> s
mcGoName(k) == FoldLeft(LAMBDA acc, s : acc \o Word(s), "", k)
mcSuffixed(n, i) == n \o ToString(i)
\* Three words are too long, and two that end in the longest of the leaves.
mcOverBudget(k) == Len(k) > 2 \/ (Len(k) = 2 /\ k[2] = "Pet")
mcSegment == STRING

\* Flat names: the same leaf in several packages, at several depths, in two
\* packages that mangle alike, as a bare key of the caller's specification,
\* and a type that already has the name a concatenation would mint.
Bare == <<"Pet">>
FlatKeys == {
    <<"a-b", "Pet">>, <<"a", "Pet">>, <<"a", "b", "Pet">>, <<"a_b", "Pet">>,
    <<"q", "APet">>, <<"x", "APet">>, <<"x", "a", "Pet">>, <<"y", "BPet">> }

\* Nested names: containers shared by the types of one package and of two, one
\* path at several depths, and a type with the name of a container.
NestingKeys == {
    <<"ex", "a", "T">>, <<"ex", "m", "a", "T">>, <<"ex", "m", "a", "U">>,
    <<"ex", "m", "b", "U">>, <<"ex", "n", "a", "T">>, <<"ex", "n", "a", "U">>,
    <<"ex", "q", "m">>, <<"ex", "x", "AT">>, <<"q", "m", "a", "U">> }

\* Leaves, then keys, as their strings are sorted.
Sorted == <<
    <<"APet">>, <<"AT">>, <<"BPet">>, <<"Cat">>, <<"Dog">>, <<"Odd">>, Bare, <<"T">>, <<"U">>, <<"m">>,
    <<"a-b", "Pet">>, <<"a", "Cat">>, <<"a", "Odd">>, <<"a", "Pet">>, <<"a", "b", "Pet">>,
    <<"a_b", "Pet">>, <<"b", "Dog">>, <<"b", "Pet">>,
    <<"ex", "a", "T">>, <<"ex", "m", "a", "T">>, <<"ex", "m", "a", "U">>, <<"ex", "m", "b", "U">>,
    <<"ex", "n", "a", "T">>, <<"ex", "n", "a", "U">>, <<"ex", "q", "m">>, <<"ex", "x", "AT">>,
    <<"q", "APet">>, <<"q", "m", "a", "U">>, <<"x", "APet">>, <<"x", "a", "Pet">>, <<"y", "BPet">> >>
mcRank(k) == CHOOSE i \in DOMAIN Sorted : Sorted[i] = k
mcKey == {Bare} \union {k \in Range(Sorted) : Len(k) > 1}

Field(n) == [name |-> n, inner |-> {}, overridden |-> FALSE]
Struct(n) == [name |-> n, inner |-> {"i"}, overridden |-> FALSE]
Overridden(n) == [name |-> n, inner |-> {"i"}, overridden |-> TRUE]

Type(pkg, name, model, fields) ==
    [pkg |-> pkg, name |-> name, model |-> model, fields |-> fields]

\* The same name in two packages, and a type claiming the name of another.
APet == Type(<<"a">>, "Pet", "", <<Field("f"), Struct("g")>>)
BPet == Type(<<"b">>, "Pet", "", <<Field("f")>>)
Dog  == Type(<<"b">>, "Dog", "Pet", <<Field("g")>>)
Cat  == Type(<<"a">>, "Cat", "", <<Struct("f")>>)
\* An anonymous struct replaced by what swagger:type says.
Odd == Type(<<"a">>, "Odd", "", <<Overridden("f")>>)

\* The types of a universe of keys.
TypeOf(k) == Type(Front(k), Last(k), "", <<>>)
TypesOf(universe) == {TypeOf(k) : k \in universe}

mcDeclaration == {APet, BPet, Dog, Cat, Odd} \union TypesOf(FlatKeys \union NestingKeys)

Response(name, struct, headers) == [name |-> name, struct |-> struct, headers |-> headers]
Param(op, struct, name) == [op |-> op, struct |-> struct, name |-> name, skipped |-> FALSE]
SkippedParam(op, struct, name) ==
    [op |-> op, struct |-> struct, name |-> name, skipped |-> TRUE]
Annotation(kind, path, method, id, keywords, params) ==
    [kind |-> kind, path |-> path, method |-> method, id |-> id, keywords |-> keywords,
     params |-> params]

Program(models, pinned, resps, params, annotations, nested, pruning) ==
    [models |-> models, pinned |-> pinned, responses |-> resps, parameters |-> params,
     annotations |-> annotations, hierarchical |-> nested, pruning |-> pruning]

\* Two responses of one name; two structs that bind one parameter name to an
\* operation; a route and an operation on one path, of one operation id, with a
\* reference that dangles (a parameter without a name) ahead of the others.
Resps == <<Response("r", "R1", <<"h">>), Response("s", "S", <<>>), Response("r", "R2", <<"k">>)>>
Params == <<Param("op", "P1", "x"), Param("op", "P1", "y"), SkippedParam("op", "P1", "z"),
            Param("op", "P2", "x")>>
Annotations == <<
    Annotation("operation", "/p", "get", "op", <<>>, <<"", "v">>),
    Annotation("route", "/p", "post", "op", <<"consumes">>, <<"x", "", "w">>),
    Annotation("route", "/p", "get", "op", <<"produces">>, <<>>),
    Annotation("route", "/q", "get", "other", <<"consumes">>, <<"x">>) >>

ProgramsOf(models, nested) ==
    {Program(m, pinned, Resps, Params, Annotations, n, pruning) :
        m \in SUBSET models, pinned \in {{}, {<<"Pet">>}}, n \in nested, pruning \in BOOLEAN}

\* Every subset of a universe: what is pruned is any of it.
Reduced(universe, pinned, nested) == Program(TypesOf(universe), pinned, <<>>, <<>>, <<>>, nested, TRUE)

mcPrograms ==
    ProgramsOf({APet, BPet, Dog, Cat, Odd}, BOOLEAN)
    \union {Reduced(FlatKeys, {}, FALSE), Reduced(FlatKeys, {Bare}, FALSE), Reduced(NestingKeys, {}, TRUE)}
\* Nested definitions: their anchors dangle.
mcNesting == ProgramsOf({APet, BPet, Cat}, {TRUE})
=============================================================================
