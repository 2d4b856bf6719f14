--------------------------- MODULE MCCommentGrammar ----------------------------
(* Small comments for CommentGrammar, Classification and RouteBody.            *)
EXTENDS RouteBody, TLC

L(shape) == [BlankLine EXCEPT !.shapes = {shape}]
Annotation(name, words) == [L("annotation") EXCEPT !.name = name, !.words = words]
Kw(name, value) == [L("keyword") EXCEPT !.name = name, !.value = value]
Nested(l) == [l EXCEPT !.indent = 2]
Prose0 == [BlankLine EXCEPT !.shapes = {}]
Entry(e) == [Prose0 EXCEPT !.entry = e]

Fence       == L("fence")
Sentence    == [Prose0 EXCEPT !.ends = "punctuation"]
Marker      == [Prose0 EXCEPT !.shapes = {"marker"}]
Directive   == [Kw("maximum", "5") EXCEPT !.shapes = {"directive", "keyword"}]
Model       == Annotation("model", <<>>)
Strfmt      == Annotation("strfmt", <<"uuid">>)
Enum        == Annotation("enum", <<"Colour", "[red]">>)
Route       == Annotation("route", <<"GET", "/pets", "pets", "listPets">>)
Parameters  == Annotation("parameters", <<"*", "a", "a">>)
Description == Annotation("description", <<"about">>)
Literal     == Annotation("description", <<"|">>)
Unheard     == Annotation("unheardOf", <<>>)

\* Lines that matter to each other: what opens, ends or nests bodies.
Common == {BlankLine, Fence, Prose0, Sentence, Model, Literal,
           Kw("extensions", ""), Kw("tags", ""), Kw("enum", ""),
           Kw("maximum", "5"), Nested(Kw("externalDocs", ""))}
Rare   == {Marker, Directive, Description, Strfmt, Enum, Route, Parameters, Unheard,
           Entry("extension"), Entry("other"), Entry("malformed"),
           Kw("maximum", "many"), Kw("in", "query"), Kw("enum", "red"), Kw("security", "")}

\* Markers as the scanner looks for them.
Said(name) == [Prose0 EXCEPT !.mention = name]
Marks  == {Annotation("model", <<"Pet">>), Annotation("model", <<"a.Pet">>), Annotation("response", <<"*">>),
           Annotation("response", <<"not", "found">>), Annotation("parameters", <<>>),
           Annotation("parameters", <<"listPets">>), Annotation("meta", <<>>),
           Annotation("route", <<"GET", "/pets/{id:[0-9]+}", "getPet">>), Annotation("route", <<"GET", "/pets">>),
           Annotation("operation", <<"GET", "/pets", "pets", "cats", "listPets">>),
           [Model EXCEPT !.apart = "glued"], [Annotation("model", <<"Pet">>) EXCEPT !.apart = "tab"],
           Said("model"), Said("meta")}
MetaKw == {Kw(k, "") : k \in MetaLine \union MetaBlock \union EveryOperation \union {"externalDocs", "maximum", "extensions"}}

\* Lines of the bodies of a route.
Row(key, value) == [Prose0 EXCEPT !.name = key, !.value = value]
Plus(key, value) == [Row(key, value) EXCEPT !.shapes = {"sigil"}]
Heads == {Plus("name", "id"), Plus("", ""), Plus("in", "query"), Row("type", "string"), Kw("in", "form"),
          Kw("maximum", "5"), Kw("pattern", "a")}
Fields == Heads \union {Row("type", "[]Pet"), Row("format", "uuid"), Row("description", "about"), Kw("in", "body"),
          Kw("in", "here"), Kw("required", "true"), Kw("required", "many"), Row("allowEmpty", "true"),
          Row("unknown", "word"), Row("type", "bool"), Prose0, Kw("maximum", "many"), Plus("name", "id2")}
\* Values and validations, some that cannot be read as the type, or are for other sites.
Values == {Kw("default", "5"), Kw("default", "word"), Kw("example", "word"), Kw("enum", "word"), Kw("maximum", "5"),
           Kw("minProperties", "5"), Kw("patternProperties", "a"), Kw("additionalProperties", "true"),
           Kw("readOnly", "true"), Kw("discriminator", "true"), Kw("collectionFormat", "csv"), Kw("version", ""),
           Kw("tos", ""), Row("format", "uuid")}
Types == {"", "string", "integer", "object", "Pet", "[]Pet"}
Answer(code, words) == [Row(code, "") EXCEPT !.words = words]
Answers == {Answer("200", words) : words \in
              {<<>>, <<"Pet">>, <<"[]Pet", "all">>, <<"notFound">>, <<"[]notFound">>, <<"body:Pet", "a">>,
               <<"body:[]string">>, <<"body:object">>, <<"string">>, <<"Twin">>, <<"response:Pet">>,
               <<"response:nobody">>, <<"body:Pet", "response:Pet">>, <<"Pet", "body:Pet">>, <<"see:this">>,
               <<"body", "Pet">>, <<"description:all", "body:Pet">>}}
           \union {Answer("teapot", <<"Pet">>), Prose0, Answer("404", <<"notFound">>),
                   [Kw("default", "Pet") EXCEPT !.words = <<"Pet">>],
                   [Kw("default", "body:string") EXCEPT !.words = <<"body:string">>]}
Word(tag, arrays, word) == [tag |-> tag, arrays |-> arrays, word |-> word]
MCTagged ==
    ("[]Pet" :> Word("", 1, "Pet")) @@ ("[]notFound" :> Word("", 1, "notFound")) @@ ("body:Pet" :> Word("body", 0, "Pet"))
    @@ ("body:[]string" :> Word("body", 1, "string")) @@ ("body:object" :> Word("body", 0, "object"))
    @@ ("body:string" :> Word("body", 0, "string")) @@ ("response:Pet" :> Word("response", 0, "Pet"))
    @@ ("response:nobody" :> Word("response", 0, "nobody")) @@ ("see:this" :> Word("see", 0, "this"))
    @@ ("description:all" :> Word("description", 0, "all"))

MCLine == Common \union Rare \union Marks \union MetaKw \union Fields \union Answers
          \union Values \union {Row("type", type) : type \in Types} \union {Kw("parameters", ""), Kw("responses", ""), Kw("deprecated", "true")}
MCFits(k, v) == v \in {"5", "query", "true"}
MCCoerces(v, type) == type = "integer" => v = "5"

Around == Marks \union {BlankLine, Fence, Model, Kw("in", "query")}

\* Every short comment, in every way; longer ones of the lines that matter most.
Ways(lines, block, all, single) ==
    [lines : lines, block : block, all : all, singleLineAsDesc : single]
MCInputs ==
    <<Ways([1 .. 0 -> MCLine], BOOLEAN, BOOLEAN, BOOLEAN), Ways([1 .. 1 -> MCLine], BOOLEAN, BOOLEAN, BOOLEAN),
      Ways([1 .. 2 -> Common \union Rare], BOOLEAN, BOOLEAN, BOOLEAN),
      Ways([1 .. 3 -> Common \union Rare] , {FALSE}, {TRUE}, {FALSE}), Ways([1 .. 4 -> Common], {FALSE}, {TRUE}, {FALSE}),
      Ways([1 .. 2 -> Around \union Rare], BOOLEAN, BOOLEAN, {FALSE}), Ways([1 .. 3 -> Around], {FALSE}, {TRUE}, {FALSE}),
      Ways({<<Annotation("meta", <<>>)>> \o s : s \in [1 .. 2 -> MetaKw]}, {FALSE}, {FALSE}, {FALSE}),
      Ways({<<Kw("parameters", "")>> \o s : s \in [1 .. 3 -> Fields] \union [1 .. 4 -> Heads]}, {FALSE}, {FALSE}, {FALSE}),
      Ways({<<Kw("parameters", ""), Plus("name", "id"), Kw("in", in), Row("type", type), v, w>> :
              in \in {"query", "body"}, type \in Types, v \in Values, w \in Values}, {FALSE}, {FALSE}, {FALSE}),
      Ways({<<Kw("responses", "")>> \o s : s \in [1 .. 2 -> Answers]}, {FALSE}, {FALSE}, {FALSE}),
      Ways({<<Kw("parameters", ""), r, k, a>> :
              r \in Fields, k \in MetaKw \union {Kw("responses", ""), Kw("deprecated", "true")}, a \in Answers \union Heads},
           {FALSE}, {FALSE}, {FALSE})>>

\* A comment in every place, next to comments that matter to it.
Where(place, above, other, after, include, exclude) ==
    [place |-> place, above |-> above, other |-> other, afterDecl |-> after, include |-> include, exclude |-> exclude]
MCFiles ==
    {Where(p, <<>>, o, FALSE, {}, {}) :
        p \in {"type", "func", "none"}, o \in {<<>>, <<Model>>, <<Annotation("parameters", <<"listPets">>)>>}}
    \union {Where("after", <<>>, <<>>, o, {}, {}) : o \in BOOLEAN}
    \union {Where("inside", a, <<>>, o, {}, {}) : a \in {<<>>, <<Prose0>>, <<Model>>}, o \in BOOLEAN}
    \union {Where("none", <<>>, <<>>, FALSE, i, e) : i \in {{}, {"pets"}, {"dogs"}}, e \in {{}, {"cats"}}}
    \union {Where(p, <<>>, <<Sentence>>, FALSE, {}, {}) : p \in {"group", "local", "nested", "value"}}
================================================================================
