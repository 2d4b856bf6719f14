------------------------------- MODULE RouteBody --------------------------------
(***************************************************************************)
(* What a route makes of its comment (internal/builders/routes/walker.go,    *)
(* internal/parsers/routebody): the lines below swagger:route, parsed as a   *)
(* comment without annotation, give the fields of an operation, and the      *)
(* bodies of parameters: and responses: are languages of their own, read     *)
(* line by line.                                                             *)
(*                                                                          *)
(* A line of those bodies is the key before its colon (name), what follows   *)
(* (value, and for responses its words) and whether it starts with + or -    *)
(* (sigil).  Bodies are sets of places of lines, as in CommentGrammar.       *)
(***************************************************************************)
EXTENDS Classification

CONSTANTS
    Tagged,           \* word -> its tag, the number of its [] and what is left, if it has either
    Code,             \* keys that are numbers
    KnownResponse,    \* the responses of the document
    KnownModel,            \* the short names of its definitions
    Ambiguous,        \* those that several definitions have
    Coerces(_, _)     \* a value can be read as a type

Split == [tag : STRING, arrays : Nat, word : STRING]
ASSUME RouteAssumption ==
    /\ \A w \in DOMAIN Tagged : Tagged[w] \in Split
    /\ Ambiguous \subseteq KnownModel

Key(j) == text[j].name
Value(j) == text[j].value

\* splitTagToken, stripArrayPrefixes.
SplitWord(w) == IF w \in DOMAIN Tagged THEN Tagged[w] ELSE [tag |-> "", arrays |-> 0, word |-> w]

-------------------------------------------------------------------------------
(* parameters: routebody.ParseParameters                                       *)

\* splitKeyValue: the others are prose, and passed over.
Rows(body) == {j \in body : Key(j) # ""}

\* isChunkSigil: a parameter starts there.
Sigils(body) == {j \in body : "sigil" \in text[j].shapes}

\* Mutant: what was gathered for one parameter stays for the next.
ChunksKept(body) ==
    {[at |-> s, rows |-> {j \in Rows(body) : \A t \in Sigils(body) : ~(s < t /\ t <= j)}] : s \in Sigils(body)}

\* The lines of a parameter: from its sigil to the next.
Chunks(body) ==
    {[at |-> s, rows |-> {j \in Rows(body) : s <= j /\ \A t \in Sigils(body) : ~(s < t /\ t <= j)}] :
        s \in Sigils(body)}
Outside(body) == {j \in Rows(body) : \A s \in Sigils(body) : j < s}

\* NormalizeIn, with form for formData.
NormalizeIn(v) == IF v = "form" THEN {"formData"} ELSE {v} \intersect Options["in"]

HeadText == {"name", "type", "format", "description"}
HeadFlag == {"required", "allowEmpty"}
HeadKey  == HeadText \union HeadFlag \union {"in"}

\* buildProperty: values of a form that can be wrong are checked; an option may be.
BuildsProperty(j) ==
    Key(j) \in Keyword /\ (Shape[Key(j)] \in {"number", "int", "bool"} => Fits(Key(j), Value(j)))

\* applyParamLine: what is read; the rest is reported.
Accepted(j) ==
    CASE Key(j) \in HeadText -> TRUE
      [] Key(j) = "in" -> NormalizeIn(Value(j)) # {}
      [] Key(j) \in HeadFlag -> Fits(Key(j), Value(j))
      [] OTHER -> BuildsProperty(j)

\* Of two lines with one key the later counts.
HeadOf(c, key) ==
    LET given == {j \in c.rows : Key(j) = key /\ Accepted(j)} IN IF given = {} THEN "" ELSE Value(Max(given))
Properties(c) == {j \in c.rows : Key(j) \notin HeadKey /\ Accepted(j)}
IsEmptyChunk(c) == Properties(c) = {} /\ \A key \in HeadText \union {"in"} : HeadOf(c, key) = ""

\* commitChunk.
ParamDecl(c) ==
    [at |-> c.at, in |-> IF HeadOf(c, "in") = "" THEN "" ELSE CHOOSE v \in NormalizeIn(HeadOf(c, "in")) : TRUE,
     head |-> [key \in HeadText \union HeadFlag |-> HeadOf(c, key)], block |-> Properties(c)]
ParseParameters(body) == {ParamDecl(c) : c \in {c \in Chunks(body) : ~IsEmptyChunk(c)}}

-------------------------------------------------------------------------------
(* buildRouteParam                                                             *)

PrimitiveTypes == {"string", "integer", "number", "boolean", "array", "object"}
Untyped == [arrays |-> 0, kind |-> "none", name |-> ""]
TypedAs(name, n) == [arrays |-> n, kind |-> "type", name |-> name]

\* resolveBodySchema: a reference to a definition, in arrays; nobody asks whether it is there.
ResolveBodySchema(name, n) == [arrays |-> n, kind |-> "definition", name |-> name]

\* buildBodySchema: `array` and `object` stay as bare as they are written.
BuildBodySchema(type) ==
    CASE type = "" -> Untyped
      [] type \in PrimitiveTypes -> TypedAs(type, 0)
      [] OTHER -> ResolveBodySchema(SplitWord(type).word, SplitWord(type).arrays)

NormaliseSimpleType(type) == IF type = "bool" THEN "boolean" ELSE type

\* typeGateBlock: what the type has no use for is dropped, and without a type everything.
TypeGateBlock(block, type) ==
    IF type = "" THEN {} ELSE {j \in block : IsLegalForType(Key(j), type)}

\* default and example are read as the type; one that cannot be read is reported.
Uncoerced(block, type) == {j \in block : Key(j) \in {"default", "example"} /\ ~Coerces(Value(j), type)}

\* Raw: after the first such value none is looked at.
Reached(block, type) ==
    {j \in block : Shape[Key(j)] \in {"rawvalue", "rawblock"} => \A k \in Uncoerced(block, type) : j <= k}

\* isFullSchemaOnly.
IsFullSchemaOnly(k) == Contexts[k] \intersect {"schema", "param", "header", "items"} = {"schema"}

\* DispatchParamLevel0: what it writes, and what it reports.
ParamWritten(block, type) ==
    {j \in Reached(block, type) \ Uncoerced(block, type) : Key(j) \in SimpleValidation \union {"collectionFormat"}}
ParamReported(block, type) ==
    {j \in Reached(block, type) :
        \/ j \in Uncoerced(block, type)
        \/ (IsFullSchemaOnly(Key(j)) /\ Shape[Key(j)] \in {"int", "string", "option"})
        \/ Shape[Key(j)] = "rawblock"}

\* SchemaTypeOf: none beside a reference.
SchemaTypeOf(schema) ==
    CASE schema.arrays > 0 -> "array" [] schema.arrays = 0 /\ schema.kind = "type" -> schema.name [] OTHER -> ""

\* DispatchSchemaLevel0, of a schema without a name.  (An enum of which no member can be read is none.)
SchemaReported(block, type) ==
    {j \in block : ~IsLegalForType(Key(j), type) \/ (Shape[Key(j)] = "rawvalue" /\ ~Coerces(Value(j), type))}
SchemaWritten(block, type) ==
    {j \in block \ SchemaReported(block, type) :
        Key(j) \in SimpleValidation \union (ObjectValidation \ {"additionalProperties", "discriminator"})}

\* A parameter without a name nor a place is left out in silence.
IsThin(d) == d.head["name"] = "" /\ d.in = ""

BuildRouteParam(d) ==
    LET type == NormaliseSimpleType(d.head["type"])
        body == BuildBodySchema(d.head["type"])
    IN  IF IsThin(d) THEN {}
        ELSE {[at |-> d.at, in |-> d.in, name |-> d.head["name"], description |-> d.head["description"],
               flags |-> [k \in HeadFlag |-> d.head[k]],
               schema |-> IF d.in = "body" THEN body ELSE TypedAs(type, 0),
               format |-> IF d.in = "body" /\ d.head["type"] = "" THEN "" ELSE d.head["format"],
               validations |-> IF d.in = "body" THEN SchemaWritten(d.block, SchemaTypeOf(body))
                               ELSE ParamWritten(TypeGateBlock(d.block, type), type)]}

\* The rows of its block that a diagnostic names.
ReportedOf(d) ==
    LET type  == NormaliseSimpleType(d.head["type"])
        gated == TypeGateBlock(d.block, type)
    IN  CASE IsThin(d) -> {}
          [] ~IsThin(d) /\ d.in = "body" -> SchemaReported(d.block, SchemaTypeOf(BuildBodySchema(d.head["type"])))
          [] OTHER -> (d.block \ gated) \union ParamReported(gated, type)

\* The bodies of a keyword in the route.
Remaining0 == blocks[1]
IsRoute == phase = "done" /\ ~input.all /\ Remaining0.kind = "unknown"
BodyOf(keyword) == {i \in Keywords(Remaining0.tokens) : LineOf(i).name = keyword}

\* dispatchParameters: a parameter replaces one of its name and place.
Built == UNION {BuildRouteParam(d) : d \in UNION {ParseParameters(folded[i].body) : i \in BodyOf("parameters")}}
Replaces(p, q) == p.at > q.at /\ p.name = q.name /\ p.in = q.in
RouteParameters == {q \in Built : \A p \in Built : ~Replaces(p, q)}

\* The lines a diagnostic names.
ReportedRows(body) ==
    Outside(body)
    \union {j \in Rows(body) : ~Accepted(j)}
    \union UNION {c.rows : c \in {c \in Chunks(body) : IsEmptyChunk(c)}}
    \union UNION {ReportedOf(d) : d \in ParseParameters(body)}

-------------------------------------------------------------------------------
(* responses: routebody.ParseResponses and dispatchResponses                   *)

\* parseResponseValue.  Words up to description: are read; a body, a response or a first word without tag
\* say what the response is.
Read(words) ==
    LET described == {n \in DOMAIN words : SplitWord(words[n]).tag = "description"}
    IN  IF described = {} THEN DOMAIN words ELSE 1 .. Min(described) - 1
Subjects(words) ==
    {n \in Read(words) : SplitWord(words[n]).tag \in {"body", "response"} \/ (n = 1 /\ SplitWord(words[n]).tag = "")}
IsResponseValue(words) ==
    /\ Cardinality(Subjects(words)) <= 1
    /\ \A n \in Read(words) : SplitWord(words[n]).tag \in {"", "body", "response"}
    /\ words # <<>> => words[1] \notin {"body", "response"}

\* ParseResponses: one line, one response; a line without colon is reported.
ResponseDecl(j) ==
    LET subjects == Subjects(text[j].words)
        subject  == SplitWord(text[j].words[Min(subjects)])
        is(tags) == subjects # {} /\ subject.tag \in tags
    IN  [at |-> j, code |-> Key(j),
         body |-> IF is({"body"}) THEN subject.word ELSE "",
         response |-> IF is({"response", ""}) THEN subject.word ELSE "",
         arrays |-> IF subjects = {} THEN 0 ELSE subject.arrays]
ParseResponses(body) == {ResponseDecl(j) : j \in {j \in Rows(body) : IsResponseValue(text[j].words)}}

BodyPrimitives == {"string", "number", "integer", "boolean"}
ReservedTypes  == {"array", "object", "file", "null"}

Response(d, kind, name, arrays) == [at |-> d.at, code |-> d.code, kind |-> kind, name |-> name, arrays |-> arrays]

\* primitiveBodySchema, and resolveBodySchema for the names that are left.
BodyResponse(d) ==
    CASE d.body \in BodyPrimitives -> {Response(d, "type", d.body, d.arrays)}
      [] d.body \in ReservedTypes -> {}
      [] OTHER -> {Response(d, "definition", d.body, d.arrays)}

\* Mutant: the first definition of that short name.
ResolveDefinitionFirst(name) == {name} \intersect KnownModel
\* resolveDefinitionByLeaf: the one definition of that short name.
ResolveDefinitionByLeaf(name) == {name} \intersect (KnownModel \ Ambiguous)

\* A response of that name, or else a model; the arrays of a named response are lost.
NamedOrModel(d) ==
    IF d.response \in KnownResponse THEN {Response(d, "response", d.response, 0)}
    ELSE {Response(d, "definition", name, d.arrays) : name \in ResolveDefinitionByLeaf(d.response)}

\* buildRouteResponse.
BuildRouteResponse(d) ==
    CASE d.body # "" -> BodyResponse(d)
      [] d.body = "" /\ d.response # "" -> NamedOrModel(d)
      [] OTHER -> {Response(d, "nothing", "", 0)}

\* dispatchResponses: of two responses under one code the later is kept, of two defaults the earlier.
BuiltResponses ==
    {r \in UNION {BuildRouteResponse(d) : d \in UNION {ParseResponses(folded[i].body) : i \in BodyOf("responses")}} :
        r.code \in Code \union {"default"}}
Outdoes(r, s) == r.code = s.code /\ IF r.code = "default" THEN r.at < s.at ELSE r.at > s.at
RouteResponses == {s \in BuiltResponses : \A r \in BuiltResponses : ~Outdoes(r, s)}

ReportedResponses(body) ==
    (body \ Rows(body))
    \union {j \in Rows(body) : ~IsResponseValue(text[j].words) \/ Key(j) \notin Code \union {"default"}}
    \union {d.at : d \in {d \in ParseResponses(body) : BuildRouteResponse(d) = {}}}

-------------------------------------------------------------------------------
(* The other keywords of a route                                               *)

\* dispatchRouteKeyword.
DispatchRouteKeyword(k) ==
    {k} \intersect {"schemes", "deprecated", "consumes", "produces", "tags", "parameters", "responses", "externalDocs"}
\* applyBlockToRoute: and what the parser has read already.
RouteFields(k) == DispatchRouteKeyword(k) \union ({k} \intersect {"security", "extensions"})

-------------------------------------------------------------------------------
(* Properties                                                                  *)

\* What a parameter says under a key.
Says(p, key) ==
    CASE key = "name" -> p.name [] key = "in" -> p.in [] key = "format" -> p.format
      [] key = "description" -> p.description [] key \in HeadFlag -> p.flags[key]
      [] OTHER -> p.schema.name
Meant(key, value) ==
    CASE key = "in" -> CHOOSE v \in NormalizeIn(value) : TRUE
      [] key = "type" /\ value = "bool" -> "boolean"
      [] OTHER -> value
\* What stands beside a reference is not looked at by a reader of the document.
IsBareRef(schema) == schema.kind = "definition" /\ schema.arrays = 0
IsBeside(p, j) == IsBareRef(p.schema) /\ Key(j) \notin HeadKey \ {"format"}

SaysRow(p, j) ==
    IF Key(j) \notin HeadKey THEN j \in p.validations
    ELSE \/ Says(p, Key(j)) = Meant(Key(j), Value(j))
         \/ Key(j) = "type" /\ p.in = "body" /\ Says(p, "type") = SplitWord(Value(j)).word

\* A line may be outdone by a later one of its key, or a parameter by a later one.
Outdone(c, j) ==
    \/ \E k \in c.rows : k > j /\ Key(k) = Key(j)
    \/ \E q \in Built \ RouteParameters : q.at = c.at

\* Where the rows of a parameter belong: in a schema, if it is the body.
Site(c) == IF HeadOf(c, "in") = "body" THEN "schema" ELSE "param"

\* What the code passes over in silence: a parameter that has no name and no place; a keyword that is for other
\* sites than this; the format of a body that has no type; additionalProperties and discriminator in a body;
\* what stands beside the reference of a body; and the values after one that could not be read.
IsPassedOver(c, j) ==
    \/ HeadOf(c, "name") = "" /\ HeadOf(c, "in") = ""
    \/ Key(j) \in Keyword \ HeadKey /\ Site(c) \notin Contexts[Key(j)]
    \/ /\ Site(c) = "schema"
       /\ \/ Key(j) = "format" /\ HeadOf(c, "type") = ""
          \/ Key(j) \in {"additionalProperties", "discriminator"}
          \/ \E p \in Built : p.at = c.at /\ IsBeside(p, j)
    \/ /\ Site(c) = "param"
       /\ Key(j) \in {"default", "example", "enum"}
       /\ \E k \in Uncoerced(Properties(c), NormaliseSimpleType(HeadOf(c, "type"))) : k < j

\* A line of parameters: is about the parameter whose + or - it stands under and no other, and is found there,
\* where a reader looks, or reported, unless it is outdone or passed over as said; a validation that is found
\* suits the type (ParseParameters, commitChunk, typeGateBlock, DispatchParamLevel0, DispatchSchemaLevel0).
RowsAreAnswered ==
    IsRoute =>
        \A i \in BodyOf("parameters") :
            LET body == folded[i].body IN
            /\ \A p \in {p \in RouteParameters : p.at \in body} : \A j \in p.validations :
                  /\ p.at <= j /\ \A s \in Sigils(body) : ~(p.at < s /\ s <= j)
                  /\ IsLegalForType(Key(j), SchemaTypeOf(p.schema))
            /\ \A j \in Rows(body) \ ReportedRows(body) :
                  \E c \in Chunks(body) :
                     /\ c.at <= j /\ \A s \in Sigils(body) : ~(c.at < s /\ s <= j)
                     /\ \/ Outdone(c, j) \/ IsPassedOver(c, j)
                        \/ \E p \in RouteParameters : p.at = c.at /\ SaysRow(p, j) /\ ~IsBeside(p, j)

\* A line of responses: is the response under its code, unless another of that code is, or is reported; what
\* it refers to by name is there and is the only one of that name, what it calls a body is a type or a name,
\* and its arrays are kept around a body (buildRouteResponse: "dropped rather than silently emitting an
\* invalid $ref").
ResponsesAreAnswered ==
    IsRoute =>
        \A i \in BodyOf("responses") :
            LET body == folded[i].body IN
            \A j \in body \ ReportedResponses(body) :
                LET own == {r \in RouteResponses : r.at = j}
                    words == text[j].words
                    named(tag) == \E n \in DOMAIN words : SplitWord(words[n]).tag = tag
                IN  /\ own # {} \/ \E r \in RouteResponses : r.code = Key(j)
                    /\ \A r \in own :
                          /\ r.kind = "response" => r.name \in KnownResponse
                          /\ r.kind = "type" => named("body") /\ r.name \notin ReservedTypes
                          /\ r.kind = "definition" /\ ~named("body") => r.name \in KnownModel \ Ambiguous
                          /\ r.kind \in {"type", "definition"} =>
                                \E n \in DOMAIN words : SplitWord(words[n]).word = r.name /\ SplitWord(words[n]).arrays = r.arrays

\* Every keyword that the table admits for a route ends up in a field of its operation, and for the API as a
\* whole in a field of the document; no other keyword does (dispatchRouteKeyword, dispatchMetaKeyword and
\* their callers against the table of keywords).
KeywordsArrive ==
    /\ MetaArrives
    /\ IsRoute => \A i \in Keywords(Remaining0.tokens) :
                     RouteFields(LineOf(i).name) # {} <=> "route" \in Contexts[LineOf(i).name]

\* What the body of a route says reaches its operation or is reported: its keywords, and
\* the lines of its parameters.
RouteIsAnswered == KeywordsArrive /\ RowsAreAnswered
================================================================================
