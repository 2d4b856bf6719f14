---------------------------- MODULE MCDeclarations ----------------------------
(* TLC instances of TypeResolution and SchemaKeywords. *)
EXTENDS SchemaKeywords

\* A type is named by a wrapper, how it is declared, over what, and what is written above.
Lib(name) == <<"", "lib", name, "">>
Decl(kind, over, note) == <<"", kind, over, note>>
Wrap(w, t) == <<w, t[2], t[3], t[4]>>
Unwrapped(t) == Wrap("", t)

Note(depth, base, strfmt, enum) ==
    [type |-> [depth |-> depth, base |-> base], strfmt |-> strfmt, enum |-> enum,
     model |-> FALSE, ignored |-> FALSE]
Plain == Note(0, "", "", FALSE)
Notes ==
    "" :> Plain @@ "type string" :> Note(0, "string", "", FALSE)
    @@ "type []string" :> Note(1, "string", "", FALSE)
    @@ "type Pet" :> Note(0, "Pet", "", FALSE) @@ "type []Pet" :> Note(1, "Pet", "", FALSE)
    @@ "type Gone" :> Note(0, "Gone", "", FALSE) @@ "type []Gone" :> Note(1, "Gone", "", FALSE)
    @@ "type inline" :> Note(0, "inline", "", FALSE) @@ "type []inline" :> Note(1, "inline", "", FALSE)
    @@ "type object" :> Note(0, "object", "", FALSE) @@ "type string, strfmt" :> Note(0, "string", "uuid", FALSE)
    @@ "type file" :> Note(0, "file", "", FALSE)
    @@ "strfmt" :> Note(0, "", "uuid", FALSE) @@ "enum" :> Note(0, "", "", TRUE)
    @@ "model" :> [Plain EXCEPT !.model = TRUE]
    @@ "model strfmt" :> [Note(0, "", "uuid", FALSE) EXCEPT !.model = TRUE]
    @@ "model enum" :> [Note(0, "", "", TRUE) EXCEPT !.model = TRUE]
    @@ "model type []string" :> [Note(1, "string", "", FALSE) EXCEPT !.model = TRUE]
    @@ "model type string" :> [Note(0, "string", "", FALSE) EXCEPT !.model = TRUE]

Raw(kind) ==
    [kind |-> kind, elem |-> NoType, shape |-> Shape("", ""), special |-> "", notes |-> Plain,
     found |-> "sourced", marshals |-> FALSE, generic |-> FALSE, name |-> "", inner |-> {},
     bytes |-> FALSE, keyed |-> TRUE]
Basic(type, format) == [Raw("basic") EXCEPT !.shape = Shape(type, format)]
Over(kind, t) == [Raw(kind) EXCEPT !.elem = t]

Library ==
    "string" :> Basic("string", "") @@ "int64" :> Basic("integer", "int64")
    @@ "byte" :> [Basic("integer", "uint8") EXCEPT !.bytes = TRUE]
    @@ "chan" :> Raw("unsupported") @@ "interface" :> Raw("interface") @@ "struct" :> Raw("struct")
    @@ "any" :> [Over("alias", Lib("interface")) EXCEPT !.special = "any", !.found = "unknown"]
    @@ "Time" :> [Over("named", Lib("struct")) EXCEPT !.special = "typed", !.shape = Shape("string", "date-time"),
                                                      !.found = "sourceless", !.marshals = TRUE]
    @@ "Stream" :> [Over("named", Lib("interface")) EXCEPT !.special = "stream", !.shape = Shape("string", "binary"),
                                                           !.found = "sourceless"]
    @@ "error" :> [Over("named", Lib("interface")) EXCEPT !.special = "typed", !.shape = Shape("string", ""),
                                                          !.found = "unknown", !.name = "error"]
    @@ "UUID" :> [Over("named", Lib("string")) EXCEPT !.marshals = TRUE]
    @@ "Far" :> [Over("named", Lib("string")) EXCEPT !.found = "sourceless"]
    @@ "Pet" :> [Over("named", Lib("struct")) EXCEPT !.notes.model = TRUE, !.name = "Pet"]
    @@ "Tag" :> [Over("named", Lib("string")) EXCEPT !.name = "Tag"]
    @@ "Fields" :> [Raw("struct") EXCEPT !.inner = {Lib("Pet")}]
    @@ "Methods" :> [Raw("interface") EXCEPT !.inner = {Lib("Pet")}]
    @@ "[]byte" :> Over("array", Lib("byte")) @@ "[]string" :> Over("array", Lib("string"))
    @@ "[]Pet" :> Over("array", Lib("Pet")) @@ "map" :> Over("map", Lib("Pet"))
    @@ "odd map" :> [Over("map", Lib("Pet")) EXCEPT !.keyed = FALSE]
    @@ "*Pet" :> Over("pointer", Lib("Pet"))

Rights == {"string", "int64", "[]byte", "[]string", "[]Pet", "map", "Fields", "Pet", "Tag", "Time"}
Wrappers == {"", "pointer", "array", "map"}
Decls == {Decl(k, r, n) : k \in {"named", "alias"}, r \in Rights, n \in DOMAIN Notes}
Declared == Decls \union {Decl(k, r, "") : k \in {"named", "alias"}, r \in DOMAIN Library}
mcTypes == {Wrap(w, t) : w \in Wrappers, t \in Declared \union {Lib(l) : l \in DOMAIN Library}}
mcGo ==
    [t \in mcTypes |->
        IF t[1] # "" THEN Over(t[1], Unwrapped(t))
        ELSE IF t[2] = "lib" THEN Library[t[3]]
        ELSE [Over(t[2], Lib(t[3])) EXCEPT !.notes = Notes[t[4]], !.name = "X"]]

mcScalar ==
    "string" :> Shape("string", "") @@ "integer" :> Shape("integer", "") @@ "object" :> Shape("object", "")

Sites == {"definition", "property", "bodyParam", "query", "formData", "header", "bodyResponse"}
Field(note, isString) == [notes |-> Notes[note], isString |-> isString]
Job(site, t, field, ws) == [site |-> site, t |-> t, field |-> field, words |-> ws, below |-> FALSE]
WordsBelow(j) == [j EXCEPT !.below = TRUE]
Bare(site, t) == Job(site, t, Field("", FALSE), {})

\* The options, by the name of what they change.
Options(s) ==
    [transparent |-> "transparent" \in s, refAliases |-> "refAliases" \in s, skipAllOf |-> "skipAllOf" \in s,
     refSiblings |-> "refSiblings" \in s, descWithRef |-> "descWithRef" \in s]
AliasModes == SUBSET {"transparent", "refAliases"}
RefModes == SUBSET {"skipAllOf", "refSiblings", "descWithRef"}
Program(jobs, s) == [jobs |-> jobs] @@ Options(s)

Word(kw, value) == [kw |-> kw, value |-> value, items |-> FALSE]
Words ==
    {Word(kw, "") : kw \in Validations \union {"extension", "externalDocs", "description", "readOnly", "additionalProperties"}}
    \union {Word("default", v) : v \in {"number", "word", "json"}} \union {Word("enum", v) : v \in {"number", "word"}}
OneOrTwo(S) == {ws \in {{a, b} : a \in S, b \in S} : \A a, b \in ws : a.kw = b.kw => a = b}

\* A declaration and a field of the same type under the same comment: what is written
\* above the declaration, and above the type of the field.
Comments ==
    {<<"", "">>, <<"model", "">>, <<"enum", "enum">>, <<"type []string", "type []string">>,
     <<"model enum", "enum">>, <<"model type []string", "type []string">>}
Doubled == {"model enum", "model type []string", "type string, strfmt"}
mcComments ==
    {Program(<<Job("definition", Decl("named", r, n[1]), Field("", FALSE), ws),
               Job("property", IF n[2] = "" THEN Lib(r) ELSE Decl("named", r, n[2]), Field("", FALSE), ws)>>, {}) :
        r \in {"string", "int64", "[]string", "Fields", "map", "Pet"}, n \in Comments,
        ws \in OneOrTwo(Words \union {Word("required", "")})}

\* Keywords below the annotations of a declaration, and in a field's own comment.
mcAnnotated ==
    {Program(<<WordsBelow(Job("definition", Decl("named", r, n), Field("", FALSE), ws))>>, {}) :
        r \in {"string", "int64"}, n \in Doubled, ws \in OneOrTwo(Words)}
    \union {Program(<<[Job("property", Lib(l), Field(n, FALSE), ws) EXCEPT !.below = b]>>, m) :
        l \in {"string", "int64", "Pet"}, n \in {"type string", "type string, strfmt", "strfmt", "type Pet"},
        ws \in OneOrTwo(Words), b \in BOOLEAN, m \in {{}, {"refSiblings"}}}

\* Every type at every place, and every declaration; a query or form parameter and a
\* header take no declared slice of models, and no unknown array.
Unfit(t) == t[1] = "map" \/ (t[2] # "lib" /\ t[3] = "[]Pet") \/ t[4] \in {"type []Gone", "type []inline"}
Placed ==
    {x \in (Sites \ {"definition"}) \X mcTypes \X {{}, {"transparent"}} :
        /\ x[1] \in SimpleSites => ~Unfit(x[2])
        /\ x[2][2] = "named" => x[3] = {}
        /\ x[2][1] = "pointer" => x[2][4] \in {"", "strfmt", "type []string"}}
mcShapes == {Program(<<Bare(x[1], x[2])>>, x[3]) : x \in Placed}
mcDefinitions == {Program(<<Bare("definition", t)>>, m) : t \in Declared, m \in AliasModes}

\* The same declaration, as a type of its own and as an alias, under an annotation that
\* can be honoured.  Away from a property none of them builds a struct: the schema builder
\* would leave it empty for the named type.
Honoured == {"type string", "type []string", "strfmt", "type inline", "type string, strfmt"}
Objects == {"type Pet", "type object"}
TwinsAt(s, rights, notes) ==
    {Program(<<Bare(s, Wrap(w, Decl("named", r, n))), Bare(s, Wrap(w, Decl("alias", r, n)))>>, {}) :
        r \in rights, n \in notes, w \in Wrappers}
mcTwins ==
    TwinsAt("property", Rights \ {"map"}, Honoured \union Objects \union {"type []Pet"})
    \union UNION {TwinsAt(s, Rights \ {"map", "Pet", "Fields", "Time", "[]Pet"}, Honoured) : s \in Sites \ {"definition", "property"}}
    \union UNION {TwinsAt(s, Rights \ {"map", "Pet", "Fields", "Time", "[]Pet"}, Objects) : s \in SimpleSites}

\* What a field's own comment says of its type: not an array for a header, whose items
\* would stay under a string.
FieldTypes == {Lib(l) : l \in {"string", "int64", "[]string", "Pet", "Tag", "Time", "[]Pet", "*Pet", "map"}}
FieldNotes == {"type string", "type []string", "type Pet", "type Gone", "type file", "strfmt", "type string, strfmt"}
mcFields ==
    {Program(<<Job(s, t, Field(n, isString), {})>>, {}) :
        s \in Sites \ {"definition", "header"}, t \in FieldTypes, n \in FieldNotes, isString \in BOOLEAN}
    \union {Program(<<Job("header", t, Field(n, FALSE), {})>>, {}) :
        t \in {Lib(l) : l \in {"string", "int64", "Tag", "Time"}}, n \in FieldNotes}

\* A field that is a reference, or an array, under one or two keywords.
Items(ws) == {[w EXCEPT !.items = TRUE] : w \in ws}
mcReferences ==
    {Program(<<Job("property", Lib("Pet"), Field("", FALSE), ws)>>, m) :
        ws \in OneOrTwo(Words \union {Word("required", "")}), m \in RefModes}
mcArrays ==
    {Program(<<Job(s, Lib(l), Field("", FALSE), {a} \union Items({b}))>>, {}) :
        s \in Sites \ {"definition", "bodyParam"}, l \in {"[]string", "[]byte", "string"},
        a \in Words \union {Word("required", "")}, b \in Words}

mcPrograms ==
    {mcShapes, mcDefinitions, mcTwins, mcComments, mcAnnotated, mcFields, mcReferences, mcArrays}

\* A named integer written as a string, with a format, as a query parameter.
mcPanicking == {{Program(<<Bare("query", Decl("named", "int64", "type string, strfmt"))>>, {})}}
=============================================================================
