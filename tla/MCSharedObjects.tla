---------------------------- MODULE MCSharedObjects ----------------------------
(***************************************************************************)
(* Programs for SharedObjects: declarations that share, bind and inline the  *)
(* parameters x and y, and annotations that meet on paths and ids.           *)
(***************************************************************************)
EXTENDS SharedObjects

F(n, l) == [name |-> n, in |-> l]
Xs == {<<F("x", "query")>>, <<F("x", "path")>>, <<F("x", "body")>>}
XYs == {<<F("y", "body"), F("x", "query")>>, <<F("y", "query"), F("x", "query")>>}

Plain == [fields |-> <<>>, operations |-> {}, isShared |-> FALSE,
          sharedOperations |-> {}, paths |-> {}]
Binds(fields) == [Plain EXCEPT !.fields = fields, !.operations = {"g"}]
Shares(fields, ops) ==
    [Plain EXCEPT !.fields = fields, !.isShared = TRUE, !.sharedOperations = ops]
Inlines(fields, at) == [Plain EXCEPT !.fields = fields, !.paths = at]

Writes(kind, path, id, fields, refs, responses) ==
    [kind |-> kind, path |-> path, method |-> "GET", id |-> id, fields |-> fields,
     references |-> refs, responses |-> responses]
Route(path, id) == Writes("route", path, id, <<F("y", "query")>>, {}, <<>>)

Nothing == [parameters |-> {}, responses |-> {}, operations |-> <<>>, pathItems |-> <<>>]
Given == Declared(F("x", "query"), <<"supplied">>)
Operation(id, ps) == [id |-> id, parameters |-> ps]
At_(path) == <<path, "GET">>

Program(decls, annotations, refs, pathRefs, supplied) ==
    [declarations |-> decls, annotations |-> annotations, references |-> refs,
     pathReferences |-> pathRefs, supplied |-> supplied,
     registered |-> [responses |-> {"x"}, models |-> {"y"}]]

\* Three registrations of x and y, with references from markers, to paths and in bodies.
Sharing ==
    {Program(<<Shares(<<F("x", "query")>>, {"g"}), Shares(<<F("x", "header"), F("y", "query")>>, ops),
               Shares(<<F("y", "header")>>, {})>>,
             <<Writes(kind, "/a", "g", <<>>, {}, [c \in Codes |-> n])>>,
             refs, pathRefs, [Nothing EXCEPT !.parameters = s]) :
        ops \in {{}, {"g", "p"}}, kind \in {"route", "operation"}, n \in {"x", "y", "z"},
        refs \in {{}, {<<"g", "x">>, <<"g", "z">>}},
        pathRefs \in {{}, {<<"/a", "x">>, <<"/a", "z">>, <<"/b", "y">>}}, s \in {{}, {"x"}}}

\* References in a body of YAML, and in what InputSpec brought.
Writing ==
    {Program(<<Shares(<<F("x", "query")>>, {}), Inlines(fields, {"/a", "/b"}), Binds(fields)>>,
             <<Writes("operation", "/a", "g", <<>>, refs, ("default" :> n))>>, {}, {},
             [Nothing EXCEPT !.responses = {"z"},
                 !.operations = (At_("/b") :> Operation("p", <<Reference("y")>>)),
                 !.pathItems = ("/b" :> <<Reference("y"), Reference("x")>>)]) :
        fields \in Xs, refs \in SUBSET Name, n \in Name}

\* Two declarations bound to one operation, its body, and InputSpec's operation.
Binding ==
    {Program(<<Binds(f), Binds(g)>>, <<Writes(kind, "/a", "g", h, {}, <<>>)>>, refs, {},
             [Nothing EXCEPT !.operations = IF at = "" THEN <<>> ELSE
                  (At_(at) :> Operation(id, <<given>>)),
                  !.pathItems = IF at = "" THEN <<>> ELSE (at :> <<>>),
                  !.parameters = {"x"}]) :
        f \in Xs \union XYs, g \in Xs, h \in Xs \union XYs, kind \in {"route", "operation"},
        refs \in {{}, {<<"g", "x">>}}, at \in {"", "/a", "/b"}, id \in OpId,
        given \in {Given, Reference("x")}}

\* Annotations that meet on a path, or share an id.
Meeting ==
    {Program(<<Binds(<<F("x", "query")>>)>>,
             <<Writes(k, "/a", i, <<F("y", "query")>>, {}, ("200" :> "x") @@ ("default" :> "x")),
               Writes(l, p, j, <<F("x", "query")>>, {}, ("200" :> "y") @@ ("default" :> "y")),
               Route(q, "g")>>,
             {<<"g", "x">>}, {}, [Nothing EXCEPT !.parameters = {"x"}]) :
        k, l \in {"route", "operation"}, i, j \in OpId, p, q \in Path}

mcInputs == Sharing \union Writing \union Binding \union Meeting
=============================================================================
