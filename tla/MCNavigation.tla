--------------------------- MODULE MCNavigation ---------------------------
(***************************************************************************)
(* Sessions over two small programs: the second has one more type above the *)
(* others, has a type on a single line and has lost a property; a scan may   *)
(* also produce nothing.                                                    *)
(***************************************************************************)
EXTENDS Navigation

Line(nodes, ref) == [nodes |-> nodes, ref |-> ref]
Plain(node) == Line(<<node>>, Nowhere)
Brace == Line(<<>>, Nowhere)
At(node, file, line) == [node |-> node, file |-> file, line |-> line]
On(file, line) == [file |-> file, line |-> line]

User == <<"User">>
Pet == <<"Pet">>
Owner == <<"Pet", "owner">>
OwnerRef == <<"Pet", "owner", "ref">>
Name == <<"User", "name">>
Added == <<"Added">>

\* Pet.owner refers to User; the reference stands on a line of its own in
\* JSON and beside its key in YAML.
mcBase ==
    [json |-> <<Brace, Plain(Pet), Plain(Owner), Line(<<OwnerRef>>, User),
                Plain(User), Plain(Name), Brace>>,
     yaml |-> <<Plain(Pet), Line(<<Owner, OwnerRef>>, User), Plain(User), Plain(Name)>>,
     anchors |-> <<At(Pet, "a", 1), At(Owner, "a", 2), At(User, "b", 2)>>,
     diags |-> <<On("a", 2), On("b", 1), On(NoFile, 0)>>,
     findings |-> <<Nowhere, <<"User", "name", "type">> >>]

mcGrown ==
    [json |-> <<Brace, Plain(Added), Line(<< <<"Added", "ref">> >>, User), Plain(Pet),
                Plain(Owner), Line(<<OwnerRef>>, User), Plain(User), Brace>>,
     yaml |-> <<Line(<<Added, <<"Added", "ref">> >>, User), Plain(Pet),
                Line(<<Owner, OwnerRef>>, User), Plain(User)>>,
     anchors |-> <<At(Added, "b", 1), At(Pet, "a", 2), At(Owner, "a", 2), At(User, "b", 3)>>,
     diags |-> <<On("b", 3)>>,
     findings |-> <<Owner>>]

\* Sources that do not compile, and a document that refers to another one and
\* cannot be shown as YAML.
mcBroken == [NoDocument EXCEPT !.diags = <<On("a", 1)>>]
mcForeign == [NoDocument EXCEPT !.json = <<Line(<<Pet>>, External)>>]

mcDocuments == {mcBase, mcGrown, mcBroken, mcForeign}
mcRows == [f \in {"a", "b", "c"} |-> IF f = "c" THEN 0 ELSE 2]
mcQueries == {"User"}

mcSessions ==
    {{"tab", "move", "f", "r", "format"},
     {"tab", "move", "F3", "enter", "r", "format"},
     {"tab", "move", "v", "f", "enter", "r"},
     {"tab", "enter", "edit", "F5", "esc", "g", "f"},
     {"tab", "/", "F3", "o", "r", "esc", "format"},
     {"mouse", "f", "enter", "v", "r"}}
=============================================================================
