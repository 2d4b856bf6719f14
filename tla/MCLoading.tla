----------------------------- MODULE MCLoading -----------------------------
(***************************************************************************)
(* A main module m with the packages m, m/a and m/b, a dependency d.x with *)
(* a package below it, the standard library's fmt with a vendored package  *)
(* of its own, and a module that nests in d.x; and the command lines that   *)
(* load the module m.                                                       *)
(***************************************************************************)
EXTENDS Genspec

M == <<"m">>
A == <<"m", "a">>
B == <<"m", "b">>
D == <<"d.x">>
E == <<"d.x", "e">>
S == <<"fmt">>
X == <<"v.x">>
V == <<"vendor", "v.x">>
MCPaths == {M, A, B, D, E, S, X, V}
MCOrder == <<D, E, S, M, A, B, X, V>>
MCSegments == {"m", "a", "b"}
MCDotless == {"fmt", "vendor"}

Cache(m) == <<m, "v1">>
Local == <<"local">>
MCGoroot == <<"goroot">>
MCMainRoot == <<"main">>
MCVendorRoot == <<"vendor">>
InMain(rel) == <<MainRoot, rel>>
DirD == <<Cache(D), <<>>>>
DirE == <<Cache(D), <<"e">>>>
Nested == <<Cache(E), <<>>>>
DirS == <<Goroot, S>>
DirV == <<Goroot, V>>
Vendored == <<VendorRoot, D>>
InLocal == <<Local, <<>>>>
Dirs == {InMain(<<>>), InMain(<<"a">>), InMain(<<"b">>), DirD, DirE, Nested, DirS, DirV, Vendored, InLocal}

Plain ==
    [std |-> {S}, stdVendor |-> {X}, stub |-> FALSE, replaces |-> NoMap, uses |-> NoMap, main |-> M, vendor |-> FALSE,
     requires |-> D :> "v1", replaced |-> NoMap, boundaries |-> {},
     tree |-> MainRoot :> {<<>>, <<"a">>, <<"b">>} @@ Cache(D) :> {<<>>, <<"e">>} @@ Cache(E) :> {<<>>}
              @@ VendorRoot :> {D} @@ Local :> {<<>>}]
Layouts ==
    {Plain, [Plain EXCEPT !.stub = TRUE], [Plain EXCEPT !.vendor = TRUE], [Plain EXCEPT !.uses = D :> Local],
     [Plain EXCEPT !.replaces = D :> Local, !.uses = M :> MainRoot], [Plain EXCEPT !.boundaries = {<<"b">>}],
     [Plain EXCEPT !.replaced = D :> [version |-> "v1", root |-> Local]],
     [Plain EXCEPT !.replaced = D :> [version |-> "v2", root |-> Local]],
     [Plain EXCEPT !.requires = D :> "v1" @@ E :> "v1"], [Plain EXCEPT !.requires = NoMap]}

Everything == {[base |-> <<>>, recursive |-> TRUE]}
Only(rel) == {[base |-> rel, recursive |-> FALSE]}

AllRead == [d \in Dirs |-> "reads"]
Nothing == [d \in Dirs |-> {}]
Ordinary ==
    [virtual |-> FALSE, strategy |-> "toolchain-free", compiled |-> FALSE, excludeDeps |-> FALSE, patterns |-> Everything,
     wants |-> {}, accepted |-> Paths, exported |-> {}, layout |-> Plain, content |-> AllRead,
     imports |-> [Nothing EXCEPT ![InMain(<<"a">>)] = {B, D}, ![InMain(<<"b">>)] = {S}, ![DirD] = {E}, ![DirS] = {X}],
     marked |-> {InMain(<<"b">>)}, failing |-> {}]

\* The strategies and options, over what is annotated, what is wanted, and what cannot be read.
ByOption ==
    {[Ordinary EXCEPT !.virtual = v, !.strategy = s, !.compiled = c, !.exported = e, !.marked = m, !.wants = w,
                      !.content = r, !.failing = f, !.excludeDeps = x] :
        v \in BOOLEAN, s \in {"go/packages", "toolchain-free"}, c \in BOOLEAN, e \in {{}, {D, S, B}, {D, E, S}},
        m \in {{InMain(<<"b">>), DirE}, {DirD, DirV}}, w \in {{D}, {E, S}},
        r \in {AllRead, [AllRead EXCEPT ![DirD] = "broken"], [AllRead EXCEPT ![InMain(<<"b">>)] = "excluded", ![DirE] = "excluded"]},
        f \in {{}, {InMain(<<"a">>)}}, x \in BOOLEAN}

\* Where imports lead, and which targets there are.
ByLayout ==
    {[Ordinary EXCEPT !.strategy = s, !.layout = l, !.patterns = p, !.imports = i, !.exported = e, !.marked = {DirD, DirE, InLocal, Vendored, Nested},
                      !.wants = {D}] :
        s \in {"go/packages", "toolchain-free"}, l \in Layouts,
        p \in {Everything, Only(<<"a">>), Only(<<"b">>) \cup Only(<<"c">>)},
        i \in {Ordinary.imports, [Ordinary.imports EXCEPT ![InMain(<<"a">>)] = {E, S}]}, e \in {{}, {S, E}}}

\* Sources that do not read, that conflict, or that the rules leave out.
ByContent ==
    {[Ordinary EXCEPT !.strategy = s, !.content = r, !.accepted = a, !.wants = {B, E}, !.exported = {E, S}] :
        s \in {"go/packages", "toolchain-free"},
        r \in {AllRead} \cup {[AllRead EXCEPT ![d] = c] : d \in {InMain(<<"b">>), InMain(<<>>), DirD}, c \in {"broken", "excluded", "conflicting"}},
        a \in {Paths, {M, B, D}}}

\* Cycles of imports, which the go command refuses: of the code under scan, and of dependencies.
Cycles ==
    {[Ordinary EXCEPT !.strategy = "toolchain-free", !.imports = i, !.exported = e, !.marked = m, !.wants = {E}] :
        i \in {[Ordinary.imports EXCEPT ![InMain(<<"b">>)] = {A, M}, ![InMain(<<>>)] = {B}], [Ordinary.imports EXCEPT ![DirE] = {D}]},
        e \in {{}, {D, E}}, m \in {{}, {DirD, DirE, InMain(<<>>)}}}

MCScans == <<ByOption, ByLayout, ByContent, Cycles>>

-----------------------------------------------------------------------------
Said(f, text) == <<[flag |-> f, text |-> text]>>
On(f) == Said(f, <<"true">>)
Text(t) == [kind |-> "text", text |-> t]
Empty == [kind |-> "nothing"]
List(items) == [kind |-> "list", items |-> items]
Mapping == [kind |-> "other"]
Keys(values) == [kind |-> "keys", values |-> values]

MCKeyOrder ==
    << <<"", "workdir">>, <<"diagnostics", "fail-on">>, <<"document", "input">>, <<"emit", "loader">>, <<"emit", "name-from-tags">>,
       <<"emit", "scan-models">>, <<"emit", "scan-modles">>, <<"load", "loader">>, <<"profile", "profile">>,
       <<"scan", "exclude-deps">>, <<"scan", "include">>, <<"scan", "workdir">> >>

Here == <<"here", ".codescan.yaml">>
HereToo == <<"here", ".codescan.yml">>
Above == <<"above", ".codescan.yaml">>
Spec0 == <<"api.json">>
Folder == <<"folder">>
Around == Spec0 :> [kind |-> "specification"] @@ Folder :> [kind |-> "directory"]

Plainly(program) ==
    [program |-> program, canExec |-> TRUE, typed |-> <<>>, args |-> <<>>, above |-> <<"here", "above">>, disk |-> Around]
Programs == {"genspec", "genspec-tui", "genspec-wasi"}

\* Files that say little, well and badly, beside what is typed.
Sayings ==
    {<<"diagnostics", "fail-on">> :> Text(<<"error">>), <<"", "workdir">> :> Text(<<".">>), <<"scan", "workdir">> :> Text(<<".">>),
     <<"document", "input">> :> Text(Spec0), <<"emit", "loader">> :> Text(<<"own">>), <<"emit", "scan-modles">> :> Text(<<"true">>),
     <<"emit", "name-from-tags">> :> Empty, <<"emit", "name-from-tags">> :> List(<<Text(<<"form">>), Empty, Text(<<"json">>)>>),
     <<"emit", "name-from-tags">> :> List(<<Mapping>>), <<"emit", "scan-models">> :> Text(<<"maybe">>), <<"emit", "scan-models">> :> Mapping,
     <<"load", "loader">> :> Text(<<"cargo">>), <<"load", "loader">> :> Text(<<"own">>), <<"profile", "profile">> :> Text(<<"true">>),
     <<"scan", "include">> :> Text(<<"b", "">>)}
Typings ==
    {<<>>, On("scan-models"), Said("name-from-tags", <<>>), Said("loader", <<"own">>), Said("include", <<"">>),
     Said("loader", <<"cargo">>) \o Said("loader", <<"go">>)}
ByFile ==
    {[Plainly(p) EXCEPT !.typed = t, !.disk = Above :> Keys(s @@ o) @@ Around] :
        p \in {"genspec", "genspec-tui"}, t \in Typings, s \in Sayings,
        o \in {<<>>, <<"scan", "exclude-deps">> :> Text(<<"true">>) @@ <<"emit", "scan-models">> :> Text(<<"false">>)}}

\* Files here, above and named, and none.
Asking ==
    {<<>>, Said("config", HereToo), Said("c", Above), Said("config", Above) \o Said("c", Above), Said("config", Here) \o Said("c", Above),
     On("no-config"), On("no-config") \o Said("c", Above), Said("c", Folder), Said("config", <<"gone">>)}
Places ==
    {Around, Here :> Keys(<<"emit", "scan-models">> :> Text(<<"false">>)) @@ Around, Here :> [kind |-> "directory"] @@ Around,
     Here :> [kind |-> "broken"] @@ Around}
BySearch ==
    {[Plainly(p) EXCEPT !.typed = t, !.disk = d @@ HereToo :> Keys(<<"scan", "exclude-deps">> :> Text(<<"true">>)) @@ a] :
        p \in {"genspec", "genspec-tui"}, t \in Asking, d \in Places,
        a \in {<<>>, Above :> Keys(<<"emit", "name-from-tags">> :> Empty)}}
    \cup {[Plainly("genspec") EXCEPT !.disk = d @@ Above :> Keys(<<"emit", "name-from-tags">> :> Empty)] : d \in Places}

\* What is typed, and what it leads to.
ByFlags ==
    {[Plainly(p) EXCEPT !.typed = t, !.canExec = (p # "genspec-wasi"), !.args = a] :
        p \in Programs, a \in {<<>>, <<"./a">>, <<"./c">>},
        t \in {<<>>, Said("h", <<>>), Said("config", Folder) \o Said("h", <<>>), On("version"), Said("name-concat-budget", <<"word">>),
               Said("scan-models", <<"no way">>), On("compiled-dependencies"), Said("format", <<"json">>), Said("format", <<"xml">>),
               Said("output", Folder), Said("export-data", Folder), Said("export-data", Spec0), Said("input", Spec0), Said("input", Folder),
               Said("input", <<"gone">>), Said("packages", <<"./b", "">>)}}
    \cup {[Plainly("genspec-wasi") EXCEPT !.typed = Said("loader", <<l>>), !.canExec = c] : l \in {"go", "own", "auto"}, c \in BOOLEAN}
ByVerdict ==
    {[Plainly("genspec") EXCEPT !.typed = v \o f \o m, !.args = <<"./a">>] :
        v \in {<<>>, On("validate")}, f \in {<<>>, Said("fail-on", <<"warning">>), Said("fail-on", <<"error">>), Said("fail-on", <<"all">>)},
        m \in {<<>>, On("quiet") \o Said("output", <<"out", "swagger.yaml">>), On("verbose")}}

MCLines == ByFile \cup BySearch \cup ByFlags \cup ByVerdict
MCTree == Ordinary
MCPatternsOf(pattern) ==
    CASE pattern = "./..." -> Everything [] pattern = "./a" -> Only(<<"a">>) [] pattern = "./b" -> Only(<<"b">>) [] OTHER -> Only(<<"c">>)
MCAccepted(include) == IF include = None THEN Paths ELSE {B}
=============================================================================
