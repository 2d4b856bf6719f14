------------------------------ MODULE Provenance ------------------------------
(***************************************************************************)
(* Options.OnProvenance: the anchors that tie a node of the document to the *)
(* source position it comes from.  The builders call RecordOrigin where a   *)
(* node is written; what happens to the anchor depends on where the build   *)
(* is.  Inside a definition it is buffered under the definition's key, for  *)
(* the key may still be pruned or renamed; inside a shared response that    *)
(* may be pruned it is buffered under the response; elsewhere it is fired.  *)
(* Parameters only leave their position, and are anchored when the order of *)
(* every operation's parameters is final.                                   *)
(*                                                                          *)
(* The module composes the stages of Build around the name reduction of     *)
(* NameReduction, whose steps it runs between pruning and the last flush.   *)
(* Which definitions and responses are unused is the subject of Prune: here *)
(* any of them may go.                                                      *)
(*                                                                          *)
(* A pointer is a sequence of reference tokens, and a token, being the key  *)
(* of a JSON object, a sequence of path segments: JSONPointer escapes the   *)
(* slashes of a key, so that a/b/Pet is one token.                          *)
(***************************************************************************)
EXTENDS NameReduction, SequencesExt, Functions, TLC

CONSTANTS
    Declaration,      \* type declarations: their package, names and fields
    Programs,         \* the programs and options considered
    NoSource          \* the position of what the caller's specification holds

VARIABLES
    phase,            \* the stage of Build
    program,          \* the program scanned, and the options
    suppressed,       \* declarations whose swagger:model name is suppressed
    toBuild,          \* models, responses and annotations still to be built
    building,         \* what is being built, or Nothing
    left,             \* its fields or headers still to be written
    schemas,          \* definition key -> its nodes -> their source
    responses,        \* response name -> its nodes -> their source
    objects,          \* operation object -> its id, parameters and keywords
    slots,            \* <<path, method>> -> the operation object there
    paramOrigins,     \* <<operation id, parameter name>> -> position
    defOrigins,       \* definition key -> its buffered anchors
    deferredOrigins,  \* response name -> its buffered anchors
    anchors           \* the anchors OnProvenance was called with

document == <<schemas, responses, objects, slots>>
buffers == <<paramOrigins, defOrigins, deferredOrigins, anchors>>
work == <<toBuild, building, left>>
origins == <<phase, program, suppressed, work, document, buffers>>

Tok(s) == <<s>>
Nothing == [kind |-> "nothing"]
EmptyFcn == [x \in {} |-> x]

-----------------------------------------------------------------------------
(* Names of the declarations.                                               *)

\* EntityDecl.DefKey: the package and the swagger:model name or the Go name.
KeyWith(d, withoutOverride) ==
    Append(d.pkg, IF d.model = "" \/ d \in withoutOverride THEN d.name ELSE d.model)
DefKey(d) == KeyWith(d, suppressed)

Before(d, e) ==
    LET k == KeyWith(d, {})  l == KeyWith(e, {})
    IN Rank(k) < Rank(l) \/ (k = l /\ Rank(<<d.name>>) < Rank(<<e.name>>))

-----------------------------------------------------------------------------
(* RecordOrigin.                                                            *)

Anchor(pointer, pos) == [pointer |-> pointer, pos |-> pos]
Buffered(buffer, key, recs) ==
    [k \in DOMAIN buffer \union {key} |->
        (IF k \in DOMAIN buffer THEN buffer[k] ELSE <<>>) \o (IF k = key THEN recs ELSE <<>>)]

\* The window that is open: curDefKey, else curDeferredKey, else none.  (A
\* response opens one only if it may be pruned.)
RecordOrigin(recs) ==
    CASE building.kind = "definition" ->
            /\ defOrigins' = Buffered(defOrigins, DefKey(building.decl), recs)
            /\ UNCHANGED <<deferredOrigins, anchors>>
      [] building.kind = "response" /\ program.pruning ->
            /\ deferredOrigins' = Buffered(deferredOrigins, building.decl.name, recs)
            /\ UNCHANGED <<defOrigins, anchors>>
      [] OTHER ->
            /\ anchors' = anchors \o recs
            /\ UNCHANGED <<defOrigins, deferredOrigins>>

DefPointer(name) == <<Tok("definitions"), name>>
ResponsePointer(name) == <<Tok("responses"), Tok(name)>>
OperationPointer(slot) == <<Tok("paths"), Tok(slot[1]), Tok(slot[2])>>

-----------------------------------------------------------------------------
ScanInit ==
    /\ program \in Programs
    /\ hierarchical = program.hierarchical
    /\ keys = {} /\ definitions = EmptyFcn
    /\ stage = "waiting"
    /\ renames = <<>> /\ taken = {} /\ containerRoots = {} /\ open = {} /\ cand = <<>>
    /\ todo = {} /\ members = <<>> /\ stamps = <<>>
    /\ phase = "naming"
    /\ suppressed = {}
    /\ toBuild = {} /\ building = Nothing /\ left = <<>>
    /\ schemas = [k \in program.pinned |-> (<<>> :> NoSource)]
    /\ responses = EmptyFcn /\ objects = EmptyFcn /\ slots = EmptyFcn
    /\ paramOrigins = EmptyFcn /\ defOrigins = EmptyFcn /\ deferredOrigins = EmptyFcn
    /\ anchors = <<>>

\* resolveSamePackageDuplicates: of the models that claim one key, the first
\* keeps it; the others fall back to their Go names, which are not looked at
\* again.
ResolveSamePackageDuplicates ==
    /\ phase = "naming"
    /\ suppressed' = {d \in program.models : \E e \in program.models :
                         KeyWith(e, {}) = KeyWith(d, {}) /\ Before(e, d)}
    /\ toBuild' = program.models
    /\ phase' = "models"
    /\ UNCHANGED <<vars, program, building, left, document, buffers>>

-----------------------------------------------------------------------------
(* Definitions: buildModels walks the Go map of the models.                 *)

BeginDefinition(d) ==
    /\ phase = "models"
    /\ building = Nothing
    /\ d \in toBuild
    /\ building' = [kind |-> "definition", decl |-> d]
    /\ left' = d.fields
    /\ UNCHANGED <<vars, phase, program, suppressed, toBuild, document, buffers>>

NodesOf(f, k) == IF k \in DOMAIN f THEN f[k] ELSE EmptyFcn
Restricted(f, S) == [x \in DOMAIN f \cap S |-> f[x]]

Property(f) == <<Tok("properties"), Tok(f.name)>>
Inner(f) == {Property(f) \o <<Tok("properties"), Tok(i)>> : i \in f.inner}

\* applyFieldCarrier: the value is built, and anchors its own nodes, before a
\* swagger:type replaces it by another schema; then the property is anchored.
BuildField ==
    /\ building.kind = "definition"
    /\ left # <<>>
    /\ LET f == Head(left)
           key == DefKey(building.decl)
           source == <<"field", building.decl.name, f.name>>
           under == {p \in DOMAIN NodesOf(schemas, key) : IsPrefix(Property(f), p)}
           before == NodesOf(schemas, key)
           kept == IF f.overridden THEN DOMAIN before \ under ELSE DOMAIN before
           written == (IF f.overridden THEN {} ELSE Inner(f)) \union {Property(f)}
       IN /\ schemas' = (key :> [p \in kept \union written |->
                                    IF p \in written THEN source ELSE before[p]]) @@ schemas
          /\ RecordOrigin([i \in 1..Cardinality(Inner(f)) |->
                              Anchor(DefPointer(key) \o SetToSeq(Inner(f))[i], source)]
                          \o <<Anchor(DefPointer(key) \o Property(f), source)>>)
    /\ left' = Tail(left)
    /\ UNCHANGED <<vars, phase, program, suppressed, toBuild, building, responses, objects,
                   slots, paramOrigins>>

EndDefinition ==
    /\ building.kind = "definition"
    /\ left = <<>>
    /\ LET d == building.decl
       IN /\ schemas' = (DefKey(d) :> ((<<>> :> <<"type", d.name>>) @@ NodesOf(schemas, DefKey(d))))
                           @@ schemas
          /\ RecordOrigin(<<Anchor(DefPointer(DefKey(d)), <<"type", d.name>>)>>)
          /\ toBuild' = toBuild \ {d}
    /\ building' = Nothing
    /\ UNCHANGED <<vars, phase, program, suppressed, left, responses, objects, slots,
                   paramOrigins>>

-----------------------------------------------------------------------------
(* Parameters: a struct applies its fields to each operation it names.      *)

Bound(id) == <<"bound", id>>
ParamNames(params) == {params[i].name : i \in DOMAIN params}

\* processParamField and the merge into the operation: the position is taken
\* before the field's type is looked at, and a field of that type may be skipped.
WithField(params, p) ==
    IF p.skipped THEN params
    ELSE Append(SelectSeq(params, LAMBDA q : q.name # p.name),
                [name |-> p.name, from |-> <<"param", p.struct, p.name>>])

BuildParameters ==
    /\ phase = "models"
    /\ toBuild = {} /\ building = Nothing
    /\ LET ids == {p.op : p \in Range(program.parameters)}
           Of(id) == SelectSeq(program.parameters, LAMBDA p : p.op = id)
       IN /\ objects' = [o \in {Bound(id) : id \in ids} |->
                            [id |-> o[2], keywords |-> EmptyFcn,
                             params |-> FoldLeft(WithField, <<>>, Of(o[2]))]]
          /\ paramOrigins' =
                [n \in {<<p.op, p.name>> : p \in Range(program.parameters)} |->
                    LET i == CHOOSE i \in DOMAIN program.parameters :
                                /\ <<program.parameters[i].op, program.parameters[i].name>> = n
                                /\ \A j \in DOMAIN program.parameters : j > i =>
                                     <<program.parameters[j].op, program.parameters[j].name>> # n
                    IN <<"param", program.parameters[i].struct, n[2]>>]
    /\ toBuild' = DOMAIN program.responses
    /\ phase' = "responses"
    /\ UNCHANGED <<vars, program, suppressed, building, left, schemas, responses, slots,
                   defOrigins, deferredOrigins, anchors>>

-----------------------------------------------------------------------------
(* Shared responses, in the order of their declarations, first one kept.    *)

NextToBuild == CHOOSE i \in toBuild : \A j \in toBuild : i <= j
Registered == {program.responses[i].name : i \in DOMAIN program.responses \ toBuild}

BeginResponse ==
    /\ phase = "responses"
    /\ building = Nothing
    /\ toBuild # {}
    /\ LET r == program.responses[NextToBuild]
       IN IF r.name \in Registered
          THEN UNCHANGED <<building, left>>
          ELSE building' = [kind |-> "response", decl |-> r] /\ left' = r.headers
    /\ toBuild' = toBuild \ {NextToBuild}
    /\ UNCHANGED <<vars, phase, program, suppressed, document, buffers>>

BuildHeader ==
    /\ building.kind = "response"
    /\ left # <<>>
    /\ LET name == building.decl.name
           path == <<Tok("headers"), Tok(Head(left))>>
           source == <<"header", building.decl.struct, Head(left)>>
       IN /\ responses' = (name :> ((path :> source) @@ NodesOf(responses, name))) @@ responses
          /\ RecordOrigin(<<Anchor(ResponsePointer(name) \o path, source)>>)
    /\ left' = Tail(left)
    /\ UNCHANGED <<vars, phase, program, suppressed, toBuild, building, schemas, objects, slots,
                   paramOrigins>>

EndResponse ==
    /\ building.kind = "response"
    /\ left = <<>>
    /\ LET name == building.decl.name
           source == <<"response", building.decl.struct>>
       IN /\ responses' = (name :> ((<<>> :> source) @@ NodesOf(responses, name))) @@ responses
          /\ RecordOrigin(<<Anchor(ResponsePointer(name), source)>>)
    /\ building' = Nothing
    /\ UNCHANGED <<vars, phase, program, suppressed, toBuild, left, schemas, objects, slots,
                   paramOrigins>>

EndResponses ==
    /\ phase = "responses"
    /\ toBuild = {} /\ building = Nothing
    /\ toBuild' = DOMAIN program.annotations
    /\ phase' = "paths"
    /\ UNCHANGED <<vars, program, suppressed, building, left, document, buffers>>

-----------------------------------------------------------------------------
(* Routes and operations.                                                   *)

InlineParam(name) == [name |-> name, from |-> <<"inline">>]

\* A route adds its parameters one by one; the body of an operation is decoded
\* into a list of its own, and what a struct had bound is merged back.
WithParam(params, name) ==
    IF name # "" /\ name \in ParamNames(params)
    THEN [i \in DOMAIN params |-> IF params[i].name = name THEN InlineParam(name) ELSE params[i]]
    ELSE Append(params, InlineParam(name))
WithInline(kind, params, names) ==
    IF kind = "route" THEN FoldLeft(WithParam, params, names)
    ELSE [i \in DOMAIN names |-> InlineParam(names[i])]
         \o SelectSeq(params, LAMBDA q : q.name = "" \/ q.name \notin Range(names))

Methods == {"get", "post"}

\* The operation object the annotation i writes: the one that has the slot, if
\* it has the annotation's id; else the one a struct bound, or a new one.
ObjectOf(i) ==
    LET a == program.annotations[i]
        slot == <<a.path, a.method>>
    IN IF slot \in DOMAIN slots /\ objects[slots[slot]].id = a.id THEN slots[slot]
       ELSE IF Bound(a.id) \in DOMAIN objects THEN Bound(a.id)
       ELSE <<"new", i>>

BuildAnnotation ==
    /\ phase = "paths"
    /\ toBuild # {}
    /\ LET i == NextToBuild
           a == program.annotations[i]
           slot == <<a.path, a.method>>
           o == ObjectOf(i)
           old == IF o \in DOMAIN objects THEN objects[o]
                  ELSE [id |-> a.id, keywords |-> EmptyFcn, params |-> <<>>]
           source == <<"annotation", i>>
           keywordPos(kw) == <<"keyword", i, kw>>
       IN /\ objects' = (o :> [old EXCEPT
                               !.params = WithInline(a.kind, @, a.params),
                               !.keywords = [kw \in Range(a.keywords) |-> keywordPos(kw)] @@ @])
                        @@ objects
          /\ slots' = IF a.method \in Methods THEN (slot :> o) @@ slots ELSE slots
          /\ RecordOrigin([j \in DOMAIN a.keywords |->
                              Anchor(OperationPointer(slot) \o <<Tok(a.keywords[j])>>,
                                     keywordPos(a.keywords[j]))]
                          \o <<Anchor(OperationPointer(slot), source)>>)
          /\ toBuild' = toBuild \ {i}
    /\ UNCHANGED <<vars, phase, program, suppressed, building, left, schemas, responses,
                   paramOrigins>>

\* validateSharedRefs: a parameter that is a $ref to no shared parameter is
\* dropped, and the ones after it move up.  (Such a reference has no name; the
\* shared parameters themselves are SharedObjects'.)
ValidateSharedRefs ==
    /\ phase = "paths"
    /\ toBuild = {}
    /\ objects' = [o \in DOMAIN objects |->
                      [objects[o] EXCEPT !.params = SelectSeq(@, LAMBDA q : q.name # "")]]
    /\ phase' = "anchoring"
    /\ UNCHANGED <<vars, program, suppressed, work, schemas, responses, slots, buffers>>

ParamPointer(slot, i) == OperationPointer(slot) \o <<Tok("parameters"), Tok(i)>>

\* emitParameterAnchors: each parameter of the finished operations for which a
\* field of its name left a position.
Parameters(slot) == objects[slots[slot]].params
OriginKey(slot, i) == <<objects[slots[slot]].id, Parameters(slot)[i].name>>
\* Mutant: the index counts the anchored parameters only.
ParamAnchorsRenumbered(slot) ==
    LET anchored == SelectSeq([i \in DOMAIN Parameters(slot) |-> i],
                              LAMBDA i : OriginKey(slot, i) \in DOMAIN paramOrigins)
    IN [n \in DOMAIN anchored |-> Anchor(ParamPointer(slot, n),
                                         paramOrigins[OriginKey(slot, anchored[n])])]

ParamAnchorsOf(slot) ==
    LET anchored == SelectSeq([i \in DOMAIN Parameters(slot) |-> i],
                              LAMBDA i : OriginKey(slot, i) \in DOMAIN paramOrigins)
    IN [n \in DOMAIN anchored |-> Anchor(ParamPointer(slot, anchored[n]),
                                         paramOrigins[OriginKey(slot, anchored[n])])]
EmitParameterAnchors ==
    /\ phase = "anchoring"
    /\ anchors' = anchors \o FlattenSeq([n \in 1..Cardinality(DOMAIN slots) |->
                        ParamAnchorsOf(SetToSeq(DOMAIN slots)[n])])
    /\ phase' = IF program.pruning THEN "pruning" ELSE "flushing"
    /\ UNCHANGED <<vars, program, suppressed, work, document, paramOrigins, defOrigins,
                   deferredOrigins>>

-----------------------------------------------------------------------------
(* Pruning, the reduction of the names, and the two flushes.                *)

Scanned == DOMAIN schemas \ program.pinned

\* Mutant: the anchors of a pruned definition are kept.
PruneUnusedModelsOnly ==
    /\ phase = "pruning"
    /\ \E gone \in SUBSET Scanned, dropped \in SUBSET DOMAIN responses :
        /\ schemas' = Restricted(schemas, DOMAIN schemas \ gone)
        /\ responses' = Restricted(responses, DOMAIN responses \ dropped)
        /\ deferredOrigins' = Restricted(deferredOrigins, DOMAIN deferredOrigins \ dropped)
    /\ phase' = "flushing"
    /\ UNCHANGED <<vars, program, suppressed, work, objects, slots, paramOrigins, defOrigins,
                   anchors>>

PruneUnusedModels ==
    /\ phase = "pruning"
    /\ \E gone \in SUBSET Scanned, dropped \in SUBSET DOMAIN responses :
        /\ schemas' = Restricted(schemas, DOMAIN schemas \ gone)
        /\ defOrigins' = Restricted(defOrigins, DOMAIN defOrigins \ gone)
        /\ responses' = Restricted(responses, DOMAIN responses \ dropped)
        /\ deferredOrigins' = Restricted(deferredOrigins, DOMAIN deferredOrigins \ dropped)
    /\ phase' = "flushing"
    /\ UNCHANGED <<vars, program, suppressed, work, objects, slots, paramOrigins, anchors>>

\* A buffer is flushed in the order of its keys, each key's anchors in turn.
InOrder(buffer, f(_, _)) ==
    LET Nth(i) == CHOOSE k \in DOMAIN buffer :
                      Cardinality({j \in DOMAIN buffer : Rank(j) < Rank(k)}) = i - 1
        Of(k) == [n \in DOMAIN buffer[k] |-> f(k, buffer[k][n])]
    IN FlattenSeq([i \in 1..Cardinality(DOMAIN buffer) |-> Of(Nth(i))])

\* FlushDeferredOrigins, and the start of reduceDefinitionNames.
FlushDeferredOrigins ==
    /\ phase = "flushing"
    /\ anchors' = anchors \o FlattenSeq(SetToSeq(Range(deferredOrigins)))
    /\ deferredOrigins' = EmptyFcn
    /\ stage' = "lifting"
    /\ keys' = DOMAIN schemas
    /\ definitions' = [k \in DOMAIN schemas |-> k]
    /\ phase' = "reducing"
    /\ UNCHANGED <<hierarchical, renames, taken, containerRoots, open, cand, todo, members,
                   stamps, program, suppressed, work, document, paramOrigins, defOrigins>>

ReduceDefinitionNames ==
    /\ phase = "reducing"
    /\ Step
    /\ UNCHANGED origins

\* The base of each pointer is replaced by one made of the final name.
FlushDefOrigins ==
    /\ phase = "reducing"
    /\ stage = "done"
    /\ anchors' = anchors \o InOrder(defOrigins, LAMBDA k, a :
            Anchor(DefPointer(NewName(k)) \o SubSeq(a.pointer, 3, Len(a.pointer)), a.pos))
    /\ defOrigins' = EmptyFcn
    /\ phase' = "finished"
    /\ UNCHANGED <<vars, program, suppressed, work, document, paramOrigins, deferredOrigins>>

Finished == phase = "finished" /\ UNCHANGED <<vars, origins>>

ScanNext ==
    \/ ResolveSamePackageDuplicates
    \/ \E d \in toBuild : BeginDefinition(d)
    \/ BuildField \/ EndDefinition
    \/ BuildParameters
    \/ BeginResponse \/ BuildHeader \/ EndResponse \/ EndResponses
    \/ BuildAnnotation \/ ValidateSharedRefs \/ EmitParameterAnchors
    \/ PruneUnusedModels \/ FlushDeferredOrigins \/ ReduceDefinitionNames \/ FlushDefOrigins
    \/ Finished

ScanSpec == ScanInit /\ [][ScanNext]_<<vars, origins>>
-----------------------------------------------------------------------------
(* Properties of the finished document and of the anchors fired for it.     *)

Entry(pointer, source) == [pointer |-> pointer, source |-> source]

\* Where the schema of the key k stands: a nested one below its containers.
Place(k) == IF IsNested(k) THEN <<Tok("definitions")>> \o [i \in DOMAIN NewName(k) |-> Tok(NewName(k)[i])]
            ELSE DefPointer(NewName(k))
DefinitionNodes ==
    UNION {{Entry(Place(k) \o p, schemas[k][p]) : p \in DOMAIN schemas[k]} : k \in DOMAIN schemas}
ResponseNodes ==
    UNION {{Entry(ResponsePointer(n) \o p, responses[n][p]) : p \in DOMAIN responses[n]} :
              n \in DOMAIN responses}
AnnotationAt(slot) ==
    CHOOSE i \in DOMAIN program.annotations :
        LET a == program.annotations[i]
        IN /\ <<a.path, a.method>> = slot
           /\ \A j \in DOMAIN program.annotations : j > i =>
                  <<program.annotations[j].path, program.annotations[j].method>> # slot
OperationNodes(slot) ==
    LET o == objects[slots[slot]]
    IN {Entry(OperationPointer(slot), <<"annotation", AnnotationAt(slot)>>)}
       \union {Entry(OperationPointer(slot) \o <<Tok(kw)>>, o.keywords[kw]) : kw \in DOMAIN o.keywords}
       \union {Entry(ParamPointer(slot, i), o.params[i].from) : i \in DOMAIN o.params}
Nodes == DefinitionNodes \union ResponseNodes \union UNION {OperationNodes(s) : s \in DOMAIN slots}

\* SourceIndex: the last record of a pointer wins, and a node without one is
\* at the position of its nearest ancestor that has one.
Anchored == {anchors[i].pointer : i \in DOMAIN anchors}
LastFor(p) == anchors[CHOOSE i \in DOMAIN anchors :
                         /\ anchors[i].pointer = p
                         /\ \A j \in DOMAIN anchors : j > i => anchors[j].pointer # p].pos
HasPosition(p) == \E n \in 1..Len(p) : SubSeq(p, 1, n) \in Anchored
PositionFor(p) ==
    LastFor(SubSeq(p, 1, CHOOSE n \in 1..Len(p) :
                             /\ SubSeq(p, 1, n) \in Anchored
                             /\ \A m \in (n + 1)..Len(p) : SubSeq(p, 1, m) \notin Anchored))

IsFinished == phase = "finished"

Resolving(p) == \E e \in Nodes : e.pointer = p

\* Every pointer handed to OnProvenance is one of a node of the document:
\* whatever is buffered, pruned, renamed or dropped on the way, none dangles.
\* (buildDiscoveredSchema says so; two kinds of anchors do dangle.)
AnchorsResolve == IsFinished => \A p \in Anchored : Resolving(p)

\* The two kinds: what a definition emitted nested is anchored by, since its
\* final name is escaped as one token; and what an anonymous struct anchored
\* below a property before swagger:type replaced its value.
NestedKeys == {k \in DOMAIN schemas : IsNested(k)}
Escaped(p) == \E k \in NestedKeys : IsPrefix(DefPointer(NewName(k)), p)
Replaced(p) ==
    \E d \in program.models : \E f \in Range(d.fields) :
        /\ f.overridden
        /\ p \in {DefPointer(NewName(DefKey(d))) \o inner : inner \in Inner(f)}

\* A jump from a node leads to the code that wrote the node, or to the code
\* that wrote a node around it.  (Where a struct's field and an inline parameter
\* of one operation share a name, the one position left is the field's.)
Writers(p) == {e.source : e \in {x \in Nodes : IsPrefix(x.pointer, p)}}

\* Whatever was recorded under one pointer by several builders, and however lists were filtered since, the
\* position found for a node is of code that wrote it (emitParameterAnchors, FlushDefOrigins).
JumpsAreTrue ==
    IsFinished => \A e \in Nodes :
        e.source # NoSource /\ e.source # <<"inline">> /\ HasPosition(e.pointer) =>
            PositionFor(e.pointer) \in Writers(e.pointer)

\* What the scan made can be found: each definition, property, response, header,
\* operation and bound parameter that reaches the document has an anchor of its
\* own, where it stands or, if it is nested, under its escaped name; and no
\* anchor is left in a buffer.
IsAnchored(e) ==
    \/ e.pointer \in Anchored
    \/ \E k \in NestedKeys :
          /\ IsPrefix(Place(k), e.pointer)
          /\ DefPointer(NewName(k)) \o SubSeq(e.pointer, Len(Place(k)) + 1, Len(e.pointer))
                \in Anchored
NodesAreAnchored ==
    IsFinished =>
        /\ \A e \in Nodes : e.source # NoSource /\ e.source # <<"inline">>
                               /\ e.source[1] # "keyword" => IsAnchored(e)
        /\ DOMAIN defOrigins = {} /\ DOMAIN deferredOrigins = {}

\* Anchors and nodes match, both ways: none is missing, and of those handed to
\* OnProvenance only the two kinds above dangle, whatever is buffered, pruned,
\* renamed or dropped on the way.
AnchorsMatchNodes ==
    /\ IsFinished => \A p \in Anchored : Resolving(p) \/ Escaped(p) \/ Replaced(p)
    /\ NodesAreAnchored
=============================================================================
