----------------------------- MODULE SharedObjects -----------------------------
(***************************************************************************)
(* How Builder.Build gives operations and paths their parameters and         *)
(* responses: buildParameters, registerSharedParameters, applyParameterRefs, *)
(* buildRoutes, buildOperations, applyPathItemParameters and                 *)
(* validateSharedRefs, with the builders of parameters, routes and           *)
(* operations they call.                                                     *)
(*                                                                          *)
(* Operations are pointers in the code: the one that declarations bound to   *)
(* an id is the one every annotation of that id lands on.  Objects are names *)
(* here, and `slots` says which object stands where.                         *)
(***************************************************************************)
EXTENDS Registrations, SequencesExt

VARIABLES
    intents,          \* references asked for: an operation and a name
    inlines,          \* parameters asked for: a path and a declaration
    objects,          \* operations: object -> id, parameters, responses
    slots,            \* Swagger.Paths, operations: path and method -> object
    pathItems,        \* Swagger.Paths, parameters of its own: path -> parameters
    reports           \* diagnostics about what was dropped

gathered == <<candidates, intents, inlines>>
paths == <<objects, slots, pathItems>>
vars == <<input, phase, left, gathered, parameters, paths, reports>>

Annotation(a) == input.annotations[a]
IsResponseRef(r) == DOMAIN r = {"response"}
Slot(a) == <<Annotation(a).path, Annotation(a).method>>
Registered == input.registered.responses \union input.supplied.responses

\* An operation in Builder.operations, and one only its annotation knows.
Bound(id) == <<"bound", id>>
Own(a) == <<"own", a>>
New(id) == [id |-> id, parameters |-> <<>>, responses |-> <<>>]
Object(o, id) == IF o \in DOMAIN objects THEN objects[o] ELSE New(id)
With(f, x, y) == [z \in DOMAIN f \union {x} |-> IF z = x THEN y ELSE f[z]]

Annotated(kind) == {a \in DOMAIN input.annotations : Annotation(a).kind = kind}

\* NewBuilder: InputSpec's objects, and its operations by their ids.
Init ==
    /\ input \in Inputs
    /\ phase = "parameters"
    /\ left = DOMAIN input.declarations
    /\ candidates = {} /\ intents = {} /\ inlines = {}
    /\ parameters = [n \in input.supplied.parameters |-> <<"InputSpec">>]
    /\ objects = [o \in {Bound(s.id) : s \in Range(input.supplied.operations)} |->
           LET s == CHOOSE s \in Range(input.supplied.operations) : Bound(s.id) = o
           IN [id |-> s.id, parameters |-> s.parameters, responses |-> <<>>]]
    /\ slots = [w \in DOMAIN input.supplied.operations |->
           Bound(input.supplied.operations[w].id)]
    /\ pathItems = input.supplied.pathItems
    /\ reports = {}
-----------------------------------------------------------------------------
(* buildParameters                                                          *)

Named(ps, n) == {i \in DOMAIN ps : ps[i].name = n}

\* buildFromStruct: a field takes the place of a parameter of its name.
WithField(ps, p) ==
    Append(IF Named(ps, p.name) = {} THEN ps ELSE RemoveAt(ps, Min(Named(ps, p.name))), p)

DeclaredBy(fields, who) == [i \in DOMAIN fields |-> Declared(fields[i], who)]
ParametersOf(d) == DeclaredBy(Declaration(d).fields, <<"declaration", d>>)
BuildParameters(d) ==
    /\ phase = "parameters"
    /\ d \in left
    /\ left' = left \ {d}
    /\ objects' = [o \in DOMAIN objects \union {Bound(id) : id \in Declaration(d).operations} |->
           IF \E id \in Declaration(d).operations : o = Bound(id)
           THEN LET old == Object(o, o[2])
                IN [old EXCEPT !.parameters = FoldLeft(WithField, @, ParametersOf(d))]
           ELSE objects[o]]
    /\ candidates' = candidates \union
           {<<d, n>> : n \in IF Declaration(d).isShared THEN NamesOf(d) ELSE {}}
    /\ intents' = intents \union
           (Declaration(d).sharedOperations \X IF Declaration(d).isShared THEN NamesOf(d) ELSE {})
    /\ inlines' = inlines \union (Declaration(d).paths \X {d})
    /\ UNCHANGED <<input, phase, parameters, slots, pathItems, reports>>

\* registerSharedParameters sorts the candidates and takes them one by one.
\* Mutant: without the sort.
IsNextUnsorted(c) == c \in left
IsNext(c) == c \in left /\ \A b \in left : c[1] <= b[1]

RegisterCandidate(c) ==
    /\ phase = "registration"
    /\ IsNext(c)
    /\ left' = left \ {c}
    /\ IF c[2] \in DOMAIN parameters
       THEN /\ reports' = reports \union {<<"conflict", c>>}
            /\ UNCHANGED parameters
       ELSE /\ parameters' = With(parameters, c[2], <<"declaration", c[1]>>)
            /\ UNCHANGED reports
    /\ UNCHANGED <<input, phase, gathered, paths>>

\* addParameterRef.  (The code sorts the intents: that is the order in the list.)
Refers(ps, n) == \E i \in DOMAIN ps : ps[i].ref = n

WithReference(ps, n) == IF Refers(ps, n) THEN ps ELSE Append(ps, Reference(n))

ApplyParameterRef(i) ==
    /\ phase = "references"
    /\ i \in left
    /\ left' = left \ {i}
    /\ IF i[2] \in DOMAIN parameters
       THEN LET o == Object(Bound(i[1]), i[1])
            IN /\ objects' = With(objects, Bound(i[1]),
                                  [o EXCEPT !.parameters = WithReference(@, i[2])])
               /\ UNCHANGED reports
       ELSE /\ reports' = reports \union {<<"parameter", i>>}
            /\ UNCHANGED objects
    /\ UNCHANGED <<input, phase, gathered, parameters, slots, pathItems>>
-----------------------------------------------------------------------------
(* buildRoutes and buildOperations                                          *)

\* setPathOperation: the object in the slot if it has the id, else the one the
\* id is bound to, else a new one.
Target(a) ==
    IF Slot(a) \in DOMAIN slots /\ objects[slots[Slot(a)]].id = Annotation(a).id
    THEN slots[Slot(a)]
    ELSE IF Bound(Annotation(a).id) \in DOMAIN objects THEN Bound(Annotation(a).id)
    ELSE Own(a)

Body(a) == DeclaredBy(Annotation(a).fields, <<"annotation", a>>)

\* AddParam: the one of the same name and location is replaced.
AddParam(ps, p) ==
    LET same == {i \in DOMAIN ps : ps[i].name = p.name /\ ps[i].in = p.in}
    IN IF same = {} THEN Append(ps, p) ELSE [ps EXCEPT ![Min(same)] = p]

\* parametersCollide.  Mutant: by location alone.
CollideByLocation(p, q) == p.in = q.in
Collide(p, q) ==
    IF p.in = "body" \/ q.in = "body" THEN p.in = q.in
    ELSE p.in = q.in /\ p.name = q.name

\* mergeBoundParameters.  Mutant: bound ones are forgotten.
MergedInlineOnly(inline, bound) == inline
Merged(inline, bound) ==
    inline \o SelectSeq(bound, LAMBDA p : \A i \in DOMAIN inline : ~Collide(inline[i], p))

\* buildRouteResponse: a response of that name, else a model, else nothing.
RouteResponses(a) ==
    LET asked == Annotation(a).responses
        Known(n) == n \in Registered \union input.registered.models
    IN [c \in {d \in DOMAIN asked : Known(asked[d])} |->
            IF asked[c] \in Registered THEN [response |-> asked[c]] ELSE [model |-> asked[c]]]

Attach(a, object) ==
    /\ left' = left \ {a}
    /\ objects' = With(objects, Target(a), object)
    /\ slots' = With(slots, Slot(a), Target(a))
    /\ pathItems' = IF Annotation(a).path \in DOMAIN pathItems THEN pathItems
                    ELSE With(pathItems, Annotation(a).path, <<>>)
    /\ UNCHANGED <<input, phase, gathered, parameters>>

\* A code is written over, a default response is not.
BuildRoute(a) ==
    /\ phase = "routes"
    /\ a \in left
    /\ LET op == Object(Target(a), Annotation(a).id)
           new == RouteResponses(a)
       IN Attach(a, [op EXCEPT
              !.parameters = FoldLeft(AddParam, @, Body(a)),
              !.responses = [c \in DOMAIN @ \union DOMAIN new |->
                  IF c \in DOMAIN new /\ ~(c = "default" /\ c \in DOMAIN @)
                  THEN new[c] ELSE @[c]]])
    /\ reports' = reports \union
           {<<"response", Annotation(a).path, Annotation(a).responses[c]>> :
               c \in DOMAIN Annotation(a).responses \ DOMAIN RouteResponses(a)}

\* A YAML body is taken as it is written, references included.
YAMLResponses(a) ==
    [c \in DOMAIN Annotation(a).responses |-> [response |-> Annotation(a).responses[c]]]
YAMLParameters(a) == Body(a) \o SetToSeq({Reference(n) : n \in Annotation(a).references})

BuildOperation(a) ==
    /\ phase = "operations"
    /\ a \in left
    /\ LET op == Object(Target(a), Annotation(a).id)
       IN Attach(a, [op EXCEPT
              !.parameters = Merged(YAMLParameters(a), @),
              !.responses = YAMLResponses(a) @@ @])
    /\ UNCHANGED reports
-----------------------------------------------------------------------------
(* applyPathItemParameters and validateSharedRefs                           *)

InlinedIn(p) == {d \in DOMAIN input.declarations : <<p, d>> \in inlines}
ReferredIn(p) == {i[2] : i \in {j \in input.pathReferences : j[1] = p}}

\* Inlined parameters by declaration, then references.
AddedTo(p) ==
    FlattenSeq([i \in 1..Cardinality(InlinedIn(p)) |->
                    ParametersOf(SetToSortSeq(InlinedIn(p), <)[i])])
    \o SetToSeq({Reference(n) : n \in ReferredIn(p) \intersect DOMAIN parameters})

ApplyPathItemParameters ==
    /\ phase = "path items"
    /\ phase' = "validation"
    /\ pathItems' = [p \in DOMAIN pathItems |-> pathItems[p] \o AddedTo(p)]
    /\ reports' = reports
           \union {<<"parameter", i>> :
                      i \in {j \in input.pathReferences : j[2] \notin DOMAIN parameters}}
           \union {<<"path", p>> : p \in {q \in Path \ DOMAIN pathItems : AddedTo(q) # <<>>}}
    /\ UNCHANGED <<input, left, gathered, parameters, objects, slots>>

Dangles(p) == IsReference(p) /\ p.ref \notin DOMAIN parameters
DanglesAsResponse(r) == IsResponseRef(r) /\ r.response \notin Registered

\* keepResolvableParamRefs.
KeptOf(ps) == SelectSeq(ps, LAMBDA p : ~Dangles(p))

ValidateSharedRefs ==
    /\ phase = "validation"
    /\ phase' = "done"
    /\ pathItems' = [p \in DOMAIN pathItems |-> KeptOf(pathItems[p])]
    /\ objects' = [o \in DOMAIN objects |->
           IF o \in Range(slots)
           THEN [objects[o] EXCEPT
                    !.parameters = KeptOf(@),
                    !.responses = [c \in {d \in DOMAIN @ : ~DanglesAsResponse(@[d])} |-> @[c]]]
           ELSE objects[o]]
    /\ reports' = reports
           \union UNION {{<<"parameter", <<p, q.ref>>>> : q \in {r \in Range(pathItems[p]) : Dangles(r)}}
                            : p \in DOMAIN pathItems}
           \union UNION {LET op == objects[slots[w]]
                         IN {<<"parameter", <<w[1], q.ref>>>> :
                                q \in {r \in Range(op.parameters) : Dangles(r)}}
                            \union {<<"response", w[1], q.response>> :
                                q \in {r \in Range(op.responses) : DanglesAsResponse(r)}}
                            : w \in DOMAIN slots}
    /\ UNCHANGED <<input, left, gathered, parameters, slots>>

\* Build goes on to its next loop.
Goes(from, to, work) ==
    /\ phase = from
    /\ left = {}
    /\ phase' = to
    /\ left' = work
    /\ UNCHANGED <<input, gathered, parameters, paths, reports>>

ToRegistration == Goes("parameters", "registration", candidates)
ToReferences == Goes("registration", "references", intents \union input.references)
ToRoutes == Goes("references", "routes", Annotated("route"))
ToOperations == Goes("routes", "operations", Annotated("operation"))
ToPathItems == Goes("operations", "path items", {})

Done == phase = "done" /\ UNCHANGED vars

Next ==
    \/ \E d \in left : BuildParameters(d)
    \/ ToRegistration
    \/ \E c \in left : RegisterCandidate(c)
    \/ ToReferences
    \/ \E i \in left : ApplyParameterRef(i)
    \/ ToRoutes
    \/ \E a \in left : BuildRoute(a)
    \/ ToOperations
    \/ \E a \in left : BuildOperation(a)
    \/ ToPathItems
    \/ ApplyPathItemParameters
    \/ ValidateSharedRefs
    \/ Done

Spec == Init /\ [][Next]_vars
-----------------------------------------------------------------------------
(* Properties                                                               *)

Parameter == [name : Name \union {""}, in : Location \union {""}, ref : Name \union {""},
              from : {<<"reference">>, <<"supplied">>}
                        \union {<<"declaration", d>> : d \in DOMAIN input.declarations}
                        \union {<<"annotation", a>> : a \in DOMAIN input.annotations}]
Response == [response : Name] \union [model : input.registered.models]

TypeOK ==
    /\ \A o \in DOMAIN objects :
           /\ objects[o].id \in OpId
           /\ objects[o].parameters \in Seq(Parameter)
           /\ DOMAIN objects[o].responses \subseteq Codes
           /\ Range(objects[o].responses) \subseteq Response
    /\ DOMAIN slots \subseteq Path \X Method
    /\ Range(slots) \subseteq DOMAIN objects
    /\ DOMAIN pathItems \subseteq Path
    /\ \A p \in DOMAIN pathItems : pathItems[p] \in Seq(Parameter)
    /\ candidates \subseteq (DOMAIN input.declarations) \X Name
    /\ intents \subseteq OpId \X Name
    /\ inlines \subseteq Path \X DOMAIN input.declarations
    /\ DOMAIN parameters \subseteq Name

IsDone == phase = "done"
At(w) == objects[slots[w]]
AllParameters == UNION ({Range(At(w).parameters) : w \in DOMAIN slots}
                            \union {Range(pathItems[p]) : p \in DOMAIN pathItems})

\* The document that is handed on holds no reference to a shared parameter or
\* response that is not there, whoever wrote it and wherever it stands.
ReferencesResolve ==
    IsDone => /\ \A p \in AllParameters : ~Dangles(p)
              /\ \A w \in DOMAIN slots : \A c \in DOMAIN At(w).responses :
                     ~DanglesAsResponse(At(w).responses[c])

\* Every parameter of an operation was given to its id: by a declaration that
\* names it, an annotation that has it, a marker, or InputSpec.  An annotation that
\* takes over a path and method takes nothing over from the operation there.
GivenTo(id, p) ==
    \/ \E d \in DOMAIN input.declarations :
           p.from = <<"declaration", d>> /\ id \in Declaration(d).operations
    \/ \E a \in DOMAIN input.annotations :
           /\ Annotation(a).id = id
           /\ p.from = <<"annotation", a>> \/ p.ref \in Annotation(a).references
    \/ <<id, p.ref>> \in intents \union input.references
    \/ \E s \in Range(input.supplied.operations) : s.id = id /\ p \in Range(s.parameters)
NothingForeign ==
    \A w \in DOMAIN slots : \A p \in Range(At(w).parameters) : GivenTo(At(w).id, p)

\* Where an annotation stands that no other shares its id with.
Stands(a) ==
    /\ Slot(a) \in DOMAIN slots /\ At(Slot(a)).id = Annotation(a).id
    /\ \A b \in DOMAIN input.annotations : Annotation(b).id = Annotation(a).id => b = a

\* What an annotation lists in its own body wins over what a declaration gives
\* the operation: for a swagger:operation, the one body parameter too.
InlineWins ==
    IsDone => \A a \in DOMAIN input.annotations : Stands(a) =>
        \A f \in Range(Annotation(a).fields) : \A p \in Range(At(Slot(a)).parameters) :
            (\/ p.name = f.name /\ p.in = f.in
             \/ Annotation(a).kind = "operation" /\ p.in = "body" /\ f.in = "body")
            => p.from = <<"annotation", a>>

\* A field of a declaration reaches the operation it is declared for, unless a
\* parameter of its name and location, or another body, is there instead.  (Of two
\* declarations for one operation that use one name, the later takes it over.)
Rivals(d, id, n) ==
    {e \in DOMAIN input.declarations \ {d} : id \in Declaration(e).operations /\ n \in NamesOf(e)}
FieldsArrive ==
    IsDone => \A w \in DOMAIN slots : \A d \in DOMAIN input.declarations :
        At(w).id \in Declaration(d).operations =>
            \A f \in Range(Declaration(d).fields) :
                \/ Rivals(d, At(w).id, f.name) # {}
                \/ \E p \in Range(At(w).parameters) :
                       p.in = f.in /\ (p.name = f.name \/ f.in = "body")

\* No operation has two parameters of one name and location, nor one reference twice.
NoDuplicates ==
    \A w \in DOMAIN slots : LET ps == At(w).parameters
        IN \A i, j \in DOMAIN ps :
              ps[i].name = ps[j].name /\ ps[i].in = ps[j].in /\ ps[i].ref = ps[j].ref => i = j

\* A reference, a registration, a path's parameter or a response that someone asked for
\* is in the document or its loss is reported.
Asked == intents \union input.references
IsReported(loss) == loss \in reports
RegistrationsAreAnswered ==
    \A c \in candidates : parameters[c[2]] = <<"declaration", c[1]>> \/ IsReported(<<"conflict", c>>)
ReferencesAreAnswered ==
    \A i \in Asked : \A w \in DOMAIN slots : At(w).id = i[1] =>
        Refers(At(w).parameters, i[2]) \/ IsReported(<<"parameter", i>>)
PathsAreAnswered ==
    /\ \A i \in input.pathReferences :
           \/ i[1] \in DOMAIN pathItems /\ Refers(pathItems[i[1]], i[2])
           \/ IsReported(<<"parameter", i>>) \/ IsReported(<<"path", i[1]>>)
    /\ \A i \in inlines :
           \/ i[1] \in DOMAIN pathItems /\ Range(ParametersOf(i[2])) \subseteq Range(pathItems[i[1]])
           \/ IsReported(<<"path", i[1]>>) \/ Declaration(i[2]).fields = <<>>
BodiesAreAnswered ==
    \A a \in DOMAIN input.annotations : Stands(a) =>
        LET op == At(Slot(a))
        IN /\ \A n \in Annotation(a).references :
                  Refers(op.parameters, n) \/ IsReported(<<"parameter", <<Annotation(a).path, n>>>>)
           /\ \A c \in DOMAIN Annotation(a).responses :
                  LET n == Annotation(a).responses[c]
                  IN \/ c \in DOMAIN op.responses /\ n \in Range(op.responses[c])
                     \/ IsReported(<<"response", Annotation(a).path, n>>)
LossesAreReported ==
    IsDone => /\ RegistrationsAreAnswered /\ ReferencesAreAnswered
              /\ PathsAreAnswered /\ BodiesAreAnswered

\* An operation has what was given to it, from whom it was given by, and once: no field is lost
\* but to a rival, no body to a declaration, and no operation has a part of another's.
OperationsAreExact == FieldsArrive /\ InlineWins /\ NothingForeign /\ NoDuplicates

\* What was asked for leads somewhere, or a diagnostic says that it does not.
NothingIsLost == ReferencesResolve /\ LossesAreReported
=============================================================================
