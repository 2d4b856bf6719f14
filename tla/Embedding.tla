------------------------------ MODULE Embedding ------------------------------
(***************************************************************************)
(* How the schema builder turns a Go struct or interface into a schema     *)
(* (internal/builders/schema: struct.go, interface.go, embedded.go,        *)
(* allof.go, fields.go, omit.go).  A struct is built in two passes, its    *)
(* embeds and then its own fields, and an embed is walked by the same two  *)
(* passes over the embedded type: promoted into the schema of the outer    *)
(* struct, or composed as a member of its allOf.  The recursion of the     *)
(* code is the stack of this machine, and what it threads through the      *)
(* recursion (the depth, the inherited required, the omitted fields, the   *)
(* map of the writers of each property) are variables of their own.        *)
(*                                                                         *)
(* A program gives, for each type, its fields in order: a "field" (a       *)
(* method, in an interface), an "embed" of one of Types, or a "scalar",    *)
(* the embed of a named type that promotes nothing.  A field of some type  *)
(* of Types is an anonymous struct with that type's fields; every other    *)
(* type of field is Leaf.                                                  *)
(***************************************************************************)
EXTENDS Naturals, Sequences, FiniteSets

CONSTANTS
    Types,      \* the struct and interface types
    Root,       \* the type whose definition is built
    Names,      \* every JSON name a property can take
    Leaf,       \* the type of a field that has no fields of its own
    None,       \* no name, no path, no property, no schema
    Programs    \* the programs to build, in families

ASSUME RootAssumption == Root \in Types /\ Leaf \notin Types /\ None \notin Names

VARIABLES
    program,    \* the Go declarations
    stack,      \* the calls of buildFromStruct and buildFromInterface under way
    schemas,    \* every schema object made so far, the definition first
    owners,     \* the nameByJSON maps: property name to its last writer
    depth,      \* embedDepth
    inherited,  \* embedInherited: "unset", "yes" or "no"
    omitted,    \* the fields swagger:omit filters out of the walk
    reports,    \* the diagnostics
    outcome     \* "building", "built" or "failed"

vars == <<program, stack, schemas, owners, depth, inherited, omitted, reports, outcome>>

-----------------------------------------------------------------------------
(* The declarations *)

Fields(T) == program.fields[T]
FieldAt(f) == program.fields[f[1]][f[2]]
EmbedsOf(T) == {<<T, i>> : i \in {j \in DOMAIN Fields(T) : Fields(T)[j].kind = "embed"}}
FieldsOf(T) == {<<T, i>> : i \in DOMAIN Fields(T)}
IsInterface(T) == T \in program.interfaces

\* The name a field takes: swagger:name, else the tag's name, else the Go name.
NameOf(fld) == IF fld.name # None THEN fld.name ELSE IF fld.tag # None THEN fld.tag ELSE fld.go

\* The explicit name of an embed, which makes it one property and no promotion.
EmbedNestName(fld) == IF fld.name # None THEN fld.name ELSE fld.tag

\* The name an embed that is not an allOf member nests under, the type's own when it promotes nothing.
NestName(fld) == IF EmbedNestName(fld) = None /\ fld.kind = "scalar" THEN fld.go ELSE EmbedNestName(fld)

IsAllOf(fld) == fld.allOf \/ (program.allOfByDefault /\ EmbedNestName(fld) = None)

\* required: on the embed wins over what it inherits, and is silent otherwise.
ReadEmbedInheritance(fld, current) == IF fld.required = "unset" THEN current ELSE fld.required

-----------------------------------------------------------------------------
(* swagger:omit *)

\* Every chain of embeds below T by its length, with the type it leads to: Go's ways to a promoted field.
Chains(T) ==
    LET chains[d \in 0..Cardinality(Types)] ==
            IF d = 0 THEN {<<<<>>, T>>}
            ELSE UNION {{<<Append(c[1], f), FieldAt(f).of>> : f \in EmbedsOf(c[2])} : c \in chains[d - 1]}
    IN  chains

\* The field Go finds under a name: the only one at the least depth that has it.
LookupFieldOrMethod(T, go) ==
    LET chains == Chains(T)
        found == [d \in DOMAIN chains |->
                    UNION {{Append(c[1], f) : f \in {g \in FieldsOf(c[2]) : FieldAt(g).go = go}} : c \in chains[d]}]
        least == {d \in DOMAIN chains : found[d] # {} /\ \A e \in 0..(d - 1) : found[e] = {}}
    IN  {c[Len(c)] : c \in UNION {found[d] : d \in {e \in least : Cardinality(found[e]) = 1}}}

\* A dotted path leads through embeds to the field it names, or to nothing.
LookupOmitPath(T, path) ==
    LET first == LookupFieldOrMethod(T, path[1])
    IN  IF Len(path) = 1 THEN first
        ELSE UNION {LookupFieldOrMethod(FieldAt(f).of, path[2]) : f \in {g \in first : FieldAt(g).kind = "embed"}}

\* The targets of the embed's own comment, and those of the declaration that apply to this embed.
OmitTargets(T, fld) ==
    fld.omit \cup {p \in program.omits[T] : Len(p) = 1}
             \cup {Tail(p) : p \in {q \in program.omits[T] : Len(q) > 1 /\ Head(q) = fld.go}}

EmbedOmitTargets(T, fld) ==
    IF IsAllOf(fld) /\ fld.of \in program.models THEN {}
    ELSE IF fld.kind = "embed" THEN UNION {LookupOmitPath(fld.of, p) : p \in OmitTargets(T, fld)} ELSE {}

OmitReports(T, fld) ==
    IF OmitTargets(T, fld) = {} THEN {}
    ELSE IF IsAllOf(fld) /\ fld.of \in program.models THEN {[kind |-> "omit behind ref", of |-> fld.go]}
    ELSE {[kind |-> "omit unresolved", of |-> fld.go] :
              p \in {q \in OmitTargets(T, fld) : fld.kind # "embed" \/ LookupOmitPath(fld.of, q) = {}}}

-----------------------------------------------------------------------------
(* Schemas and frames *)

\* A property is the field that wrote it last, every field whose facts it still carries, and the
\* schema of its anonymous struct, if it has one.
EmptySchema == [props |-> [n \in Names |-> None], required |-> {}, allOf |-> <<>>, ref |-> None]
NoOwners == [n \in Names |-> None]
Written(s) == {n \in Names : schemas[s].props[n] # None}

Top == stack[Len(stack)]
Below == SubSeq(stack, 1, Len(stack) - 1)
Advance(frame) == Append(Below, [frame EXCEPT !.at = frame.at + 1])
Here == <<Top.type, Top.at>>
Current == FieldAt(Here)

\* A call that promotes, or composes a plain embed of an interface, is one level deeper.
Deepens(then) == then \in {"promote", "compose"}

\* What a call restores when it returns, and what its caller then does with the schema it built.
Frame(T, s, m, then, added) ==
    [type |-> T, schema |-> s, target |-> None, hasAllOf |-> FALSE, pass |-> "embeds", at |-> 1,
     owners |-> m, then |-> then, added |-> added, saved |-> inherited]

Init ==
    /\ \E i \in DOMAIN Programs : program \in Programs[i]
    /\ stack = <<[type |-> Root, schema |-> 1, target |-> None, hasAllOf |-> FALSE, pass |-> "embeds", at |-> 1,
                  owners |-> 1, then |-> "define", added |-> {}, saved |-> "unset"]>>
    /\ schemas = <<EmptySchema>>
    /\ owners = <<NoOwners>>
    /\ depth = 0
    /\ inherited = "unset"
    /\ omitted = {}
    /\ reports = {}
    /\ outcome = "building"

-----------------------------------------------------------------------------
(* Writing a property: the end of applyFieldCarrier *)

\* Mutant: no warning between two embeds of one depth.
AmbiguousBelow(m, name, f) ==
    LET prior == owners[m][name]
    IN  depth > 0 /\ prior # None /\ prior.go # FieldAt(f).go /\ prior.depth < depth

\* The warning of an embedded field that overwrites one of the same or a shallower depth under
\* another Go name.
Ambiguous(m, name, f) ==
    LET prior == owners[m][name]
    IN  depth > 0 /\ prior # None /\ prior.go # FieldAt(f).go /\ prior.depth <= depth

SetRequired(required, name, value) ==
    CASE value = "yes" -> required \cup {name} [] value = "no" -> required \ {name} [] OTHER -> required

\* The property starts from what an earlier field left under its name, unless the field's own
\* swagger:type resets it; required is a list of the target and changes only when a comment says so.
Carry(base, s, m, f, inner) ==
    LET fld == FieldAt(f)
        name == IF fld.kind = "field" THEN NameOf(fld) ELSE NestName(fld)
        left == base[s].props[name]
        fresh == left = None \/ fld.override
        value == IF fld.required = "unset" /\ inherited = "yes" THEN "yes" ELSE fld.required
    IN  /\ schemas' = [base EXCEPT
               ![s].props[name] = [by |-> f,
                                   facts |-> IF fresh THEN {f} ELSE left.facts \cup {f},
                                   inner |-> IF fld.override THEN 0
                                             ELSE IF inner = 0 /\ ~fresh THEN left.inner ELSE inner],
               ![s].required = SetRequired(@, name, value)]
        /\ owners' = [owners EXCEPT ![m][name] = [go |-> fld.go, depth |-> depth, by |-> f]]
        /\ reports' = IF Ambiguous(m, name, f) THEN reports \cup {[kind |-> "ambiguous", of |-> name]} ELSE reports

-----------------------------------------------------------------------------
(* First pass: the embeds *)

Building == outcome = "building"
AtEmbed == Building /\ Top.pass = "embeds" /\ Top.at <= Len(Fields(Top.type)) /\ Current.kind # "field"
InStruct == AtEmbed /\ ~IsInterface(Top.type)

\* A call that returns without walking anything: the fields of a type are not read when its own
\* comment types it, when it is an empty interface, or when the standard library fixes its shape.
Contributes(T) ==
    /\ T \notin program.specials
    /\ T \notin program.typed
    /\ ~(IsInterface(T) /\ Fields(T) = <<>>)

\* Own fields are left to the second pass; an ignored embed, by comment or by tag, to neither.
PassOver ==
    /\ Building
    /\ Top.pass = "embeds"
    /\ Top.at <= Len(Fields(Top.type))
    /\ Current.kind = "field" \/ Current.ignored \/ Current.tag = "-"
    /\ ~(Current.kind # "field" /\ IsInterface(Top.type))
    /\ stack' = Advance(Top)
    /\ UNCHANGED <<program, schemas, owners, depth, inherited, omitted, reports, outcome>>

Kept == ~Current.ignored /\ Current.tag # "-"

\* An embed with a name, or one that promotes nothing, is one property of the target.
NestEmbed ==
    /\ InStruct /\ Kept
    /\ ~IsAllOf(Current)
    /\ NestName(Current) # None
    /\ LET target == IF Top.target = None THEN Top.schema ELSE Top.target
       IN  /\ Carry(schemas, target, Top.owners, Here, 0)
           /\ stack' = Advance([Top EXCEPT !.target = target])
    /\ UNCHANGED <<program, depth, inherited, omitted, outcome>>

\* Call the builder of T, into schema s with the map m, filtering out targets: only those that were
\* not filtered out already are put back on return.
Call(frame, T, s, m, then, targets) ==
    /\ stack' = Append(Append(Below, frame), Frame(T, s, m, then, targets \ omitted))
    /\ omitted' = omitted \cup targets
    /\ depth' = IF Deepens(then) THEN depth + 1 ELSE depth

\* Any other embed promotes: its type is walked into the target, one level deeper.
PromoteEmbed ==
    /\ InStruct /\ Kept
    /\ ~IsAllOf(Current)
    /\ NestName(Current) = None
    /\ Contributes(Current.of)
    /\ program.source[Current.of] = "read"
    /\ LET target == IF Top.target = None THEN Top.schema ELSE Top.target
       IN  Call([Top EXCEPT !.target = target], Current.of, target, Top.owners, "promote",
                EmbedOmitTargets(Top.type, Current))
    /\ inherited' = ReadEmbedInheritance(Current, inherited)
    /\ reports' = reports \cup OmitReports(Top.type, Current)
    /\ UNCHANGED <<program, schemas, owners, outcome>>

\* An embed that promotes nothing because of what its type is.
PromoteNothing ==
    /\ InStruct /\ Kept
    /\ ~IsAllOf(Current)
    /\ NestName(Current) = None
    /\ ~Contributes(Current.of) \/ program.source[Current.of] = "sourceless"
    /\ stack' = Advance([Top EXCEPT !.target = IF Top.target = None THEN Top.schema ELSE Top.target])
    /\ reports' = reports \cup OmitReports(Top.type, Current)
                          \cup (IF Contributes(Current.of) THEN {[kind |-> "sourceless", of |-> Current.of]} ELSE {})
    /\ UNCHANGED <<program, schemas, owners, depth, inherited, omitted, outcome>>

\* A composed embed makes the own fields of the struct a member of their own: a fresh target, unless
\* an embed before it already chose one.
ComposedTop ==
    IF Top.target # None THEN [Top EXCEPT !.hasAllOf = TRUE]
    ELSE [Top EXCEPT !.hasAllOf = TRUE, !.target = Len(schemas) + 1]

\* The schemas with the fresh target, when ComposedTop makes one.
Grown == IF Top.target = None THEN Append(schemas, EmptySchema) ELSE schemas

\* Append a member that is complete as soon as it is made.
Whole(ref) == schemas' = [Append(Grown, [EmptySchema EXCEPT !.ref = ref])
                              EXCEPT ![Top.schema].allOf = Append(@, Len(Grown) + 1)]

\* A composed embed with nothing to walk: a reference to a model, a type whose shape the standard
\* library or its own comment fixes, and a type with nothing to compose, which is reported.
ComposeWhole ==
    /\ InStruct /\ Kept
    /\ IsAllOf(Current)
    /\ Current.kind = "scalar" \/ Current.of \in program.models \/ ~Contributes(Current.of)
    /\ Whole(IF Current.of \in program.models \ program.specials THEN Current.of ELSE None)
    /\ stack' = Advance(ComposedTop)
    /\ reports' = reports \cup OmitReports(Top.type, Current)
                          \cup (IF Current.kind = "scalar" THEN {[kind |-> "unsupported", of |-> Current.go]} ELSE {})
    /\ UNCHANGED <<program, owners, depth, inherited, omitted, outcome>>

\* A composed embed of any other type is built into a schema and with a map of its own.
ComposeEmbed ==
    /\ InStruct /\ Kept
    /\ IsAllOf(Current)
    /\ Current.kind = "embed" /\ Current.of \notin program.models /\ Contributes(Current.of)
    /\ program.source[Current.of] = "read"
    /\ schemas' = Append(Grown, EmptySchema)
    /\ Call(ComposedTop, Current.of, Len(Grown) + 1, Len(owners) + 1, "member", EmbedOmitTargets(Top.type, Current))
    /\ owners' = Append(owners, NoOwners)
    /\ reports' = reports \cup OmitReports(Top.type, Current)
    /\ UNCHANGED <<program, inherited, outcome>>

InInterface == AtEmbed /\ IsInterface(Top.type)

\* Any embed of an interface makes its own methods a member of their own.
AsideTop == [ComposedTop EXCEPT !.hasAllOf = Top.hasAllOf]

\* An embed of an interface that is ignored, or whose shape the standard library fixes, adds nothing.
PassOverInInterface ==
    /\ InInterface
    /\ Current.ignored \/ Current.of \in program.specials
    /\ schemas' = Grown
    /\ stack' = Advance(AsideTop)
    /\ UNCHANGED <<program, owners, depth, inherited, omitted, reports, outcome>>

InterfaceMember == InInterface /\ ~Current.ignored /\ Current.of \notin program.specials

\* A member of an interface with nothing to walk.
InterfaceWhole ==
    /\ InterfaceMember
    /\ IF Current.allOf THEN Current.of \in program.models \/ ~Contributes(Current.of)
       ELSE ~Contributes(Current.of) \/ program.source[Current.of] = "sourceless"
    /\ Whole(IF Current.allOf /\ Current.of \in program.models THEN Current.of ELSE None)
    /\ stack' = Advance(ComposedTop)
    /\ reports' = IF Contributes(Current.of) /\ ~Current.allOf
                  THEN reports \cup {[kind |-> "sourceless", of |-> Current.of]} ELSE reports
    /\ UNCHANGED <<program, owners, depth, inherited, omitted, outcome>>

\* A plain embed of an interface is a member too, that shares the map of its writers with the
\* embedding interface; an annotated one has a map of its own.
InterfaceEmbed ==
    /\ InterfaceMember
    /\ Contributes(Current.of) /\ program.source[Current.of] = "read"
    /\ ~(Current.allOf /\ Current.of \in program.models)
    /\ schemas' = Append(Grown, EmptySchema)
    /\ IF Current.allOf
       THEN /\ Call(ComposedTop, Current.of, Len(Grown) + 1, Len(owners) + 1, "member", {})
            /\ owners' = Append(owners, NoOwners)
       ELSE /\ Call(ComposedTop, Current.of, Len(Grown) + 1, Top.owners, "compose", {})
            /\ UNCHANGED owners
    /\ UNCHANGED <<program, inherited, reports, outcome>>

\* A type whose declaration the scan cannot find ends the build, unless it left it out on purpose
\* and the embed promotes.
Fail ==
    /\ AtEmbed /\ ~Current.ignored
    /\ Current.kind = "embed" /\ Contributes(Current.of)
    /\ LET composed == IF IsInterface(Top.type) THEN Current.allOf ELSE IsAllOf(Current)
       IN  /\ program.source[Current.of] \in (IF composed THEN {"missing", "sourceless"} ELSE {"missing"})
           /\ composed \/ IsInterface(Top.type) \/ NestName(Current) = None
    /\ outcome' = "failed"
    /\ stack' = <<>>
    /\ UNCHANGED <<program, schemas, owners, depth, inherited, omitted, reports>>

EndEmbeds ==
    /\ Building
    /\ Top.pass = "embeds"
    /\ Top.at > Len(Fields(Top.type))
    /\ stack' = Append(Below, [Top EXCEPT !.pass = "fields", !.at = 1,
                                          !.target = IF Top.target = None THEN Top.schema ELSE Top.target])
    /\ UNCHANGED <<program, schemas, owners, depth, inherited, omitted, reports, outcome>>

-----------------------------------------------------------------------------
(* Second pass: the own fields *)

AtField == Building /\ Top.pass = "fields" /\ Top.at <= Len(Fields(Top.type))
Emitted == Current.kind = "field" /\ Here \notin omitted /\ Current.exported /\ ~Current.ignored

\* An embed, an omitted field, an unexported one and an ignored one are passed over in silence.
PassOverField ==
    /\ AtField
    /\ ~Emitted
    /\ stack' = Advance(Top)
    /\ UNCHANGED <<program, schemas, owners, depth, inherited, omitted, reports, outcome>>

\* A field tagged "-" is dropped, and reported when a property an embed promoted has its Go name.
DashField ==
    /\ AtField /\ Emitted
    /\ Current.tag = "-"
    /\ stack' = Advance(Top)
    /\ reports' = IF \E n \in Names : /\ owners[Top.owners][n] # None
                                      /\ owners[Top.owners][n].go = Current.go
                                      /\ owners[Top.owners][n].depth # 0
                                      /\ schemas[Top.target].props[n] # None
                  THEN reports \cup {[kind |-> "shadowed", of |-> Current.go]} ELSE reports
    /\ UNCHANGED <<program, schemas, owners, depth, inherited, omitted, outcome>>

\* A field of any named or basic type is one property.
WriteField ==
    /\ AtField /\ Emitted
    /\ Current.tag # "-" /\ Current.of = Leaf
    /\ Carry(schemas, Top.target, Top.owners, Here, 0)
    /\ stack' = Advance(Top)
    /\ UNCHANGED <<program, depth, inherited, omitted, outcome>>

\* The schema of an anonymous struct is built first, on top of the one an earlier field of the same
\* name left there, with a map of its own.
OpenAnonymous ==
    /\ AtField /\ Emitted
    /\ Current.tag # "-" /\ Current.of # Leaf
    /\ LET left == schemas[Top.target].props[NameOf(Current)]
           s == IF left # None /\ left.inner # 0 THEN left.inner ELSE Len(schemas) + 1
       IN  /\ schemas' = IF s = Len(schemas) + 1 THEN Append(schemas, EmptySchema) ELSE schemas
           /\ Call(Top, Current.of, s, Len(owners) + 1, "property", {})
    /\ owners' = Append(owners, NoOwners)
    /\ UNCHANGED <<program, inherited, reports, outcome>>

-----------------------------------------------------------------------------
(* The end of a struct or an interface *)

AtEnd == Building /\ Top.pass = "fields" /\ Top.at > Len(Fields(Top.type))
Caller == stack[Len(stack) - 1]

\* The schemas once the own fields of a composed type have been appended to its allOf.
Closed == IF Top.hasAllOf /\ Written(Top.target) # {}
          THEN [schemas EXCEPT ![Top.schema].allOf = Append(@, Top.target)] ELSE schemas

\* Mutants: the composed embed of an interface does not leave the depth it entered; what one embed
\* omits stays omitted.
RestorePromoted ==
    /\ depth' = IF Top.then = "promote" THEN depth - 1 ELSE depth
    /\ omitted' = omitted \ Top.added
RestoreDepth ==
    /\ depth' = IF Deepens(Top.then) THEN depth - 1 ELSE depth
    /\ omitted' = omitted

Restore ==
    /\ depth' = IF Deepens(Top.then) THEN depth - 1 ELSE depth
    /\ omitted' = omitted \ Top.added

Return(frame) == stack' = Append(SubSeq(stack, 1, Len(stack) - 2), [frame EXCEPT !.at = frame.at + 1])

\* Back in the embedding type: what was inherited is restored, and a composed type becomes a member.
ReturnEmbed ==
    /\ AtEnd
    /\ Top.then \in {"promote", "compose", "member"}
    /\ schemas' = IF Top.then = "promote" THEN Closed
                  ELSE [Closed EXCEPT ![Caller.schema].allOf = Append(@, Top.schema)]
    /\ Restore
    /\ inherited' = Top.saved
    /\ Return(Caller)
    /\ UNCHANGED <<program, owners, reports, outcome>>

\* Back in the field of an anonymous struct: the property is written around the schema just built.
ReturnProperty ==
    /\ AtEnd
    /\ Top.then = "property"
    /\ Carry(Closed, Caller.target, Caller.owners, <<Caller.type, Caller.at>>, Top.schema)
    /\ Restore
    /\ inherited' = Top.saved
    /\ Return(Caller)
    /\ UNCHANGED <<program, outcome>>

Finish ==
    /\ AtEnd
    /\ Top.then = "define"
    /\ schemas' = Closed
    /\ stack' = <<>>
    /\ outcome' = "built"
    /\ UNCHANGED <<program, owners, depth, inherited, omitted, reports>>

Next ==
    \/ PassOver \/ NestEmbed \/ PromoteEmbed \/ PromoteNothing \/ ComposeWhole \/ ComposeEmbed
    \/ PassOverInInterface \/ InterfaceWhole \/ InterfaceEmbed \/ Fail \/ EndEmbeds
    \/ PassOverField \/ DashField \/ WriteField \/ OpenAnonymous
    \/ ReturnEmbed \/ ReturnProperty \/ Finish

Spec == Init /\ [][Next]_vars /\ WF_vars(Next)

-----------------------------------------------------------------------------
(* What Go says of the same declarations *)

\* Where the walk can be: a type, the fields filtered out there, the required it inherits, whether it
\* writes with the map of the root.
Contexts ==
    LET step(c, fld) ==
            [type |-> fld.of,
             omitted |-> c.omitted \cup (IF IsInterface(c.type) THEN {} ELSE EmbedOmitTargets(c.type, fld)),
             inherited |-> IF IsInterface(c.type) \/ IsAllOf(fld) THEN c.inherited
                           ELSE ReadEmbedInheritance(fld, c.inherited),
             shared |-> c.shared /\ ~(IF IsInterface(c.type) THEN fld.allOf ELSE IsAllOf(fld))]
        walked(c, fld) ==
            /\ fld.kind = "embed" /\ ~fld.ignored
            /\ Contributes(fld.of) /\ program.source[fld.of] = "read"
            /\ IF IsInterface(c.type) THEN ~(fld.allOf /\ fld.of \in program.models)
               ELSE /\ fld.tag # "-"
                    /\ IF IsAllOf(fld) THEN fld.of \notin program.models ELSE NestName(fld) = None
        at[d \in 0..Cardinality(Types)] ==
            IF d = 0 THEN {[type |-> Root, omitted |-> {}, inherited |-> "unset", shared |-> TRUE]}
            ELSE UNION {{step(c, Fields(c.type)[i]) : i \in {j \in DOMAIN Fields(c.type) : walked(c, Fields(c.type)[j])}}
                            : c \in at[d - 1]}
    IN  at

\* The fields that reach the JSON of the root, each with where it was found and how deep.
Members ==
    LET member(c, f) ==
            /\ f[1] = c.type /\ ~FieldAt(f).ignored /\ FieldAt(f).tag # "-"
            /\ \/ FieldAt(f).kind = "field" /\ FieldAt(f).exported /\ f \notin c.omitted
               \/ FieldAt(f).kind # "field" /\ ~IsInterface(c.type) /\ ~IsAllOf(FieldAt(f)) /\ NestName(FieldAt(f)) # None
    IN  UNION {UNION {{[at |-> c, depth |-> d, field |-> f] : f \in {g \in FieldsOf(c.type) : member(c, g)}}
                          : c \in Contexts[d]} : d \in DOMAIN Contexts}

MemberName(m) == IF FieldAt(m.field).kind = "field" THEN NameOf(FieldAt(m.field)) ELSE NestName(FieldAt(m.field))
Needs(m) == FieldAt(m.field).required = "yes" \/ (FieldAt(m.field).required = "unset" /\ m.at.inherited = "yes")

\* The schemas that an allOf leads to, references aside; those of the definition.
PartsOf(roots) ==
    LET next(S) == S \cup UNION {{schemas[s].allOf[i] : i \in DOMAIN schemas[s].allOf} : s \in S}
        parts[n \in 0..Len(schemas)] == IF n = 0 THEN roots ELSE next(parts[n - 1])
    IN  parts[Len(schemas)]
Parts == PartsOf({1})

\* What struct.go:59 leaves behind: the schema for a composed struct's own members is no part of it
\* while it has none, though a plain embed that composes has written to its allOf; and interface.go:44
\* that of an interface whose embeds are passed over.
LeftBehind ==
    PartsOf({s \in DOMAIN schemas \ Parts : Written(s) = {} \/ program.interfaces # {}})

-----------------------------------------------------------------------------
(* Properties *)

\* Every member the embeds bring is written to a schema of the definition, or to one that is left
\* behind as said above, and the definition has no property but for one: what swagger:omit filters out of one embed is back for its siblings.  Only an embedded
\* scalar that DefaultAllOfForEmbeds composes is not written, with a warning.
MembersAreWritten ==
    outcome = "built" =>
        /\ {MemberName(m) : m \in Members} \subseteq UNION {Written(s) : s \in Parts \cup LeftBehind}
        /\ UNION {Written(s) : s \in Parts} \subseteq {MemberName(m) : m \in Members}
        /\ \A c \in UNION {Contexts[d] : d \in DOMAIN Contexts} : \A f \in FieldsOf(c.type) :
               (FieldAt(f).kind = "scalar" /\ IsAllOf(FieldAt(f)) /\ ~IsInterface(c.type)
                  /\ ~FieldAt(f).ignored /\ FieldAt(f).tag # "-")
                   => [kind |-> "unsupported", of |-> FieldAt(f).go] \in reports

\* Of the members that share a name, the definition has the one Go promotes, or the scan says that
\* the name is ambiguous.  Only members of the same Go name, and two fields of the root itself, are
\* overwritten in silence.
PromotedAsInGo ==
    outcome = "built" => \A n \in Names :
        LET rivals == {m \in Members : m.at.shared /\ MemberName(m) = n}
            least == {m \in rivals : \A k \in rivals : m.depth <= k.depth}
            namesakes == \E k, m \in rivals : /\ k.field # m.field
                                           /\ \/ FieldAt(k.field).go = FieldAt(m.field).go
                                              \/ k.depth = 0 /\ m.depth = 0
        IN  rivals # {} /\ ~namesakes =>
                \/ {owners[1][n].by} = {m.field : m \in least}
                \/ [kind |-> "ambiguous", of |-> n] \in reports

\* A property is required when the member that wrote it says so, by its own comment or, if that is
\* silent, by that of the embeds above it; and never when no member of its name does.
RequiredFollows ==
    outcome = "built" => \A s \in Parts : \A n \in Written(s) :
        LET writers == {m \in Members : m.field = schemas[s].props[n].by}
        IN  /\ (\A m \in writers : Needs(m)) => n \in schemas[s].required
            /\ n \in schemas[s].required => \E m \in Members : MemberName(m) = n /\ Needs(m)

\* A finished build has left every embed: nothing stays filtered, inherited or deeper for what the
\* same builder does next.
ScopesAreRestored ==
    outcome = "built" => depth = 0 /\ omitted = {} /\ inherited = "unset"

\* A definition's members and what it requires are those that Go's promotion leaves.
PromotedAndRequired == PromotedAsInGo /\ RequiredFollows

=============================================================================
