---------------------------- MODULE TypeResolution ----------------------------
(***************************************************************************)
(* From a Go type to a node of the document: the type dispatch of the       *)
(* schema builder, and of the parameters and responses builders around it.  *)
(* What a type becomes depends on where it stands (a definition, a          *)
(* property, a body, a query or form parameter, a header), on how it is     *)
(* declared (type T X or type T = X), on what is written above its          *)
(* declaration and above the field, and on the mode for aliases.            *)
(*                                                                          *)
(* The builders call each other, mostly as the last thing they do; what is  *)
(* left to do after a call that is not the last is on the stack `after`.    *)
(* The output under construction is `nodes`, a function from the paths of   *)
(* the document to what was written there: the path <<>> is the property,   *)
(* the parameter, the header or the definition; Body is the schema of a     *)
(* body parameter or of the response; "items" and "values" (the schema of   *)
(* additionalProperties) lead further down.  What a struct or an interface  *)
(* writes below its type is the subject of Embedding: here only the         *)
(* definitions its fields refer to are known.                               *)
(***************************************************************************)
EXTENDS Naturals, Sequences, FiniteSets, SequencesExt, TLC

CONSTANTS
    Go,            \* the Go types of the program: name -> what is known of the type
    Scalar,        \* names swagger:type knows -> their type and format
    Programs,      \* families of programs: the jobs, one after the other, and the modes
    NoType         \* no type

VARIABLES
    program,       \* the jobs and the options of the scan
    results,       \* what the jobs done so far have written
    phase,         \* begin, walk, typed or done
    call,          \* what is called: an operation on a type at a path
    after,         \* what is left to do when the call returns
    nodes,         \* path -> type, format, reference and whether it has the enum
    queued,        \* the declarations to build because of this one
    owner,         \* the declaration the schema builder works for, or NoType
    simple,        \* the schema builder is in SimpleSchema mode
    target,        \* where that builder was told to write
    outcome        \* ok, skipped, error or panic

place == <<owner, simple, target, outcome>>
vars == <<program, results, phase, call, after, nodes, queued, place>>

-----------------------------------------------------------------------------
(* Go types.  Go[t] is a record: the kind of t; `elem`, the element of a    *)
(* slice, the value of a map, the target of a pointer, the right-hand side  *)
(* of a declaration; the shape of a basic or special type; `notes`, what    *)
(* the comment above a declaration says; how much of it could be read.      *)

Type == DOMAIN Go

\* types.Type.Underlying: through declarations, named and alias alike.
Under[t \in Type] == IF Go[t].kind \in {"named", "alias"} THEN Under[Go[t].elem] ELSE t

\* inheritedStrfmt: the swagger:strfmt of the nearest declaration t is written over.
InheritedStrfmt[t \in Type] ==
    IF Go[t].kind \notin {"named", "alias"} \/ Go[Go[t].elem].kind \notin {"named", "alias"} THEN ""
    ELSE IF Go[Go[t].elem].notes.strfmt # "" THEN Go[Go[t].elem].notes.strfmt ELSE InheritedStrfmt[Go[t].elem]

\* types.Unalias, and what IsTextMarshaler is asked of (hasNamedCore).
NamedCore[t \in Type] == IF Go[t].kind = "pointer" THEN NamedCore[Go[t].elem] ELSE t
IsTextMarshaler(t) == Go[NamedCore[t]].kind = "named" /\ Go[NamedCore[t]].marshals

Sourced(t) == Go[t].found = "sourced"
Overridden(t) == t # NoType /\ Go[t].notes.type.base # ""
IsObjectLike(t) == Go[Under[t]].kind \in {"struct", "map", "interface"}

\* resolveNamedTypeLeaf: the declaration swagger:type names.
Leaf(name) == {t \in Type : Go[t].kind \in {"named", "alias"} /\ Go[t].name = name /\ Sourced(t)}

-----------------------------------------------------------------------------
(* The document.                                                            *)

Root == <<>>
Body == <<"schema">>
Blank == [type |-> "", format |-> "", ref |-> NoType, enum |-> FALSE]
Node(ns, p) == IF p \in DOMAIN ns THEN ns[p] ELSE Blank
Put(ns, p, n) == (p :> n) @@ ns
Below(p, q) == IsPrefix(p, q)
\* Everything at p and under it, a body that hangs beside the header excepted.
Cleared(ns, p) == [q \in {r \in DOMAIN ns : ~Below(p, r) \/ (Below(Body, r) /\ ~Below(Body, p))} |-> ns[q]]
ItemsOf(p) == Append(p, "items")
ValuesOf(p) == Append(p, "values")

Typed(ns, p, s) == Put(ns, p, [Node(ns, p) EXCEPT !.type = s.type, !.format = s.format])
Shape(type, format) == [type |-> type, format |-> format]
SetRef(ns, p, t) == Put(ns, p, [Node(ns, p) EXCEPT !.ref = t])
\* Items() of the three typables: the target becomes an array.
Arrayed(ns, p) == Put(Typed(ns, p, Shape("array", "")), ItemsOf(p), Node(ns, ItemsOf(p)))
Arrays(ns, p, depth) ==
    FoldLeft(LAMBDA acc, i : Arrayed(acc, p \o [j \in 1..(i - 1) |-> "items"]), ns,
             [i \in 1..depth |-> i])

job == program.jobs[Len(results) + 1]
SimpleSites == {"query", "formData", "header"}
Simple == job.site \in SimpleSites
\* Where the target of a body is written.
Start == IF job.site \in {"bodyParam", "bodyResponse"} THEN Body ELSE Root

\* Schema(): nothing for a parameter and for the items of a parameter or header;
\* for a header, the schema of its response.
SchemaAt(p) ==
    CASE job.site \in {"query", "formData"} -> {}
      [] job.site = "header" -> IF p = Root THEN {Body}
                                ELSE IF Below(Body, p) THEN {p} ELSE {}
      [] OTHER -> {p}

-----------------------------------------------------------------------------
(* Calls and returns.                                                       *)

Idle == [op |-> "return"]
Call(op, t, p) == [op |-> op, t |-> t, p |-> p]
Doing(op) == phase = "walk" /\ call.op = op

Continue(c, ns, q) ==
    /\ call' = c /\ nodes' = ns /\ queued' = q
    /\ UNCHANGED <<program, results, phase, after, place>>
To(c) == Continue(c, nodes, queued)
Write(ns) == Continue(Idle, ns, queued)
Skip == Write(nodes)

\* Mutant: a reference to a declaration that is only scheduled when a body leads to it.
MakeRefFromBody(t, p) ==
    Continue(Idle, SetRef(nodes, p, t), IF Below(Body, p) THEN queued \union {t} ELSE queued)
\* MakeRef.
MakeRef(t, p) == Continue(Idle, SetRef(nodes, p, t), queued \union {t})

Abort(how) ==
    /\ outcome' = how /\ phase' = "typed" /\ call' = Idle /\ after' = <<>>
    /\ UNCHANGED <<program, results, nodes, queued, owner, simple, target>>

\* An error: a swagger:type being resolved is given up, anything else fails.
Fail ==
    IF after # <<>> /\ Last(after).kind = "override"
    THEN /\ call' = Last(after).retry /\ after' = Front(after)
         /\ UNCHANGED <<program, results, phase, nodes, queued, place>>
    ELSE Abort("error")

\* Delegate, DelegateAs: a schema builder for declaration d.
Delegate(d, isSimple, t, p, ns) ==
    /\ call' = Call("type", t, p) /\ nodes' = ns /\ after' = Append(after, [kind |-> "delegate"])
    /\ owner' = d /\ simple' = isSimple /\ target' = p
    /\ UNCHANGED <<program, results, phase, queued, outcome>>

-----------------------------------------------------------------------------
(* The types recognised by name.                                            *)

SpecialShape(t) ==
    IF Go[t].special = "stream" /\ job.site = "formData" THEN Shape("file", "") ELSE Go[t].shape
Special(ns, t, p) ==
    IF Go[t].special = "any"
    THEN [q \in DOMAIN ns \union SchemaAt(p) |-> Node(ns, q)]
    ELSE Typed(ns, p, SpecialShape(t))

\* EnsureSimpleSchemaTyped.
EnsureTyped(ns, p) ==
    IF Simple /\ Node(ns, p).type = "" THEN Typed(ns, p, Shape("string", Node(ns, p).format)) ELSE ns

-----------------------------------------------------------------------------
(* swagger:strfmt and swagger:enum above a declaration.                     *)

\* ApplyArrayLikeStrfmt: bytes and runes are one string, else it is the items.
SequenceStrfmt(ns, p, format, elem) ==
    IF Go[Under[elem]].bytes THEN Typed(ns, p, Shape("string", format))
    ELSE Typed(Arrayed(ns, p), ItemsOf(p), Shape("string", format))

EnumShape(t) ==
    IF Go[Under[t]].shape.type = "string" /\ InheritedStrfmt[t] # ""
    THEN Shape("string", InheritedStrfmt[t]) ELSE Go[Under[t]].shape

\* classifierNamedBasic; {} when it leaves t alone.
ClassifiedBasic(ns, t, p) ==
    IF Go[t].notes.strfmt # "" THEN {Typed(ns, p, Shape("string", Go[t].notes.strfmt))}
    ELSE IF Go[t].notes.enum THEN {Put(ns, p, [Node(Typed(ns, p, EnumShape(t)), p) EXCEPT !.enum = TRUE])}
    ELSE IF simple THEN {Typed(ns, p, Go[Under[t]].shape)} ELSE {}

\* applyNamedShapeClassifier.
Classified(ns, t, p) ==
    LET u == Under[t]
        format == Go[t].notes.strfmt
    IN  CASE Go[u].kind = "basic" -> ClassifiedBasic(ns, t, p)
          [] Go[u].kind = "struct" /\ format # "" -> {Typed(ns, p, Shape("string", format))}
          [] Go[u].kind = "array" /\ format # "" -> {SequenceStrfmt(ns, p, format, Go[u].elem)}
          [] OTHER -> {}

\* Mutant: the format of an alias of a slice is that of the whole.
AliasStrfmtOfWhole(ns, t, p) == Typed(ns, p, Shape("string", Go[t].notes.strfmt))
\* ClassifierAliasStrfmt.
AliasStrfmt(ns, t, p) ==
    LET u == Under[t] IN
    IF Go[u].kind = "array" THEN SequenceStrfmt(ns, p, Go[t].notes.strfmt, Go[u].elem)
    ELSE Typed(ns, p, Shape("string", Go[t].notes.strfmt))

-----------------------------------------------------------------------------
(* swagger:type.                                                            *)

\* Of is what the annotation says, own the type it stands above, retry what
\* to do when it cannot be honoured.
Override(notes, own, p, retry) ==
    [op |-> "override", arg |-> notes.type, strfmt |-> notes.strfmt, t |-> own, p |-> p,
     retry |-> retry]

\* overrideYieldsObject.
YieldsObject(base, own) ==
    CASE base \in {"inline", "array"} -> IsObjectLike(own)
      [] base \in DOMAIN Scalar -> Scalar[base].type = "object"
      [] OTHER -> \E t \in Leaf(base) : IsObjectLike(t)

\* IsFormatCompatible, for the formats that are not numeric.
FormatFits(type) == type \in {"", "string"}
WithFormat(ns, q, format) ==
    IF format # "" /\ FormatFits(Node(ns, q).type)
    THEN Put(ns, q, [Node(ns, q) EXCEPT !.format = format]) ELSE ns

\* The format that rides along is written through Schema().
RidingFormat(ns, p, format) ==
    IF format # "" /\ SchemaAt(p) = {} THEN Abort("panic")
    ELSE Continue(Idle, IF format = "" THEN ns ELSE WithFormat(ns, CHOOSE q \in SchemaAt(p) : TRUE, format),
                  queued)

\* Pointers are peeled before the underlying type is taken.
Peeled[t \in Type] == IF Go[t].kind = "pointer" THEN Peeled[Go[t].elem] ELSE t

\* resolveTypeOverride and resolveTypeBase.
ResolveOverride ==
    /\ Doing("override")
    /\ LET depth == call.arg.depth
           base == call.arg.base
           ownType == base \in {"inline", "array"}
           ns == Arrays(nodes, call.p, depth)
           at == call.p \o [i \in 1..depth |-> "items"]
           inlined == IF ownType THEN {t \in {call.t} : depth = 0} ELSE Leaf(base)
       IN  IF simple /\ YieldsObject(base, call.t) THEN To(call.retry)
           ELSE IF base \in DOMAIN Scalar
           THEN RidingFormat(Typed(ns, at, Scalar[base]), call.p, call.strfmt)
           ELSE IF base = "file" \/ inlined = {} THEN Continue(call.retry, ns, queued)
           ELSE \E t \in inlined :
                  /\ call' = Call("type", Under[Peeled[t]], at)
                  /\ nodes' = ns
                  /\ after' = Append(after, [kind |-> "override", p |-> call.p,
                                             strfmt |-> call.strfmt, retry |-> call.retry])
                  /\ UNCHANGED <<program, results, phase, queued, place>>

-----------------------------------------------------------------------------
(* schema.Builder.buildFromType.                                            *)

BuildBasic ==
    /\ Doing("type") /\ Go[call.t].kind = "basic"
    /\ Write(Typed(nodes, call.p, Go[call.t].shape))

\* Channels, functions, complex numbers: warned about and skipped.
BuildUnsupported ==
    /\ Doing("type") /\ Go[call.t].kind = "unsupported"
    /\ Skip

BuildPointer ==
    /\ Doing("type") /\ Go[call.t].kind = "pointer" /\ ~IsTextMarshaler(call.t)
    /\ To(Call("type", Go[call.t].elem, call.p))

BuildArray ==
    /\ Doing("type") /\ Go[call.t].kind = "array"
    /\ Continue(Call("type", Go[call.t].elem, ItemsOf(call.p)), Arrayed(nodes, call.p), queued)

AsObject(ns, p) ==
    IF SchemaAt(p) = {} THEN ns ELSE Typed(ns, CHOOSE q \in SchemaAt(p) : TRUE, Shape("object", ""))

\* A struct without a schema to write to is walked all the same; a struct under
\* a declaration with swagger:type is whatever scalar that names.
BuildStruct ==
    /\ Doing("type") /\ Go[call.t].kind = "struct"
    /\ LET scalar == Go[owner].notes.type.depth = 0 /\ Go[owner].notes.type.base \in DOMAIN Scalar
       IN  IF ~Overridden(owner)
           THEN Continue(Idle, AsObject(nodes, call.p), queued \union Go[call.t].inner)
           ELSE IF ~scalar THEN Skip
           ELSE IF SchemaAt(call.p) = {} THEN Abort("panic")
           ELSE \E q \in SchemaAt(call.p) : Write(Typed(nodes, q, Scalar[Go[owner].notes.type.base]))

BuildInterface ==
    /\ Doing("type") /\ Go[call.t].kind = "interface"
    /\ IF Go[call.t].inner = {} THEN Skip
       ELSE IF SchemaAt(call.p) = {} THEN Abort("panic")
       ELSE Continue(Idle, AsObject(nodes, call.p), queued \union Go[call.t].inner)

BuildMap ==
    /\ Doing("type") /\ Go[call.t].kind = "map"
    /\ IF SchemaAt(call.p) = {} THEN Fail
       ELSE IF ~Go[call.t].keyed THEN Skip
       ELSE \E q \in SchemaAt(call.p) :
              Continue(Call("type", Go[call.t].elem, ValuesOf(q)), Typed(nodes, q, Shape("object", "")), queued)

\* buildFromTextMarshal: a string, whatever the type is made of.
BuildTextMarshal ==
    /\ Doing("type") /\ IsTextMarshaler(call.t)
    /\ \E t \in {NamedCore[call.t]} :
       IF Go[t].notes.strfmt # "" /\ Sourced(t) THEN Write(Typed(nodes, call.p, Shape("string", Go[t].notes.strfmt)))
       ELSE IF Go[t].special = "typed" THEN Write(Typed(nodes, call.p, Go[t].shape))
       ELSE IF Go[t].found = "unknown" THEN Skip
       ELSE Write(Typed(nodes, call.p, Shape("string", "")))

\* buildNamedType.  A swagger:model type is referred to where a $ref is legal,
\* and then what its own comment says is left to its definition.
OwnerIsAlias == owner # NoType /\ Go[owner].kind = "alias"
RefModel(t) == Go[t].notes.model /\ ~simple
BuildNamed ==
    /\ Doing("type") /\ Go[call.t].kind = "named" /\ ~Go[call.t].marshals
    /\ \E shaped \in {IF RefModel(call.t) THEN {} ELSE Classified(nodes, call.t, call.p)} :
       LET t == call.t
           p == call.p
           under == Call("type", Under[t], p)
       IN  IF Go[t].special # "" THEN Write(Special(nodes, t, p))
           ELSE IF Go[t].found = "unknown" THEN Skip
           ELSE IF ~RefModel(t) /\ Overridden(t) THEN To(Override(Go[t].notes, t, p, under))
           ELSE IF OwnerIsAlias \/ Go[t].generic THEN To(under)
           ELSE IF shaped # {} THEN \E ns \in shaped : Write(ns)
           ELSE IF Go[Under[t]].kind = "unsupported" THEN Skip
           ELSE IF Sourced(t) THEN MakeRef(t, p)
           ELSE IF Go[Under[t]].kind \in {"basic", "array"} THEN To(under)
           ELSE Skip

\* buildAlias.
BuildAlias ==
    /\ Doing("type") /\ Go[call.t].kind = "alias"
    /\ LET t == call.t
           p == call.p
           rhs == Call("type", Go[t].elem, p)
           inline == Sourced(t) /\ (~Go[t].notes.model \/ simple \/ program.transparent)
       IN  IF Go[Under[t]].kind = "unsupported" THEN Skip
           ELSE IF Go[t].special # "" THEN Write(Special(nodes, t, p))
           ELSE IF inline /\ Overridden(t) THEN To(Override(Go[t].notes, Go[t].elem, p, rhs))
           ELSE IF inline /\ Go[t].notes.strfmt # "" THEN Write(AliasStrfmt(nodes, t, p))
           ELSE IF program.transparent THEN To(rhs)
           ELSE IF ~Sourced(t) THEN Fail
           ELSE IF ~Go[t].notes.model THEN To(rhs)
           ELSE MakeRef(t, p)

-----------------------------------------------------------------------------
(* schema.Builder.buildFromDecl: the definition of a declaration.           *)

BuildDecl ==
    /\ Doing("decl")
    /\ \E shaped \in {Classified(nodes, call.t, call.p)} :
       LET t == call.t
           p == call.p
           retry == IF Go[t].kind = "alias" THEN Call("declAlias", t, p) ELSE Call("type", Under[t], p)
       IN  IF Go[t].notes.ignored THEN Skip
           ELSE IF Go[t].special # "" THEN Write(Special(nodes, t, p))
           ELSE IF Overridden(t) THEN To(Override(Go[t].notes, t, p, retry))
           ELSE IF Go[t].kind = "alias" THEN To(Call("declAlias", t, p))
           ELSE IF shaped # {} THEN \E ns \in shaped : Write(ns)
           ELSE To(Call("type", IF Go[t].generic THEN Under[t] ELSE Go[t].elem, p))

\* buildDeclAlias: dissolve, expand or refer, as the options say.
BuildDeclAlias ==
    /\ Doing("declAlias")
    /\ LET t == call.t
           p == call.p
           rhs == Go[t].elem
           listed == queued \union {t}
           declared == Go[rhs].kind \in {"named", "alias"}
       IN  IF Go[t].notes.strfmt # "" THEN Write(AliasStrfmt(nodes, t, p))
           ELSE IF program.transparent THEN To(Call("type", rhs, p))
           ELSE IF declared /\ Go[rhs].special # "" THEN Continue(Idle, Special(nodes, rhs, p), listed)
           ELSE IF ~program.refAliases THEN Continue(Call("type", Under[t], p), nodes, listed)
           ELSE IF ~declared THEN Continue(Call("type", rhs, p), nodes, listed)
           ELSE IF Go[rhs].kind = "alias" /\ Go[Under[rhs]].kind = "unsupported" THEN Continue(Idle, nodes, listed)
           ELSE IF Sourced(rhs) THEN Continue(Idle, SetRef(nodes, p, rhs), listed \union {rhs})
           ELSE Fail

-----------------------------------------------------------------------------
(* The field of a parameters or a response struct: buildFromField of the    *)
(* parameters and of the responses builder.                                 *)

FieldBasic ==
    /\ Doing("field") /\ Go[call.t].kind = "basic"
    /\ Write(Typed(nodes, call.p, Go[call.t].shape))

FieldUnsupported ==
    /\ Doing("field") /\ Go[call.t].kind = "unsupported"
    /\ Fail

FieldPointer ==
    /\ Doing("field") /\ Go[call.t].kind = "pointer"
    /\ To(Call("field", Go[call.t].elem, call.p))

FieldAnonymous ==
    /\ Doing("field") /\ Go[call.t].kind \in {"struct", "interface"}
    /\ Delegate(NoType, Simple, call.t, call.p, nodes)

FieldArray ==
    /\ Doing("field") /\ Go[call.t].kind = "array"
    /\ Continue(Call("field", Go[call.t].elem, ItemsOf(call.p)), Arrayed(nodes, call.p), queued)

\* buildFromFieldMap: a parameter or header with a map in it is left out.
FieldMap ==
    /\ Doing("field") /\ Go[call.t].kind = "map"
    /\ IF Simple THEN Abort("skipped")
       ELSE Delegate(NoType, FALSE, Go[call.t].elem, ValuesOf(call.p),
                     Typed(nodes, call.p, Shape("object", "")))

\* IsStdErrorType, errNotAParameter: an error is no parameter, however it is spelled.
Unaliased[t \in Type] == IF Go[t].kind = "alias" THEN Unaliased[Go[t].elem] ELSE t
IsNoParameter(t) == Go[Unaliased[t]].name = "error" /\ job.site \in {"query", "formData", "bodyParam"}

\* buildNamedField.
FieldNamed ==
    /\ Doing("field") /\ Go[call.t].kind = "named"
    /\ LET t == call.t
       IN  IF IsNoParameter(t) THEN Abort("skipped")
           ELSE IF Go[t].special # "" THEN Write(EnsureTyped(Special(nodes, t, call.p), call.p))
           ELSE IF Sourced(t) THEN Delegate(t, Simple, t, call.p, nodes)
           ELSE IF Go[t].found = "sourceless" THEN Delegate(NoType, FALSE, Under[t], call.p, nodes)
           ELSE Fail

\* buildFieldAlias and BuildFieldAlias: only a body may refer to the alias.
FieldAlias ==
    /\ Doing("field") /\ Go[call.t].kind = "alias"
    /\ LET t == call.t
           mayRefer == ~Simple /\ ~program.transparent
       IN  IF Go[t].special = "any" THEN Write(EnsureTyped(Special(nodes, t, call.p), call.p))
           ELSE IF IsNoParameter(t) THEN Abort("skipped")
           ELSE IF mayRefer /\ ~Sourced(t) THEN Fail
           ELSE IF mayRefer /\ Go[t].notes.model THEN MakeRef(t, call.p)
           ELSE Delegate(NoType, Simple, t, call.p, nodes)

-----------------------------------------------------------------------------
(* Returns: what was left to do.                                            *)

Return(kind) == /\ phase = "walk" /\ call = Idle /\ after # <<>> /\ Last(after).kind = kind
Returned(ns) ==
    /\ nodes' = ns /\ after' = Front(after)
    /\ UNCHANGED <<program, results, phase, call, queued, place>>

\* classifierNamedTypeOverride, once the type is inlined.
ResolvedOverride ==
    /\ Return("override")
    /\ IF Last(after).strfmt # "" /\ SchemaAt(Last(after).p) = {} THEN Abort("panic")
       ELSE Returned(IF Last(after).strfmt = "" THEN nodes
                     ELSE WithFormat(nodes, CHOOSE q \in SchemaAt(Last(after).p) : TRUE, Last(after).strfmt))

LegalTypes == {"string", "number", "integer", "boolean", "array"}
              \union (IF job.site = "formData" THEN {"file"} ELSE {})

\* validateSimpleSchemaOutcome: what a simple schema cannot be is made a string.
ValidateSimpleSchema ==
    /\ Return("delegate")
    /\ LET n == Node(nodes, target)
           violated == n.ref # NoType \/ n.type \notin LegalTypes \union {""}
       IN  IF ~simple THEN Returned(nodes)
           ELSE /\ nodes' = EnsureTyped(IF violated THEN Cleared(nodes, target) ELSE nodes, target)
                /\ queued' = IF n.ref # NoType THEN {} ELSE queued
                /\ after' = Front(after)
                /\ UNCHANGED <<program, results, phase, call, place>>

\* applyFieldCarrier: a property is built from its type first; json:",string",
\* a swagger:type or a swagger:strfmt of the field then replaces that.
StringTag(ns) ==
    IF job.field.isString THEN Cleared(Typed(SetRef(ns, Root, NoType), Root,
                                             Shape("string", Node(ns, Root).format)), ItemsOf(Root))
    ELSE ns
FieldStrfmt(ns) == Cleared(Typed(SetRef(ns, Root, NoType), Root, Shape("string", job.field.notes.strfmt)), ItemsOf(Root))
FieldOverrides ==
    /\ Return("carrier")
    /\ LET notes == job.field.notes IN
       IF notes.type.base # ""
       THEN /\ call' = Override(notes, job.t, Root, Call("fresh", Under[job.t], Root))
            /\ nodes' = [p \in {Root} |-> Blank]
            /\ after' = Front(after)
            /\ UNCHANGED <<program, results, phase, queued, place>>
       ELSE Returned(IF notes.strfmt # "" THEN FieldStrfmt(StringTag(nodes)) ELSE StringTag(nodes))

\* An override that came to nothing: the Go type after all, from scratch.
FieldFallback ==
    /\ Doing("fresh")
    /\ Continue(Call("type", call.t, call.p), [p \in {Root} |-> Blank], queued)

\* processParamField: swagger:strfmt of the field, on the parameter itself.
ParameterFormat ==
    /\ Return("parameter")
    /\ LET notes == job.field.notes IN
       Returned(IF notes.strfmt = "" THEN nodes
                ELSE IF notes.type.base = "" THEN FieldStrfmt(nodes)
                ELSE WithFormat(nodes, Root, notes.strfmt))

\* processResponseField: on the header, or on the body unless it is a reference.
ResponseFormat ==
    /\ Return("response")
    /\ Returned(IF /\ job.field.notes.strfmt # ""
                   /\ job.site = "header" \/ (Start \in DOMAIN nodes /\ nodes[Start].ref = NoType)
                THEN Typed(nodes, Start, Shape("string", job.field.notes.strfmt)) ELSE nodes)

-----------------------------------------------------------------------------
(* The jobs.                                                                *)

Nowhere == (Root :> Blank)
Init ==
    /\ \E family \in Programs : program \in family
    /\ results = <<>> /\ phase = "begin" /\ call = Idle /\ after = <<>>
    /\ nodes = Nowhere /\ queued = {}
    /\ owner = NoType /\ simple = FALSE /\ target = Root /\ outcome = "ok"

Begin(c, later, d, ns) ==
    /\ phase' = "walk"
    /\ call' = c /\ after' = later /\ owner' = d /\ nodes' = ns
    /\ UNCHANGED <<program, results, queued, simple, target, outcome>>

BeginDefinition ==
    /\ phase = "begin" /\ job.site = "definition"
    /\ Begin(Call("decl", job.t, Root), <<>>, job.t, nodes)

BeginProperty ==
    /\ phase = "begin" /\ job.site = "property"
    /\ Begin(Call("type", job.t, Root), <<[kind |-> "carrier"]>>, NoType, nodes)

\* resolveParamType: swagger:file, then applyTypeOverride, then the Go type.
BeginParameter ==
    /\ phase = "begin" /\ job.site \in {"query", "formData", "bodyParam"}
    /\ LET arg == job.field.notes.type
           ns == Put(nodes, Start, Blank)
           arrays == Arrays(ns, Start, arg.depth)
           later == <<[kind |-> "parameter"]>>
       IN  IF job.site = "formData" /\ arg.base = "file"
           THEN Begin(Idle, later, NoType, Typed(ns, Start, Shape("file", "")))
           ELSE IF arg.base \in DOMAIN Scalar
           THEN Begin(Idle, later, NoType,
                      Typed(arrays, Start \o [i \in 1..arg.depth |-> "items"], Scalar[arg.base]))
           ELSE Begin(Call("field", job.t, Start), later, NoType, arrays)

\* processResponseField: of swagger:type, only file is looked for.
BeginResponse ==
    /\ phase = "begin" /\ job.site \in {"header", "bodyResponse"}
    /\ IF job.site = "bodyResponse" /\ job.field.notes.type.base = "file"
       THEN Begin(Idle, <<>>, NoType, Typed(nodes, Start, Shape("file", "")))
       ELSE Begin(Call("field", job.t, Start), <<[kind |-> "response"]>>, NoType, nodes)

Settle ==
    /\ phase = "walk" /\ call = Idle /\ after = <<>>
    /\ phase' = "typed"
    /\ UNCHANGED <<program, results, call, after, nodes, queued, place>>

RecordJob(result) ==
    /\ phase = "typed"
    /\ results' = Append(results, result)
    /\ phase' = IF Len(results') = Len(program.jobs) THEN "done" ELSE "begin"
    /\ nodes' = Nowhere /\ queued' = {}
    /\ owner' = NoType /\ simple' = FALSE /\ target' = Root /\ outcome' = "ok"
    /\ UNCHANGED <<program, call, after>>

Walk ==
    \/ ResolveOverride \/ ResolvedOverride
    \/ BuildBasic \/ BuildUnsupported \/ BuildPointer \/ BuildArray \/ BuildStruct \/ BuildInterface
    \/ BuildMap \/ BuildTextMarshal \/ BuildNamed \/ BuildAlias
    \/ BuildDecl \/ BuildDeclAlias
    \/ FieldBasic \/ FieldUnsupported \/ FieldPointer \/ FieldAnonymous \/ FieldArray \/ FieldMap
    \/ FieldNamed \/ FieldAlias
    \/ ValidateSimpleSchema \/ FieldOverrides \/ FieldFallback \/ ParameterFormat \/ ResponseFormat
    \/ Settle
-----------------------------------------------------------------------------
(* Properties.                                                              *)

\* Every $ref that is written leads to a declaration that will be built
\* (MakeRef, ResetPostDeclarations).
RefsAreQueued == \A p \in DOMAIN nodes : nodes[p].ref # NoType => nodes[p].ref \in queued

\* A query or form parameter and a header that are described, and their items at
\* every depth, have a type OAS allows there and no reference, and items stand under
\* an array and nowhere else (validateSimpleSchemaOutcome, the ensure helpers, the
\* field annotations).
SimpleTargetsAreTyped ==
    phase = "typed" /\ outcome = "ok" /\ Simple =>
        \A p \in {q \in DOMAIN nodes : ~Below(Body, q)} :
            /\ nodes[p].ref = NoType
            /\ nodes[p].type \in {"string", "number", "integer", "boolean", "array"}
                               \union (IF job.site = "formData" THEN {"file"} ELSE {})
            /\ nodes[p].type = "array" <=> ItemsOf(p) \in DOMAIN nodes

\* An annotation above `type T X` and above `type T = X` says the same of every
\* field of that type (classifierAliasTypeOverride, classifierAliasStrfmt).
Core[t \in Type] == IF Go[t].kind \in {"pointer", "array", "map"} THEN Core[Go[t].elem] ELSE t
AreTwins(t, u) ==
    /\ Go[t].kind = "named" /\ Go[u].kind = "alias" /\ Go[t].elem = Go[u].elem
    /\ Go[t].notes = Go[u].notes /\ ~Go[t].notes.model
    /\ Overridden(t) \/ Go[t].notes.strfmt # ""
\* A named type and an alias with one annotated meaning are described alike.
NamedLikeAlias ==
    phase = "done" /\ Len(results) = 2
        /\ program.jobs[2] = [program.jobs[1] EXCEPT !.t = program.jobs[2].t]
        /\ AreTwins(Core[program.jobs[1].t], Core[program.jobs[2].t]) =>
            results[1] = results[2]

\* No annotation and no type makes a builder panic.
NeverPanics == outcome # "panic"
=============================================================================
