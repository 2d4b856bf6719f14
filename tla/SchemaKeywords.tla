---------------------------- MODULE SchemaKeywords ----------------------------
(***************************************************************************)
(* The keywords of a comment (maximum:, default:, required: ...) on the node *)
(* that TypeResolution builds for the declaration or the field under it.     *)
(*                                                                          *)
(* A field's keywords are read once its type is known; a declaration's are  *)
(* read before, against no type at all, and judged again afterwards.  Beside *)
(* a $ref nothing may stand: what was written there moves to an allOf, or is *)
(* dropped, as the options say.  Parameters and headers have handlers of     *)
(* their own, which know fewer keywords and judge nothing.                   *)
(***************************************************************************)
EXTENDS TypeResolution

VARIABLES
    words,         \* path -> the keywords written there, values as they were read
    reported,      \* the keywords a diagnostic named
    described      \* what is known of the comment: "no", "early" or "yes"

keywords == <<words, reported, described>>
allVars == <<vars, keywords>>

\* Where required: is kept (the enclosing schema or the parameter), the reference
\* and the override of an allOf.
Enclosing == <<"enclosing">>
Referred == <<"allOf", "reference">>
Overriding == <<"allOf", "override">>

-----------------------------------------------------------------------------
(* A keyword of a comment: its name, how its value is written, and whether  *)
(* it is about the elements of the array (items.maximum:).                  *)

Validations == {"pattern", "maximum", "minItems", "unique", "maxProperties", "patternProperties"}
Valued == {"default", "enum"}

\* The types that keywords suit.
Table == INSTANCE Keywords
IsLegalForType(kw, type) == Table!IsLegalForType(kw, type)

\* The literals of default: and enum:, and what is kept of one read as text.
AsText == [number |-> "digits", word |-> "word", quoted |-> "quoted word", json |-> "brackets"]
\* CoerceValue: how a literal is read as a type; {} when it cannot be.
CoerceValue(literal, type) ==
    CASE type \in {"integer", "number"} -> {"number"} \intersect {literal}
      [] type = "boolean" -> {}
      [] type = "string" -> {IF literal = "quoted" THEN "word" ELSE AsText[literal]}
      [] type \in {"object", "array"} /\ literal = "json" -> {"json"}
      [] OTHER -> {AsText[literal]}

\* CoerceEnum and pruneUncoercibleEnum: a member that is still a string is dropped
\* from a schema that is not a string.
CoerceEnum(literal, type) ==
    {v \in CoerceValue(literal, type) : type \in {"", "string"} \/ v \in {"number", "json"}}

Written(kw, as) == [kw |-> kw, as |-> as]
ReadAs(w, type) ==
    CASE w.kw = "default" -> {Written("default", v) : v \in CoerceValue(w.value, type)}
      [] w.kw = "enum" -> {Written("enum", v) : v \in CoerceEnum(w.value, type)}
      [] OTHER -> {Written(kw, "") : kw \in {k \in {w.kw} : IsLegalForType(k, type)}}

At0(ws) == {w \in ws : ~w.items}
Names(ws) == {w.kw : w \in ws}
On(ws, p) == IF p \in DOMAIN ws THEN ws[p] ELSE {}
Wrote(ws, p, added) == (p :> On(ws, p) \union added) @@ ws

\* DispatchSchemaLevel0 and DispatchSchemaItemsLevel, less the cross-target keywords.
OfItself == {"required", "discriminator", "additionalProperties"}
Dispatched(ws, type) == UNION {ReadAs(w, type) : w \in {v \in ws : v.kw \notin OfItself}}
Refused(ws, type) == {w.kw : w \in {v \in ws : v.kw \notin OfItself /\ ReadAs(v, type) = {}}}

-----------------------------------------------------------------------------
(* The annotations of a comment cut it into blocks, each from its annotation *)
(* down to the next, the first with what stands above it; the keywords of a  *)
(* comment are all above or all below its annotations.  Only the first block *)
(* is read, and under a classifier a keyword is an error of the parser's.    *)

\* The annotations above a job: where there are two, swagger:model or swagger:type
\* is the first.
AnnotationsOf(notes) ==
    {a \in {"model", "type", "strfmt", "enum"} :
        [model |-> notes.model, type |-> notes.type.base # "", strfmt |-> notes.strfmt # "", enum |-> notes.enum][a]}
Annotations(j) == AnnotationsOf(IF j.site = "definition" THEN Go[j.t].notes ELSE j.field.notes)
InFirstBlock(j) == j.below => Cardinality(Annotations(j)) < 2
IsLedByClassifier(j) == Annotations(j) # {} /\ "model" \notin Annotations(j)
IsLedByEnum(j) == Annotations(j) = {"enum"}

\* ParseBlock and parseClassifierBlock: the keywords read, and those the parser
\* names.  A block under swagger:enum keeps the text of enum:, which nobody reads.
IsProse(w) == w.kw = "description"
ReadWords(j) ==
    IF InFirstBlock(j) /\ ~IsLedByClassifier(j) THEN j.words ELSE {w \in j.words : IsProse(w)}
Refusals(j) ==
    IF InFirstBlock(j) /\ IsLedByClassifier(j)
    THEN Names({w \in j.words : ~IsProse(w)}) \ (IF IsLedByEnum(j) THEN {"enum"} ELSE {})
    ELSE {}
OwnWords == At0(ReadWords(job))

-----------------------------------------------------------------------------
(* A declaration: applyDeclCommentBlock, then what Build does at the end.    *)

BeginDeclaration ==
    /\ BeginDefinition
    /\ IF Go[job.t].notes.ignored THEN UNCHANGED <<words, reported>>
       ELSE /\ words' = Wrote(words, Root, Dispatched(OwnWords, ""))
            /\ reported' = Refusals(job)
    /\ described' = "early"

\* applyAdditionalPropertiesSpec: rides on an object only, replaces a $ref.
AddsProperties(ws) == "additionalProperties" \in Names(ws)
OnObject(type) == type \in {"", "object"}
WithProperties(ns) == Put(ns, Root, [Node(ns, Root) EXCEPT !.type = "object", !.format = "", !.ref = NoType])

\* Mutant: the values of default: and enum: stay as they were read.
RecoerceNothing(written, all, type) == written
\* RecoerceDeclValues: `all` is the comment, the values of which were kept as text.
RecoerceDeclValues(written, all, type) ==
    IF type \in {"", "string"} THEN written
    ELSE {w \in written : w.kw \notin Valued}
         \union UNION {ReadAs(w, type) : w \in {v \in all : v.kw \in Valued}}
\* RecheckSchemaShape.
RecheckSchemaShape(written, type) == {w \in written : IsLegalForType(w.kw, type)}

\* applyEnum: the constants of swagger:enum take the place of the members read.
WithoutMembers(written) == {w \in written : w.kw # "enum"}

\* No handler of a declaration's knows additionalProperties:.
DescribeDeclaration ==
    /\ phase = "typed" /\ outcome = "ok" /\ described = "early"
    /\ LET root == Node(nodes, Root)
           written == IF root.enum THEN WithoutMembers(On(words, Root)) ELSE On(words, Root)
           all == {w \in OwnWords : w.kw \in Names(written)}
           kept == RecheckSchemaShape(RecoerceDeclValues(written, all, root.type), root.type)
       IN  /\ words' = [words EXCEPT ![Root] = kept]
           /\ reported' = reported \union (Names(written) \ Names(kept))
    /\ described' = "yes"
    /\ UNCHANGED <<program, results, phase, call, after, nodes, queued, place>>

-----------------------------------------------------------------------------
(* A struct field: applyBlockToField.                                       *)

\* flattenItemsTargets and collectParamItemsLevels, the first level: the field is
\* written as an array, and not of an anonymous struct, interface or map.
Element[t \in Type] == IF Go[t].kind = "pointer" THEN Element[Go[t].elem] ELSE t
HasItemsTarget ==
    /\ Go[job.t].kind = "array" /\ ItemsOf(Root) \in DOMAIN nodes
    /\ Go[Element[Go[job.t].elem]].kind \notin {"struct", "interface", "map"}
ItemWords == {w \in ReadWords(job) : w.items}

Describing(site) == phase = "typed" /\ outcome = "ok" /\ described = "no" /\ site
Described ==
    /\ described' = "yes"
    /\ UNCHANGED <<program, results, phase, call, after, queued, place>>

RequiredOf(ws) == IF "required" \in Names(ws) THEN {Written("required", "")} ELSE {}

DescribeProperty ==
    /\ Describing(job.site = "property") /\ Node(nodes, Root).ref = NoType
    /\ \E all \in {OwnWords} :
       LET type == Node(nodes, Root).type
           marked == AddsProperties(all)
           fits == marked /\ OnObject(type)
           cross == {Written(w.kw, "") : w \in {v \in all : v.kw \in {"required", "discriminator"}}}
           own == Dispatched(all, type) \union (IF fits THEN {Written("additionalProperties", "")} ELSE {})
           items == IF HasItemsTarget THEN ItemWords ELSE {}
           itemType == Node(nodes, ItemsOf(Root)).type
       IN  /\ nodes' = IF fits THEN WithProperties(nodes) ELSE nodes
           /\ words' = Wrote(Wrote(Wrote(words, Root, own), Enclosing, cross), ItemsOf(Root), Dispatched(items, itemType))
           /\ reported' = Refusals(job) \union Refused(all, type) \union Refused(items, itemType)
                          \union (IF marked /\ ~fits THEN {"additionalProperties"} ELSE {})
    /\ Described

\* Mutant: a collector that knows nothing of externalDocs.
SiblingsWithoutDocs(ws) ==
    [text |-> {w \in ws : w.kw = "description"}, extensions |-> {w \in ws : w.kw = "extension"}, docs |-> {},
     validations |-> {w \in ws : w.kw \notin {"description", "extension", "externalDocs", "required", "discriminator"}}]
\* applyToRefField and its collector: the keywords beside a $ref, by what can
\* become of them.
Siblings(ws) ==
    LET text == {w \in ws : w.kw = "description"}
        lifted == {w \in ws : w.kw = "extension"}
        docs == {w \in ws : w.kw = "externalDocs"}
    IN  [text |-> text, extensions |-> lifted, docs |-> docs,
         validations |-> {w \in ws \ (text \union lifted \union docs) : w.kw \notin {"required", "discriminator"}}]
\* CoerceJSONOrString, for a default; an enum is read against no type.
BesideRef(w) ==
    IF w.kw = "default" THEN Written(w.kw, IF w.value = "json" THEN "json"
                                           ELSE CHOOSE v \in CoerceValue(w.value, "string") : TRUE)
    ELSE IF w.kw = "enum" THEN Written(w.kw, CHOOSE v \in CoerceValue(w.value, "") : TRUE)
    ELSE Written(w.kw, "")
Beside(ws) == {BesideRef(w) : w \in ws}

DescribeReference ==
    /\ Describing(job.site = "property") /\ Node(nodes, Root).ref # NoType
    /\ \E all \in {OwnWords}, s \in {Siblings(OwnWords)} :
       LET direct == s.text \union s.extensions
           forced == s.validations \union s.docs
           any == forced \union s.extensions
           enclosing == Wrote(words, Enclosing, RequiredOf(all))
       IN  IF program.skipAllOf \/ (program.refSiblings /\ forced = {}) \/ any \union s.text = {}
           THEN /\ words' = IF program.refSiblings THEN Wrote(enclosing, Root, Beside(direct)) ELSE enclosing
                /\ reported' = Refusals(job) \union Names(IF program.refSiblings THEN forced ELSE any \union s.text)
                /\ UNCHANGED nodes
           ELSE IF any = {} /\ ~program.descWithRef
           THEN /\ words' = enclosing /\ reported' = Refusals(job) \union {"description"}
                /\ UNCHANGED nodes
           ELSE /\ nodes' = (Referred :> [Blank EXCEPT !.ref = nodes[Root].ref]) @@ (Root :> Blank) @@ nodes
                /\ words' = Wrote(Wrote(enclosing, Root, Beside(direct \union s.docs)), Overriding, Beside(s.validations))
                /\ reported' = Refusals(job)
    /\ Described

-----------------------------------------------------------------------------
(* A parameter, a header, the body of a response.                           *)

SimpleWords == {"pattern", "maximum", "minItems", "unique", "default", "enum", "extension", "description"}
\* Number, Integer, UniqueBool, PatternString, Raw, Extension: nothing is judged,
\* and an enum keeps the members it could not read.
ReadSimply(w, type) ==
    CASE w.kw = "default" -> {Written(w.kw, v) : v \in CoerceValue(w.value, type)}
      [] w.kw = "enum" -> {Written(w.kw, IF CoerceValue(w.value, type) = {} THEN AsText[w.value]
                                         ELSE CHOOSE v \in CoerceValue(w.value, type) : TRUE)}
      [] OTHER -> {Written(w.kw, "")}
Simply(ws, type) == UNION {ReadSimply(w, type) : w \in {v \in ws : v.kw \in SimpleWords}}
\* Full-schema keywords are reported; required:, readOnly: and discriminator: are not.
FullOnly == {"maxProperties", "patternProperties", "externalDocs"}
Unread(ws, type) == {w \in ws : w.kw = "default" /\ CoerceValue(w.value, type) = {}}
SimpleItems ==
    IF HasItemsTarget /\ ~(Go[Element[Go[job.t].elem]].kind \in {"named", "alias"} /\ Sourced(Element[Go[job.t].elem]))
    THEN {w \in ItemWords : w.kw \notin {"extension", "description"}} ELSE {}

DescribeSimple(cross) ==
    \E all \in {OwnWords} :
    LET type == Node(nodes, Root).type
        itemType == Node(nodes, ItemsOf(Root)).type
    IN  /\ words' = Wrote(Wrote(Wrote(words, Root, Simply(all, type)), Enclosing, cross),
                          ItemsOf(Root), Simply(SimpleItems, itemType))
        /\ reported' = Refusals(job) \union (Names(all \union SimpleItems) \intersect FullOnly)
        /\ UNCHANGED nodes

\* DispatchParamLevel0: a default that cannot be read fails the build.
DescribeParameter ==
    /\ Describing(job.site \in {"query", "formData", "bodyParam"})
    /\ IF Unread(OwnWords, Node(nodes, Root).type) # {}
       THEN /\ outcome' = "error" /\ described' = "yes"
            /\ UNCHANGED <<program, results, phase, call, after, nodes, queued, owner, simple, target, words, reported>>
       ELSE DescribeSimple(RequiredOf(OwnWords)) /\ Described

\* DispatchHeaderLevel0, and DispatchSchemaLevel0 on the body of a response.
DescribeResponse ==
    /\ Describing(job.site \in {"header", "bodyResponse"})
    /\ LET body == Node(nodes, Body) IN
       IF job.site = "header" THEN DescribeSimple({})
       ELSE IF Body \notin DOMAIN nodes \/ body.ref # NoType THEN UNCHANGED <<nodes, words, reported>>
       ELSE /\ words' = Wrote(words, Body, Dispatched(OwnWords, body.type))
            /\ reported' = Refusals(job) \union Refused(OwnWords, body.type)
            /\ UNCHANGED nodes
    /\ Described

-----------------------------------------------------------------------------

KeywordInit == Init /\ words = (Root :> {}) /\ reported = {} /\ described = "no"

NextDescribed ==
    /\ outcome = "ok" => described = "yes"
    /\ RecordJob([nodes |-> nodes, queued |-> queued, outcome |-> outcome,
                   words |-> words, reported |-> reported])
    /\ words' = (Root :> {}) /\ reported' = {} /\ described' = "no"

KeywordNext ==
    \/ BeginDeclaration
    \/ (BeginProperty \/ BeginParameter \/ BeginResponse \/ Walk) /\ UNCHANGED keywords
    \/ DescribeDeclaration \/ DescribeProperty \/ DescribeReference
    \/ DescribeParameter \/ DescribeResponse
    \/ NextDescribed

KeywordSpec == KeywordInit /\ [][KeywordNext]_allVars

-----------------------------------------------------------------------------
(* Properties.                                                              *)

FullSchema == job.site \in {"definition", "property", "bodyResponse"}
IsDescribed == phase = "typed" /\ outcome = "ok" /\ described = "yes"

\* A default or an enum member has the type of the schema it stands in.
IsReadable(w, type) ==
    w.kw \in Valued =>
        CASE type \in {"integer", "number"} -> w.as = "number"
          [] type = "boolean" -> FALSE
          [] type = "string" -> w.as # "quoted word"
          [] type \in {"object", "array"} /\ w.kw = "enum" -> w.as = "json"
          [] OTHER -> TRUE

\* No schema carries a validation its type has no use for, or a value of another
\* type, and nothing but prose and extensions stands beside the $ref of a field
\* (RecheckSchemaShape, RecoerceDeclValues, checkShape, applyToRefField).  A
\* declaration written over a model is a $ref too, and keeps all that is above it.
WordsAreLegal ==
    IsDescribed /\ FullSchema =>
        \A p \in DOMAIN words \intersect DOMAIN nodes : \A w \in words[p] :
            IF nodes[p].ref = NoType
            THEN IsLegalForType(w.kw, nodes[p].type) /\ IsReadable(w, nodes[p].type)
            ELSE job.site = "definition" \/ (program.refSiblings /\ w.kw \in {"extension", "description"})

\* What is lost without a word: what stands below a second annotation; a keyword
\* about a property, or about further properties, above a declaration; and the members
\* of enum: where swagger:enum collects its own.
Silenced(j, root) ==
    IF ~InFirstBlock(j) THEN Names(j.words) \ {"description"}
    ELSE IF j.site # "definition" THEN {}
    ELSE OfItself \union (IF root.enum \/ IsLedByEnum(j) THEN {"enum"} ELSE {})

\* Every other keyword above a field or a declaration is in the document, or a
\* diagnostic names it (parseClassifierBlock, checkShape, warnUncoercible,
\* applyRefSiblingDrop).
WordsAreAccountedFor ==
    IsDescribed /\ job.site \in {"definition", "property"} =>
        \A w \in At0(job.words) :
            \/ w.kw \in reported \union Silenced(job, Node(nodes, Root))
            \/ \E p \in DOMAIN words : w.kw \in Names(words[p])

\* The same comment on the same type says the same, whether it was read before the
\* type was known or after (RecoerceDeclValues: "the same keywords on a struct
\* field [...] were always correct"), the keywords that are lost above a declaration
\* apart.
KeywordsAgree ==
    phase = "done" /\ Len(results) = 2 /\ program.jobs[1].words = program.jobs[2].words
        /\ program.jobs[1].site = "definition" /\ program.jobs[2].site = "property"
        /\ results[1].outcome = "ok" /\ results[2].outcome = "ok"
        /\ results[1].nodes = results[2].nodes /\ results[1].nodes[Root].ref = NoType
        /\ (\A j \in {program.jobs[1], program.jobs[2]} : ReadWords(j) = j.words) =>
            LET lost == Silenced(program.jobs[1], results[1].nodes[Root])
                Kept(i) == {w \in results[i].words[Root] : w.kw \notin lost}
            IN  Kept(1) = Kept(2) /\ results[1].reported \ lost = results[2].reported \ lost

\* What a comment says is in the document where it is legal, or a diagnostic names it,
\* the losses named above apart.
WordsAreAnswered == WordsAreLegal /\ WordsAreAccountedFor

\* What a type becomes is whole: a simple target has a type and no reference, and every
\* other reference has a declaration that will be built.
TargetsAreWhole == SimpleTargetsAreTyped /\ RefsAreQueued
=============================================================================
