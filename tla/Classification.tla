---------------------------- MODULE Classification -----------------------------
(***************************************************************************)
(* What the scanner makes of the comments of a file before they are parsed   *)
(* (internal/scanner: index.go, declaration.go; internal/parsers:            *)
(* annotation_line.go, matchers.go, parsed_path_content.go), and what the    *)
(* parsed block of swagger:meta gives the document (builders/spec/walker.go).*)
(*                                                                          *)
(* A comment is searched twice: loosely, for the kinds of annotation that a  *)
(* file has at all, and strictly, for the declarations that carry one.  The  *)
(* strict search is not the parser's: CommentGrammar reads the same lines a  *)
(* third time.  Here the comment is the input of CommentGrammar, attached to *)
(* some place of a file that may hold another comment.                       *)
(***************************************************************************)
EXTENDS CommentGrammar

CONSTANTS
    NameWord,         \* words that are names: a letter and at least one more character
    TagWord,          \* words that a tag may be
    IdWord,           \* words that an operation may be called
    Verb,             \* words of letters
    Regexed,          \* paths with a constraint on a parameter
    Files             \* where the comment is, what else there is in its file, and the options

StructKind == {"model", "parameters", "response"}
PathKind   == {"route", "operation"}
Recognised == StructKind \union PathKind
              \union {"meta", "strfmt", "name", "discriminated", "file", "enum", "default", "alias",
                      "type", "additionalProperties", "patternProperties", "title", "description",
                      "allOf", "omit", "ignore"}

\* Where a comment is: above a type, above a group of two, inside or after one (AfterDeclComments), above
\* a function, above a type in a function or in a block of one, above a variable, or apart.
Place == {"type", "group", "inside", "after", "func", "local", "nested", "value", "none"}
Below == {"inside", "after"}

IsFile(f) ==
    /\ f.place \in Place
    /\ f.above \in Seq(Line)            \* the doc of the type, when the comment is inside or after it
    /\ f.other \in Seq(Line)            \* another comment of the file
    /\ f.afterDecl \in BOOLEAN          \* Options.AfterDeclComments
    /\ f.include \subseteq TagWord      \* Options.IncludeTags and ExcludeTags
    /\ f.exclude \subseteq TagWord

ASSUME FilesAssumption == \A f \in Files : IsFile(f)

-------------------------------------------------------------------------------
(* One line, searched strictly                                                 *)

\* annotationTail: the marker starts the line, whatever decorates the comment.
StartsWith(l, keyword) == "annotation" \in l.shapes /\ l.name = keyword

\* annotationArgument: spaces, and something after them.
AnnotationArgument(l, keyword) == StartsWith(l, keyword) /\ l.words # <<>> /\ l.apart # "tab"

\* overrideName: the marker alone, or one name after it; nothing if it is neither.
OverrideName(l, keyword, wildcard) ==
    IF ~StartsWith(l, keyword) THEN {}
    ELSE IF l.words = <<>> THEN {""}
    ELSE IF /\ AnnotationArgument(l, keyword) /\ Len(l.words) = 1
            /\ \/ l.words[1] \in NameWord
               \/ wildcard /\ l.words[1] = "*"
         THEN {l.words[1]} ELSE {}

\* A name that the strict search does not accept.
MalformedOverrideName(l, keyword, wildcard) ==
    AnnotationArgument(l, keyword) /\ OverrideName(l, keyword, wildcard) = {}

\* firstNamedOverride: the first name in the lines, or that there is a marker without one.
FirstNamedOverride(lines, keyword, wildcard) ==
    LET found(i) == OverrideName(lines[i], keyword, wildcard)
        named    == {i \in DOMAIN lines : found(i) \notin {{}, {""}}}
    IN  IF named # {} THEN found(Min(named)) ELSE UNION {found(i) : i \in DOMAIN lines}

ModelOverride(lines) == FirstNamedOverride(lines, "model", FALSE)
ResponseOverride(lines) == FirstNamedOverride(lines, "response", TRUE)

\* Mutant: parameters need not say of what operations.
ParametersOverrideBare(lines) == {i \in DOMAIN lines : StartsWith(lines[i], "parameters")}

\* parametersAnnotation: something after the marker.
ParametersOverride(lines) == {i \in DOMAIN lines : AnnotationArgument(lines[i], "parameters")}

-------------------------------------------------------------------------------
(* The comments of a file, searched loosely                                    *)

\* A comment group as the Go parser gives it: its lines, and whether they are one comment.
Group(lines, block) == [lines |-> lines, block |-> block]
Comments(g) == IF g.block THEN {g.lines} ELSE {<<g.lines[i]>> : i \in DOMAIN g.lines}

\* annotationName: the first marker of a comment, wherever it is on its line, after a space or a slash.
Visible(l) ==
    IF "annotation" \in l.shapes /\ l.apart # "glued" THEN {l.name} ELSE {l.mention} \ {""}
AnnotationName(comment) ==
    LET seen == {i \in DOMAIN comment : Visible(comment[i]) # {}}
    IN  IF seen = {} THEN {} ELSE Visible(comment[Min(seen)])

\* detectNodes: the kinds a file has, or that a comment claims to be two things.
KindsOf(g) == UNION {AnnotationName(c) : c \in Comments(g)}
Nodes(groups) == Recognised \intersect UNION {KindsOf(g) : g \in groups}
StructConflict(g) == Cardinality(KindsOf(g) \intersect StructKind) > 1

\* What is said of a comment: of annotations nobody knows, and of names that are none.  A name in a block
\* comment is not looked at: its first line has no annotation.
Warnings(g) ==
    (IF KindsOf(g) \ Recognised # {} THEN {"unknown annotation"} ELSE {})
    \union (IF \E i \in DOMAIN g.lines :
                  /\ ~g.block
                  /\ \/ /\ "model" \in Visible(g.lines[i])
                        /\ MalformedOverrideName(g.lines[i], "model", FALSE)
                     \/ /\ "response" \in Visible(g.lines[i])
                        /\ MalformedOverrideName(g.lines[i], "response", TRUE)
            THEN {"malformed name"} ELSE {})

-------------------------------------------------------------------------------
(* Path annotations: parsePathAnnotation                                       *)

\* rxRouteHead, rxOperationHead: what a line needs to be meant as one.
PathHead(l, keyword) ==
    /\ AnnotationArgument(l, keyword)
    /\ Len(l.words) > 1 /\ l.words[1] \in Verb /\ l.words[2] \in Path

\* rxRoute, rxOperation: tags, and the identifier at the end.
PathLine(l, keyword) ==
    /\ PathHead(l, keyword)
    /\ Len(l.words) > 2 /\ l.words[Len(l.words)] \in IdWord
    /\ \A i \in 3 .. Len(l.words) - 1 : l.words[i] \in TagWord

\* stripPathParamRegex: the template, and the parameter whose constraint is lost.
StrippedParams(word) == IF word \in Regexed THEN {word} ELSE {}

\* The lines after the first that matched, without those that did and the blank ones right below them.
Remaining(lines, matched) ==
    LET after == {i \in DOMAIN lines \ matched : \E m \in matched : m < i}
        below(i) == \E m \in matched : m < i /\ \A k \in m + 1 .. i : k \notin matched /\ "blank" \in lines[k].shapes
    IN  [i \in {i \in after : ~below(i)} |-> lines[i]]

\* The last line that matches is the annotation of the group.
ParsePathAnnotation(lines, keyword) ==
    LET matched == {i \in DOMAIN lines : PathLine(lines[i], keyword)}
        words   == lines[Max(matched)].words
    IN  IF matched = {}
        THEN [found |-> FALSE,
              unparsed |-> {i \in DOMAIN lines : PathHead(lines[i], keyword)}]
        ELSE [found |-> TRUE, pos |-> Max(matched), method |-> words[1], path |-> words[2],
              tags |-> {words[i] : i \in 3 .. Len(words) - 1}, id |-> words[Len(words)],
              stripped |-> StrippedParams(words[2]), remaining |-> Remaining(lines, matched)]

\* Included tags are asked for first; excluded ones only when none are included.
ShouldAcceptTag(tags, include, exclude) ==
    IF include # {} THEN tags \intersect include # {} ELSE tags \intersect exclude = {}

\* reportUnparsedPathAnnotation: only a line that was meant to be one is worth a word.
ReportUnparsed(pp) == IF pp.unparsed = {} THEN "nothing" ELSE "unparsed"

\* Recorded, left out by its tags, or said not to parse; a constraint that is lost is said of a route.
Collected(pp, f) ==
    CASE ~pp.found -> ReportUnparsed(pp)
      [] pp.found /\ ShouldAcceptTag(pp.tags, f.include, f.exclude) -> "recorded"
      [] OTHER -> "left out"
CollectRoute(nodes, g, f) ==
    IF "route" \in nodes THEN Collected(ParsePathAnnotation(g.lines, "route"), f) ELSE "nothing"
CollectOperation(nodes, g, f) ==
    IF "operation" \in nodes THEN Collected(ParsePathAnnotation(g.lines, "operation"), f) ELSE "nothing"
CollectPath(nodes, g, keyword, f) ==
    IF keyword = "route" THEN CollectRoute(nodes, g, f) ELSE CollectOperation(nodes, g, f)

-------------------------------------------------------------------------------
(* Declarations: processFileDecls and processDecl                              *)

Subject == Group(input.lines, input.block)
Groups(f) == {Subject, Group(f.above, FALSE), Group(f.other, FALSE)}

\* Mutant: the comments of a file overwrite each other's kinds.
NodesOfLast(f) ==
    IF f.other = <<>> THEN Nodes(Groups(f)) ELSE Nodes({Group(f.other, FALSE)})

FileNodes(f) == Nodes(Groups(f))

\* Where a comment below the name of a type can be: at the top of a struct, or on the line of another type.
LeadingBodyComments(f) == IF f.place = "inside" THEN input.lines ELSE <<>>
AfterDeclSource(f) == IF f.place = "after" THEN input.lines ELSE LeadingBodyComments(f)
MergeCommentGroups(above, extra) == above \o extra

\* What a declaration carries: the comment above it, and with AfterDeclComments what is inside or after it.
DeclComments(f) ==
    CASE f.place \in {"type", "group", "local"} -> input.lines
      [] f.place \in Below -> IF f.afterDecl THEN MergeCommentGroups(f.above, AfterDeclSource(f)) ELSE f.above
      [] OTHER -> <<>>

\* HasModelAnnotation, HasParameterAnnotation, HasResponseAnnotation.
HasAnnotation(lines, kind) ==
    CASE kind = "model" -> ModelOverride(lines) # {}
      [] kind = "parameters" -> ParametersOverride(lines) # {}
      [] kind = "response" -> ResponseOverride(lines) # {}

\* A declaration is one of the three: the first that its file has and that it carries.  A group of types
\* shares its comment, a type inside a block of a function is not looked at, nor is a variable.
Classify(nodes, lines) ==
    LET is(kind) == kind \in nodes /\ HasAnnotation(lines, kind)
    IN  IF is("model") THEN {"model"} ELSE IF is("parameters") THEN {"parameters"}
        ELSE IF is("response") THEN {"response"} ELSE {}
ProcessDecl(f) == Classify(FileNodes(f), DeclComments(f))

\* collectParameterRef: the comment of a function asks for shared parameters.
ParameterRef(f) ==
    f.place = "func" /\ "parameters" \in FileNodes(f) /\ ParametersOverride(input.lines) # {}

\* The scan ends here: a comment of the file is two things.
Refused(f) == \E g \in Groups(f) : StructConflict(g)

\* EntityDecl.Names: what a definition is known by.
Names(f) ==
    LET override == ModelOverride(DeclComments(f))
    IN  IF override \in {{}, {""}} THEN "Go name" ELSE CHOOSE n \in override : TRUE

-------------------------------------------------------------------------------
(* swagger:meta: collectMetaComments, buildMeta and applyMetaBlock             *)

IsMeta == "meta" \in KindsOf(Subject)

\* dispatchMetaSimple: keywords whose value is taken as it is.
MetaSimple(k) ==
    CASE k = "tos" -> {"termsOfService"}
      [] k \in {"consumes", "produces", "schemes", "version", "host", "basePath"} -> {k}
      [] OTHER -> {}

\* dispatchMetaYAMLBlock: keywords whose body is YAML.
MetaYAML(k) == {k} \intersect {"securityDefinitions", "externalDocs", "tags"}

\* The rest of applyMetaBlock: what the parser has read already.
MetaTyped(k) ==
    CASE k \in {"security", "contact", "license"} -> {k}
      [] k = "infoExtensions" -> {"info.extensions"}
      [] k = "extensions" -> {"extensions"}
      [] OTHER -> {}
MetaFields(k) == MetaSimple(k) \union MetaYAML(k) \union MetaTyped(k)

\* The keywords of a block that a field of the document comes from: all of them where they are added up,
\* the first of contact and license, the last of any other.
MetaSources(b, field) ==
    LET from == {i \in Keywords(b.tokens) : field \in MetaFields(LineOf(i).name)}
    IN  IF from = {} THEN {}
        ELSE CASE field \in {"tags", "extensions", "info.extensions"} -> from
               [] field \in {"contact", "license"} -> {Min(from)}
               [] OTHER -> {Max(from)}

-------------------------------------------------------------------------------
(* Properties                                                                  *)

\* Comments as the documentation writes them: markers set apart by spaces, one of each kind, and none that
\* another hides (a block comment is searched loosely up to its first marker, and not for malformed names).
Carrying(kind) == {i \in DOMAIN input.lines : StartsWith(input.lines[i], kind)}
Legible ==
    /\ \A i \in DOMAIN input.lines : input.lines[i].apart = "spaces"
    /\ \A kind \in StructKind \union PathKind : Cardinality(Carrying(kind)) < 2
    /\ input.block =>
          /\ Cardinality({i \in DOMAIN input.lines : Visible(input.lines[i]) # {}}) < 2
          /\ \A i \in DOMAIN input.lines : ~MalformedOverrideName(input.lines[i], "model", FALSE)
                                       /\ ~MalformedOverrideName(input.lines[i], "response", TRUE)

\* What becomes of a marker on a declaration or on a function: an entry in the index, a warning, or an
\* error.  A marker below a declaration whose doc has another is not looked at.
MarkerAnswered(f, i) ==
    LET kind == input.lines[i].name
    IN  \/ Refused(f)
        \/ kind \in ProcessDecl(f)
        \/ kind = "parameters" /\ ParameterRef(f)
        \/ kind = "parameters" /\ input.lines[i].words = <<>>
        \/ "malformed name" \in Warnings(Subject)
        \/ f.place \in Below /\ (f.afterDecl => \E other \in StructKind \ {kind} : HasAnnotation(f.above, other))

PathAnswered(f, i) ==
    \/ Refused(f) \/ ~PathHead(input.lines[i], input.lines[i].name)
    \/ CollectPath(FileNodes(f), Subject, input.lines[i].name, f) =
          (IF ~PathLine(input.lines[i], input.lines[i].name) THEN "unparsed"
           ELSE LET tags == {input.lines[i].words[n] : n \in 3 .. Len(input.lines[i].words) - 1}
                IN  IF f.include = {} /\ tags \intersect f.exclude # {} THEN "left out"
                    ELSE IF f.include # {} /\ tags \intersect f.include = {} THEN "left out" ELSE "recorded")

\* No annotation is lost in silence: a marker that starts a line of a declaration's comment puts the
\* declaration in the index, whatever else its file holds, or something is said; and so does a path
\* (detectNodes: a mask for the file, then a search in each declaration; warnMalformedStructName: "rather
\* than silently dropping it"; reportUnparsedPathAnnotation).
MarkersAreAnswered ==
    phase = "done" /\ Legible =>
        \A f \in Files : \A i \in DOMAIN input.lines :
            "annotation" \in input.lines[i].shapes =>
                /\ /\ input.lines[i].name \in StructKind
                   /\ \/ f.place \in {"type", "group", "local"} \union Below
                      \/ f.place = "func" /\ input.lines[i].name = "parameters"
                   => MarkerAnswered(f, i)
                /\ input.lines[i].name \in PathKind => PathAnswered(f, i)

\* The name the schema builder infers: that of the first model block.
InferredName ==
    LET models == {b \in DOMAIN blocks : blocks[b].kind = "model"}
    IN  IF models = {} \/ blocks[Min(models)].args = <<>> THEN "Go name"
        ELSE blocks[Min(models)].args[1].text

\* What the index records, the builders can read: the strict search and the parser agree that a declaration
\* is a model, a set of parameters or a response, and on the name of a model (EntityDecl.Names gives the key
\* of its definition, inferNames the name in it).  Verbatim text is only known to the parser.
RecordedIsRead ==
    phase = "done" /\ input.all /\ Legible /\ "raw" \notin {tokens[j] : j \in DOMAIN tokens} =>
        \A f \in Files : f.above = <<>> =>
            \A kind \in ProcessDecl(f) :
                /\ \E b \in DOMAIN blocks : blocks[b].kind = kind /\ ArgumentErrors(kind, blocks[b].args) = {}
                /\ kind = "model" => InferredName = Names(f)

\* Every keyword that the table admits for the API as a whole ends up in a field of the document, in one of
\* its own, and no other keyword does (dispatchMetaSimple, dispatchMetaYAMLBlock and applyMetaBlock against
\* the table of keywords).
MetaArrives ==
    phase = "done" /\ ~input.all /\ IsMeta /\ blocks[1].kind = "meta" =>
        \A i \in Keywords(blocks[1].tokens) :
            LET fields == MetaFields(LineOf(i).name)
            IN  /\ fields # {} <=> "meta" \in Contexts[LineOf(i).name]
                /\ \A field \in fields : \A j \in MetaSources(blocks[1], field) : LineOf(j).name = LineOf(i).name
================================================================================
