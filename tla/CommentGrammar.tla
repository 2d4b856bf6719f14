---------------------------- MODULE CommentGrammar -----------------------------
(***************************************************************************)
(* The parser of doc comments (internal/parsers/grammar): Preprocess and Lex *)
(* turn the lines of a comment into tokens in three passes, and Parse or     *)
(* ParseAll makes blocks of them.                                            *)
(*                                                                          *)
(* A line is what the recognisers of lexLine see in it: the shapes it has,   *)
(* the annotation or the keyword it names, the words after an annotation,    *)
(* the value after a keyword, its indentation, the entry it makes in an      *)
(* extensions body and how it ends; for Classification, also an annotation   *)
(* mentioned in its middle and how its marker is set apart, and for          *)
(* RouteBody whether it starts with + or -.  A token is known by the place   *)
(* of the line it stands for, so that one sees where each line of the        *)
(* comment goes.                                                             *)
(***************************************************************************)
EXTENDS Keywords, AnnotationArgs, FiniteSets, FiniteSetsExt

CONSTANTS
    Line,             \* the lines considered
    Inputs,           \* comments and the ways they are parsed, in families
    Fits(_, _)        \* the values that a form of value accepts

Shapes == {"fence", "blank", "annotation", "directive", "keyword", "marker", "sigil"}
BlankLine == [shapes |-> {"blank"}, name |-> "", words |-> <<>>, value |-> "",
              indent |-> 0, entry |-> "", ends |-> "plain", mention |-> "", apart |-> "spaces"]

IsLine(l) ==
    /\ l.shapes \subseteq Shapes
    /\ "keyword" \in l.shapes => l.name \in Keyword
    /\ l.indent \in Nat
    /\ l.entry \in {"", "extension", "other", "malformed"}
    /\ l.ends \in {"plain", "punctuation", "heading"}

IsInput(c) ==
    /\ c.lines \in Seq(Line)
    /\ c.block \in BOOLEAN              \* written between /* and */ on lines of their own
    /\ c.all \in BOOLEAN                \* ParseAll, or Parse
    /\ c.singleLineAsDesc \in BOOLEAN   \* Options.SingleLineCommentAsDescription

ASSUME CommentAssumption ==
    /\ BlankLine \in Line
    /\ \A l \in Line : IsLine(l)
    /\ \A i \in DOMAIN Inputs : \A c \in Inputs[i] : IsInput(c)

\* A block comment opens and closes with a line that has nothing else on it.
Preprocess(c) == IF c.block THEN <<BlankLine>> \o c.lines \o <<BlankLine>> ELSE c.lines

VARIABLES
    input,            \* the comment and the options
    phase,            \* "classify", "accumulate", "prose", "parse" or "done"
    inFence,          \* the line is between two ---
    inLiteralDesc,    \* the line is below swagger:description |
    tokens,           \* first pass: the kind of each line
    folded,           \* second pass: tokens with their bodies
    titles,           \* third pass: the folded text tokens that are title
    blocks            \* what the parser has built

vars == <<input, phase, inFence, inLiteralDesc, tokens, folded, titles, blocks>>
text == Preprocess(input)

Init ==
    /\ \E i \in DOMAIN Inputs : input \in Inputs[i]
    /\ phase = "classify"
    /\ inFence = FALSE /\ inLiteralDesc = FALSE
    /\ tokens = <<>> /\ folded = <<>> /\ blocks = <<>>
    /\ titles = {}

-------------------------------------------------------------------------------
(* First pass: one token per line.  The recognisers are tried in order.        *)

LexLine(l, fence) ==
    CASE "fence" \in l.shapes -> "fence"
      [] fence -> "raw"
      [] OTHER ->
            CASE "blank" \in l.shapes -> "blank"
              [] "annotation" \in l.shapes -> "annotation"
              [] "directive" \in l.shapes -> "directive"
              [] "keyword" \in l.shapes -> "keyword"
              [] OTHER -> "text"

IsLiteralDescMarker(l) == l.name = "description" /\ l.words = <<"|">>

ClassifyLine ==
    /\ phase = "classify" /\ Len(tokens) < Len(text)
    /\ LET l    == text[Len(tokens) + 1]
           kind == LexLine(l, inFence /\ ~inLiteralDesc)
       IN  /\ tokens' = Append(tokens, IF inLiteralDesc /\ kind # "annotation" THEN "raw" ELSE kind)
           /\ inFence' = (inFence # (kind = "fence" /\ ~inLiteralDesc))
           /\ inLiteralDesc' = IF kind = "annotation" THEN IsLiteralDescMarker(l)
                               ELSE inLiteralDesc
    /\ UNCHANGED <<input, phase, folded, titles, blocks>>

ClassifiedLines ==
    /\ phase = "classify" /\ Len(tokens) = Len(text)
    /\ phase' = "accumulate"
    /\ UNCHANGED <<input, inFence, inLiteralDesc, tokens, folded, titles, blocks>>

-------------------------------------------------------------------------------
(* Second pass: a token that opens a body takes the lines up to the first that *)
(* ends it.                                                                    *)

Cursor == IF folded = <<>> THEN 1 ELSE folded[Len(folded)].next
Of(kinds) == {j \in DOMAIN tokens : tokens[j] \in kinds}

\* A keyword ends the body of its sibling, unless the body is YAML and the
\* keyword is nested in it.
EndsBody(head, j) ==
    /\ Siblings(text[head].name, text[j].name)
    /\ ~(Shape[text[head].name] = "rawblock" /\ text[head].name \in YamlBodied
         /\ text[j].indent > text[head].indent)

\* Mutant: indentation also shields an annotation.
KeywordEndsByIndent(head) ==
    {j \in Of({"annotation"}) : text[j].indent < text[head].indent}
    \union {j \in Of({"keyword"}) : EndsBody(head, j)}
    \union (IF text[head].name = "extensions" THEN {} ELSE Of({"fence"}))

\* collectRawBlock and collectRawValue; an extensions body may hold fences.
KeywordEnds(head) ==
    Of({"annotation"})
    \union {j \in Of({"keyword"}) : EndsBody(head, j)}
    \union (IF text[head].name = "extensions" THEN {} ELSE Of({"fence"}))

\* A raw value may have its value on the line, and then has no body.
HasBody(i) ==
    \/ Shape[text[i].name] = "rawblock"
    \/ Shape[text[i].name] = "rawvalue" /\ text[i].value = ""

\* collectDescriptionLiteral takes what classifyLines left as it stands, and
\* collectDescriptionBody the text up to the first line that is not text.
Described(i) ==
    IF text[i].name # "description" THEN {}
    ELSE IF IsLiteralDescMarker(text[i]) THEN {"raw"} ELSE {"text"}

TokenKind == {"fence", "raw", "blank", "annotation", "directive", "keyword", "text"}

\* Mutant: a keyword that does not end a body is not part of it either.
BodyKindsText(i) ==
    CASE tokens[i] = "fence" -> {"raw"}
      [] tokens[i] = "keyword" -> {"text", "raw"}
      [] tokens[i] = "annotation" -> Described(i)
      [] OTHER -> {}

\* The tokens that may be in the body of token i, and those that end it.
BodyKinds(i) ==
    CASE tokens[i] = "fence" -> {"raw"}
      [] tokens[i] = "keyword" -> {"text", "raw", "keyword"}
      [] tokens[i] = "annotation" -> Described(i)
      [] OTHER -> {}

Ends(i) ==
    CASE tokens[i] = "fence" -> Of({"fence"})
      [] tokens[i] = "keyword" /\ HasBody(i) -> KeywordEnds(i)
      [] tokens[i] = "annotation" -> Of(TokenKind \ Described(i))
      [] OTHER -> Of(TokenKind)

\* n is the first token after i that ends the body of i, if any does.
IsEnd(i, n) ==
    /\ \A j \in i + 1 .. n - 1 : j \notin Ends(i)
    /\ n <= Len(tokens) => n \in Ends(i)

FoldedKind(i) ==
    CASE tokens[i] = "fence" -> "yaml"
      [] tokens[i] = "keyword" ->
            IF Shape[text[i].name] \in {"rawblock", "rawvalue"} THEN Shape[text[i].name]
            ELSE "keyword"
      [] tokens[i] \in {"annotation", "blank", "text"} -> tokens[i]
      [] OTHER -> "dropped"

\* The token for i with the body up to n; the fence that closes a body goes with
\* it, and a body that no fence closes is truncated.
Accumulated(i, n) ==
    [kind |-> FoldedKind(i), head |-> i,
     next |-> IF tokens[i] = "fence" /\ n <= Len(tokens) THEN n + 1 ELSE n,
     body |-> {j \in Of(BodyKinds(i)) : i < j /\ j < n},
     truncated |-> tokens[i] = "fence" /\ n > Len(tokens)]

AccumulateBody ==
    /\ phase = "accumulate" /\ Cursor <= Len(tokens)
    /\ \E n \in Cursor + 1 .. Len(tokens) + 1 :
          IsEnd(Cursor, n) /\ folded' = Append(folded, Accumulated(Cursor, n))
    /\ UNCHANGED <<input, phase, inFence, inLiteralDesc, tokens, titles, blocks>>

AccumulatedBodies ==
    /\ phase = "accumulate" /\ Cursor > Len(tokens)
    /\ phase' = "prose"
    /\ UNCHANGED <<input, inFence, inLiteralDesc, tokens, folded, titles, blocks>>

-------------------------------------------------------------------------------
(* Third pass: the first run of prose is split into title and description.     *)

FoldedOf(kinds) == {i \in DOMAIN folded : folded[i].kind \in kinds}
LineOf(i) == text[folded[i].head]

\* Marker comments (+kubebuilder:...) leave the prose before runs are formed.
Texts0 == {i \in FoldedOf({"text"}) : "marker" \notin LineOf(i).shapes}
Prose  == Texts0 \union FoldedOf({"blank"})

\* Prose up to the first token that is neither prose nor dropped.
RunFrom(i) ==
    {k \in Prose : k >= i /\ \A m \in i .. k : folded[m].kind \in {"text", "blank", "dropped"}}

\* Lines before a blank that has text after it; else a first line that ends like
\* a sentence or is a heading; else none.
TitleOf(run) ==
    LET texts  == run \intersect Texts0
        first  == Min(texts)
        breaks == {k \in run \ texts : k > first /\ \E m \in texts : m > k}
    IN  IF texts = {} THEN {}
        ELSE IF breaks # {} THEN {i \in texts : i < Min(breaks)}
        ELSE IF LineOf(first).ends # "plain" THEN {first} ELSE {}

ClassifyProse ==
    /\ phase = "prose"
    /\ phase' = "parse"
    /\ titles' = IF Prose = {} THEN {} ELSE TitleOf(RunFrom(Min(Prose)))
    /\ UNCHANGED <<input, inFence, inLiteralDesc, tokens, folded, blocks>>

-------------------------------------------------------------------------------
(* The parser: one block for the comment, or one for every annotation.         *)

Annotations(I) == I \intersect FoldedOf({"annotation"})
Keywords(I) == I \intersect FoldedOf({"keyword", "rawblock", "rawvalue"})
Report(I, code) == {[code |-> code, at |-> i] : i \in I}

\* The tokens of the next block: up to the second annotation when there are
\* blocks for all of them, else to the end.
BlockStart == IF blocks = <<>> THEN 1 ELSE Max(blocks[Len(blocks)].tokens) + 1
BlockTokens ==
    LET A == Annotations(BlockStart .. Len(folded))
    IN  IF ~input.all \/ Cardinality(A) <= 1 THEN BlockStart .. Len(folded)
        ELSE BlockStart .. Min(A \ {Min(A)}) - 1

\* A title of one line is demoted when the options ask for it.
TitleDesc(I) ==
    LET title == I \intersect titles
        desc  == (I \intersect Texts0) \ titles
        lone  == input.singleLineAsDesc /\ Cardinality(title) = 1 /\ desc = {}
    IN  [title |-> IF lone THEN {} ELSE title, description |-> IF lone THEN title ELSE desc]

\* consumeBodyToken: keywords become properties, typed when their value fits the
\* form; an extensions body also gives entries, unless it cannot be read at all.
Typable(I)   == {i \in Keywords(I) : Shape[LineOf(i).name] \in {"number", "int", "bool", "option"}}
BadValues(I) == {i \in Typable(I) : ~Fits(LineOf(i).name, LineOf(i).value)}
ExtensionBodies(I) ==
    {i \in Keywords(I) : LineOf(i).name \in {"extensions", "infoExtensions"}}
Entries(I, entry) ==
    UNION {{j \in folded[i].body : text[j].entry = entry} : i \in I}
Malformed(I) == {i \in ExtensionBodies(I) : Entries({i}, "malformed") # {}}

BodyDiagnostics(I, kind) ==
    Report({i \in Keywords(I) : ~ContextLegal(LineOf(i).name, kind)}, "context-invalid")
    \union Report(BadValues(I), "invalid-value")
    \union Report(Malformed(I), "invalid-yaml-extensions")
    \union Report({i \in ExtensionBodies(I) \ Malformed(I) : Entries({i}, "other") # {}},
                  "invalid-annotation")
    \union Report({i \in I \intersect FoldedOf({"yaml"}) : folded[i].truncated},
                  "unterminated-yaml")

\* A block without a body: what any block has.
BareBlock(I, kind) ==
    [tokens |-> I, kind |-> kind,
     prose |-> TitleDesc(I),
     preamble |-> TitleDesc({i \in I : \A a \in Annotations(I) : i < a}),
     args |-> IF Annotations(I) = {} THEN <<>> ELSE ArgTokens(kind, LineOf(Min(Annotations(I))).words),
     properties |-> {}, typed |-> {}, extensions |-> {}, yaml |-> {}, enumBody |-> {},
     diagnostics |-> {}]

ArgDiagnostics(I, kind) ==
    LET errors == ArgumentErrors(kind, BareBlock(I, kind).args)
    IN  UNION {Report({Min(Annotations(I))}, e) : e \in errors}

WithBody(I, kind, yaml, diagnostics) ==
    [BareBlock(I, kind) EXCEPT
        !.properties = Keywords(I),
        !.typed = Typable(I) \ BadValues(I),
        !.extensions = Entries(ExtensionBodies(I) \ Malformed(I), "extension"),
        !.yaml = yaml,
        !.diagnostics = BodyDiagnostics((I \ FoldedOf({"yaml"})) \union yaml, kind)
                        \union diagnostics]

UnboundBlock(I) == WithBody(I, "unknown", I \intersect FoldedOf({"yaml"}), {})
\* parseSchemaBlock and parseMetaBlock.
SchemaBlock(I, kind) ==
    WithBody(I, kind, I \intersect FoldedOf({"yaml"}), ArgDiagnostics(I, kind))
\* parseOperationBlock: a route may not have YAML.
OperationBlock(I, kind) ==
    LET yaml == I \intersect FoldedOf({"yaml"})
    IN  IF kind = "operation" THEN WithBody(I, kind, yaml, ArgDiagnostics(I, kind))
        ELSE WithBody(I, kind, {},
                      Report(yaml, "unexpected-token") \union ArgDiagnostics(I, kind))
\* parseClassifierBlock: prose only, and the values of an enum; the last body
\* counts.  in: and name: are read elsewhere.
ClassifierBlock(I, kind) ==
    LET enums == {i \in I \intersect FoldedOf({"rawvalue"}) :
                    kind = "enum" /\ LineOf(i).name = "enum"}
        ignored == enums \union {i \in Keywords(I) : LineOf(i).name \in {"in", "name"}}
    IN  [BareBlock(I, kind) EXCEPT
            !.enumBody = {i \in enums : \A k \in enums : k <= i},
            !.diagnostics = Report(Keywords(I) \ ignored, "context-invalid")
                            \union Report(I \intersect FoldedOf({"yaml"}), "unexpected-token")
                            \union ArgDiagnostics(I, kind)]

\* parseTokens: the first annotation chooses the parser.
Block(I) ==
    IF Annotations(I) = {} THEN UnboundBlock(I)
    ELSE LET kind == LineOf(Min(Annotations(I))).name
         IN  CASE FamilyOf(kind) \in {"schema", "meta"} -> SchemaBlock(I, kind)
               [] FamilyOf(kind) = "operation" -> OperationBlock(I, kind)
               [] FamilyOf(kind) = "classifier" -> ClassifierBlock(I, kind)
               [] OTHER -> UnboundBlock(I)

ParseBlock ==
    /\ phase = "parse"
    /\ blocks' = Append(blocks, Block(BlockTokens))
    /\ phase' = IF Max(BlockTokens \union {0}) >= Len(folded) THEN "done" ELSE "parse"
    /\ UNCHANGED <<input, inFence, inLiteralDesc, tokens, folded, titles>>

Next == ClassifyLine \/ ClassifiedLines \/ AccumulateBody \/ AccumulatedBodies
        \/ ClassifyProse \/ ParseBlock
Spec == Init /\ [][Next]_vars

-------------------------------------------------------------------------------
(* Properties                                                                  *)

\* Where a line of the comment is found in the blocks.
Held(I, j) == \E i \in I : folded[i].head = j \/ j \in folded[i].body
HeldIn(block, place, j) ==
    CASE place = "annotation" ->
            \E a \in Annotations(block.tokens) :
                Held({a}, j) /\ \A c \in Annotations(block.tokens) : a <= c
      [] place = "property" -> Held(block.properties, j)
      [] place = "yaml" -> Held(block.yaml, j)
      [] place = "enum" -> Held(block.enumBody, j)
      [] place = "prose" -> Held(block.prose.title \union block.prose.description, j)
Places(j) ==
    {p \in (DOMAIN blocks) \X {"annotation", "property", "yaml", "enum", "prose"} :
        HeldIn(blocks[p[1]], p[2], j)}

\* Lines that carry nothing: blanks, directives and fences outside verbatim text,
\* and markers in prose.
Contentless(j) ==
    \/ tokens[j] \in {"blank", "directive", "fence"}
    \/ tokens[j] = "text" /\ "marker" \in text[j].shapes

\* A classifier leaves in: and name: to others, and the values of an enum that
\* are given again replace the earlier ones.
LeftOut(b, j) ==
    \E i \in Keywords(blocks[b].tokens) :
        /\ Held({i}, j)
        /\ FamilyOf(blocks[b].kind) = "classifier"
        /\ \/ LineOf(i).name \in {"in", "name"}
           \/ LineOf(i).name = "enum" /\ blocks[b].enumBody # {}

Reported(b, j) == \E d \in blocks[b].diagnostics : Held({d.at}, j)

\* Every line that carries something is found in one place of one block when
\* there is a block for every annotation, or the block reports that it was left
\* out; and no line is found in two places, ever (ParseAll, accumulateBodies:
\* every token is consumed by one collector and one block).
LinesAreKept ==
    phase = "done" =>
        \A j \in DOMAIN text :
            /\ Cardinality(Places(j)) <= 1
            /\ input.all /\ ~Contentless(j) /\ Places(j) = {} =>
                    \E b \in DOMAIN blocks : Reported(b, j) \/ LeftOut(b, j)

\* A body never reaches past an annotation, nor a keyword body past a sibling
\* keyword that is not nested in it (collectRawBlock, collectRawValue,
\* collectDescriptionBody); only what is between two fences is exempt.
BodiesEndAtSiblings ==
    \A i \in DOMAIN folded : \A j \in DOMAIN tokens :
        folded[i].kind # "yaml" /\ folded[i].head < j /\ j < folded[i].next =>
            /\ tokens[j] # "annotation"
            /\ folded[i].kind \in {"rawblock", "rawvalue"} /\ tokens[j] = "keyword" =>
                    ~EndsBody(folded[i].head, j)

\* A line is taken as it stands exactly when it is below an odd number of fences
\* or in the body of swagger:description |: nothing inside either is an
\* annotation or a keyword, and neither reaches further (classifyLines).
VerbatimIsDelimited ==
    \A j \in DOMAIN tokens :
        tokens[j] = "raw" <=>
            /\ tokens[j] # "fence"
            /\ \/ Cardinality({f \in Of({"fence"}) : f < j}) % 2 = 1
               \/ \E a \in Of({"annotation"}) :
                     /\ a < j /\ IsLiteralDescMarker(text[a])
                     /\ \A b \in a + 1 .. j : LexLine(text[b], FALSE) # "annotation"

\* No line of a comment is lost or taken twice, and what is taken as it stands is delimited.
LinesAreAnswered == LinesAreKept /\ VerbatimIsDelimited
================================================================================
