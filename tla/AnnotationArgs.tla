---------------------------- MODULE AnnotationArgs -----------------------------
(***************************************************************************)
(* The words after swagger:<annotation>: how the lexer classifies them and   *)
(* what the parser makes of them.                                            *)
(***************************************************************************)
EXTENDS Sequences, Integers

CONSTANTS
    Method,           \* words that are HTTP methods
    Path,             \* words that begin with a slash
    Bracketed,        \* words that begin with [
    Letters,          \* words that begin with a letter
    TypeWord          \* words that look like a type reference

Typed(kind, words) == [i \in DOMAIN words |-> [kind |-> kind, text |-> words[i]]]
Whole(kind, words) == IF words = <<>> THEN <<>> ELSE <<[kind |-> kind, text |-> words]>>
From(n, words) == SubSeq(words, n, Len(words))

\* METHOD /path [tags] id: each of the first two is recognised in its place only.
OperationTokens(words) ==
    LET m == IF words # <<>> /\ words[1] \in Method THEN 1 ELSE 0
        p == IF Len(words) > m /\ words[m + 1] \in Path THEN m + 1 ELSE m
    IN  [i \in DOMAIN words |->
            [kind |-> IF i = m THEN "method" ELSE IF i = p THEN "path" ELSE "ident",
             text |-> words[i]]]

\* * or /path in the first place, names of operations or of parameters after.
ParametersTokens(words) ==
    [i \in DOMAIN words |->
        [kind |-> IF i = 1 /\ words[1] = "*" THEN "wildcard"
                  ELSE IF i = 1 /\ words[1] \in Path THEN "path" ELSE "ident",
         text |-> words[i]]]

\* A name, values in brackets or separated by commas, or a name and values.
EnumTokens(words) ==
    LET values(from) == [kind |-> IF words[from] \in Bracketed THEN "json" ELSE "list",
                         text |-> From(from, words)]
    IN  IF words = <<>> THEN <<>>
        ELSE IF words[1] \notin Letters THEN <<values(1)>>
        ELSE <<[kind |-> "ident", text |-> words[1]]>>
             \o (IF Len(words) = 1 THEN <<>> ELSE <<values(2)>>)

ArgTokens(annotation, words) ==
    CASE annotation \in {"route", "operation"} -> OperationTokens(words)
      [] annotation = "parameters" -> ParametersTokens(words)
      [] annotation = "enum" -> EnumTokens(words)
      [] annotation \in {"type", "additionalProperties"} ->
            Whole(IF Len(words) = 1 /\ words[1] \in TypeWord THEN "type" ELSE "ident", words)
      [] annotation \in {"default", "omit", "patternProperties", "title", "description"} ->
            Whole("raw", words)
      [] annotation \in {"allOf", "model", "strfmt", "name", "response"} ->
            IF words = <<>> THEN <<>>
            ELSE <<[kind |-> IF annotation = "response" /\ words[1] = "*" THEN "wildcard"
                             ELSE "ident",
                    text |-> words[1]]>>
      [] OTHER -> Typed("ident", words)

Texts(tokens) == [i \in DOMAIN tokens |-> tokens[i].text]

\* parseOperationArgs: what is left when method and path are taken is tags and
\* the identifier of the operation; a path that is not in its place is neither.
OperationArgs(tokens) ==
    LET method == IF tokens # <<>> /\ tokens[1].kind = "method" THEN <<tokens[1].text>> ELSE <<>>
        m      == Len(method)
        path   == IF Len(tokens) > m /\ tokens[m + 1].kind = "path"
                  THEN <<tokens[m + 1].text>> ELSE <<>>
        rest   == From(m + Len(path) + 1, tokens)
    IN  [method |-> method, path |-> path,
         tags |-> IF rest = <<>> THEN <<>> ELSE Texts(SubSeq(rest, 1, Len(rest) - 1)),
         id |-> IF rest = <<>> THEN <<>> ELSE <<rest[Len(rest)].text>>,
         errors |-> (IF method = <<>> THEN {"method"} ELSE {})
                    \union (IF path = <<>> THEN {"path"} ELSE {})
                    \union (IF rest = <<>> THEN {"id"} ELSE {})]

\* parseParametersArgs: every name once, the repeated ones apart.
ParametersArgs(tokens) ==
    LET target == IF tokens = <<>> THEN "operations"
                  ELSE CASE tokens[1].kind = "wildcard" -> "shared"
                         [] tokens[1].kind = "path" -> "path"
                         [] OTHER -> "operations"
        names  == Texts(From(IF target = "operations" THEN 1 ELSE 2, tokens))
        first  == {i \in DOMAIN names : \A j \in 1 .. i - 1 : names[j] # names[i]}
    IN  [target |-> target, args |-> {names[i] : i \in first},
         dups |-> {names[i] : i \in DOMAIN names \ first},
         errors |-> IF tokens = <<>> THEN {"target"} ELSE {}]

\* What the parser reports of the arguments of an annotation.
ArgumentErrors(annotation, tokens) ==
    CASE annotation \in {"route", "operation"} -> OperationArgs(tokens).errors
      [] annotation = "parameters" -> ParametersArgs(tokens).errors
      [] annotation \in {"name", "strfmt"} -> IF tokens = <<>> THEN {"name"} ELSE {}
      [] annotation = "type" -> IF tokens = <<>> \/ tokens[1].kind # "type" THEN {"type"} ELSE {}
      [] OTHER -> {}
================================================================================
