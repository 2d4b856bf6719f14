------------------------------- MODULE Keywords --------------------------------
(***************************************************************************)
(* The keyword table of the comment grammar: for every keyword the form of   *)
(* its value and the places where it may appear.  Aliases and letter case    *)
(* are resolved before: a keyword stands for all its spellings.              *)
(***************************************************************************)

SimpleValidation == {"maximum", "minimum", "multipleOf", "maxLength", "minLength", "pattern",
                     "maxItems", "minItems", "unique", "default", "example", "enum"}
ObjectValidation == {"maxProperties", "minProperties", "patternProperties",
                     "additionalProperties", "readOnly", "discriminator"}
MetaLine  == {"version", "host", "basePath", "license", "contact"}
MetaBlock == {"securityDefinitions", "infoExtensions", "tos"}
EveryOperation == {"schemes", "consumes", "produces", "security", "tags"}
RouteBody == {"responses", "parameters"}

Keyword == SimpleValidation \union ObjectValidation \union MetaLine \union MetaBlock
           \union EveryOperation \union RouteBody
           \union {"collectionFormat", "required", "deprecated", "in", "name", "examples",
                   "extensions", "externalDocs"}

\* Where a keyword may appear.
Contexts == [k \in Keyword |->
    CASE k \in SimpleValidation -> {"param", "header", "schema", "items"}
      [] k \in ObjectValidation -> {"schema"}
      [] k \in MetaLine \union MetaBlock -> {"meta"}
      [] k \in EveryOperation -> {"meta", "route", "operation"}
      [] k \in RouteBody -> {"route", "operation"}
      [] k = "collectionFormat" -> {"param", "header", "items"}
      [] k = "required" -> {"param", "schema"}
      [] k = "deprecated" -> {"operation", "route", "schema"}
      [] k = "in" -> {"param"}
      [] k = "name" -> {"param", "header", "schema"}
      [] k = "examples" -> {"response"}
      [] k = "extensions" -> {"meta", "route", "operation", "schema", "param", "header"}
      [] k = "externalDocs" -> {"meta", "route", "operation", "schema"}]

\* The form of its value: on the line, or a body of the lines that follow.
Shape == [k \in Keyword |->
    CASE k \in {"maximum", "minimum", "multipleOf"} -> "number"
      [] k \in {"maxLength", "minLength", "maxItems", "minItems", "maxProperties",
                "minProperties"} -> "int"
      [] k \in {"unique", "required", "readOnly", "discriminator", "deprecated"} -> "bool"
      [] k \in {"collectionFormat", "in"} -> "option"
      [] k \in {"default", "example", "enum"} -> "rawvalue"
      [] k \in MetaBlock \union EveryOperation \union RouteBody
               \union {"examples", "extensions", "externalDocs"} -> "rawblock"
      [] OTHER -> "string"]

Options == [k \in {"collectionFormat", "in"} |->
    IF k = "in" THEN {"query", "path", "header", "body", "formData"}
    ELSE {"csv", "ssv", "tsv", "pipes", "multi"}]

\* The types a validation suits; the keywords not listed suit every type, and so does no type at all.  (The
\* rule for `unique` goes by another name in the code, and never applies.)
TypeRules ==
    [k \in {"pattern", "minLength", "maxLength", "maximum", "minimum", "multipleOf", "minItems", "maxItems",
            "minProperties", "maxProperties", "patternProperties"} |->
        CASE k \in {"pattern", "minLength", "maxLength"} -> {"string"}
          [] k \in {"maximum", "minimum", "multipleOf"} -> {"integer", "number"}
          [] k \in {"minItems", "maxItems"} -> {"array"}
          [] OTHER -> {"object"}]
IsLegalForType(k, type) == k \in DOMAIN TypeRules /\ type # "" => type \in TypeRules[k]

\* Keywords of one family are siblings: one ends the body of another.
Siblings(k, next) == Contexts[k] \intersect Contexts[next] # {}

\* Keywords whose body is read as YAML, so that indentation tells nesting.
YamlBodied == {"extensions", "infoExtensions", "securityDefinitions", "tags", "security",
               "examples"}

\* The contexts an annotation admits, for the annotations that have a policy.
Policed == {"model", "parameters", "response", "operation", "route", "meta"}
Allowed == [a \in Policed |->
    CASE a = "model" -> {"schema", "items"}
      [] a = "parameters" -> {"param", "schema", "items"}
      [] a = "response" -> {"response", "schema", "header", "items"}
      [] a = "operation" -> {"operation", "param", "schema", "header", "items", "response"}
      [] a = "route" -> {"route", "param", "schema", "header", "items", "response"}
      [] a = "meta" -> {"meta", "schema"}]

ContextLegal(k, annotation) ==
    annotation \in Policed => Contexts[k] \intersect Allowed[annotation] # {}

\* The parser an annotation is given to.
Family == [a \in {"model", "response", "parameters", "name", "title", "description", "route",
                  "operation", "meta", "strfmt", "alias", "allOf", "enum", "ignore", "omit",
                  "default", "type", "file", "additionalProperties", "patternProperties"} |->
    CASE a \in {"model", "response", "parameters", "name", "title", "description"} -> "schema"
      [] a \in {"route", "operation"} -> "operation"
      [] a = "meta" -> "meta"
      [] OTHER -> "classifier"]
FamilyOf(a) == IF a \in DOMAIN Family THEN Family[a] ELSE "unknown"

================================================================================
