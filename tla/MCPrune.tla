-------------------------------- MODULE MCPrune --------------------------------
(***************************************************************************)
(* Documents for Prune: two packages that each declare a Pet, a Cat, and a   *)
(* Dog supplied by the caller.                                               *)
(***************************************************************************)
EXTENDS Prune

Defined == {"a/Pet", "b/Pet", "a/Cat", "Dog"}
mcKey == Defined \union {"a/Lost"}
mcLeaf(k) == CASE k \in {"a/Pet", "b/Pet"} -> "Pet" [] k = "a/Cat" -> "Cat"
               [] k = "a/Lost" -> "Lost" [] OTHER -> k
mcLong(k) == CASE k = "a/Pet" -> "APet" [] k = "b/Pet" -> "BPet" [] k = "a/Cat" -> "ACat"
               [] k = "a/Lost" -> "ALost" [] OTHER -> "Dog2"
mcName == mcKey \union {mcLeaf(k) : k \in mcKey} \union {mcLong(k) : k \in mcKey}

\* Every schema refers to at most one definition; rings and loops included.
AtMostOne == {{}} \union {{k} : k \in Defined}
Graphs == [Defined -> AtMostOne]
\* A graph without the second Pet, and a document without any definition.
Lone == Restrict([k \in Defined |-> IF k = "a/Pet" THEN {"a/Cat"} ELSE {}],
                 Defined \ {"b/Pet"})
Bare == <<>>

\* A family: the Cat is a subtype of a's Pet, and of a type with no definition.
Family == [k \in mcKey |-> IF k = "a/Pet" THEN {"a/Cat", "a/Lost"} ELSE {}]

\* Who refers to the shared parameter P and to the shared response R.
None == [operationParameters |-> {}, pathItemParameters |-> {}, operationResponses |-> {}]
Users == {None, [None EXCEPT !.operationParameters = {"P"}],
          [None EXCEPT !.pathItemParameters = {"P"}],
          [None EXCEPT !.operationResponses = {"R"}]}

Doc(graph, roots, inlined, users, bases, prune, p, r, sharedSupplied) ==
    [prune |-> prune, scanModels |-> TRUE, definitions |-> graph,
     bases |-> bases, subtypes |-> Family,
     parameters |-> [n \in {"P"} |-> p], responses |-> [n \in {"R"} |-> r],
     supplied |-> [definitions |-> {"Dog"} \intersect DOMAIN graph,
                   parameters |-> sharedSupplied, responses |-> sharedSupplied],
     operations |-> roots, pathItems |-> inlined, sharedRefs |-> users]

\* Every graph, with one root or none.
Grown == {Doc(g, roots, {}, None, bases, TRUE, {"b/Pet"}, {"a/Cat"}, {}) :
             g \in Graphs, roots \in AtMostOne, bases \in {{}, {"a/Pet"}}}
\* Every user of the shared objects, which InputSpec brought or not.
SharedOnes == {Doc(g, {}, {"Dog"}, u, {"a/Pet"}, TRUE, p, {"a/Cat"}, s) :
             g \in {h \in Graphs : h["a/Cat"] = {} /\ h["Dog"] = {}}, u \in Users,
             p \in AtMostOne, s \in {{}, {"P"}, {"R"}}}
\* Routes that name a model by its short name, nothing pruned.
Unpruned == {Doc(g, roots, {}, None, {}, FALSE, {}, {"b/Pet"}, {}) :
             g \in {Lone, Bare} \union {h \in Graphs : \A k \in Defined : h[k] \in {{}, {k}}},
             roots \in {{}, {"Pet"}, {"Cat", "a/Pet"}}}

\* The option to prune, without ScanModels.
NotScanned == {[d EXCEPT !.scanModels = FALSE] : d \in {e \in SharedOnes : e.parameters["P"] = {}}}

mcInputs == Grown \union SharedOnes \union Unpruned \union NotScanned
=============================================================================
