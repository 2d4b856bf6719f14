--------------------------------- MODULE Prune ---------------------------------
(***************************************************************************)
(* What Builder.Build does to the finished document: pruneUnusedModels       *)
(* drops the shared parameters and responses nothing refers to and then the  *)
(* definitions no root leads to, and reduceDefinitionNames renames what is   *)
(* left and rewrites the references to it.                                   *)
(*                                                                          *)
(* A schema is the set of what its $refs say after #/definitions/: the key   *)
(* of a definition, or, when a route's author wrote a model by its short     *)
(* name, the name the author hopes it gets.  How a name is made out of a key *)
(* is the subject of NameReduction; here a leaf that is unique becomes the   *)
(* name, and another key gets a long name of its own.                        *)
(***************************************************************************)
EXTENDS Functions

CONSTANTS
    Key,              \* keys of definitions
    Name,             \* what a $ref may say: keys and the names made of them
    Leaf(_),          \* the last segment of a key
    Long(_),          \* the name given to a key whose leaf is not unique
    Shared,           \* names of shared parameters and of shared responses
    Inputs            \* the documents considered

Schema == SUBSET Name
AreSchemas(f, S) == DOMAIN f \subseteq S /\ \A n \in DOMAIN f : f[n] \in Schema

\* A document as the build loops leave it, and the options that matter here.
IsDocument(d) ==
    /\ d.prune \in BOOLEAN                         \* Options.PruneUnusedModels
    /\ d.scanModels \in BOOLEAN                    \* Options.ScanModels
    /\ AreSchemas(d.definitions, Key)
    /\ AreSchemas(d.parameters, Shared)            \* shared parameters
    /\ AreSchemas(d.responses, Shared)             \* shared responses
    /\ d.operations \in Schema                     \* parameters and responses of operations
    /\ d.pathItems \in Schema                      \* parameters inlined in path items
    /\ d.bases \in SUBSET Key                      \* definitions with a discriminator
    /\ d.subtypes \in [Key -> SUBSET Key]          \* the reverse swagger:allOf index
    /\ d.sharedRefs \in                            \* who refers to the shared objects
          [operationParameters : SUBSET Shared, pathItemParameters : SUBSET Shared,
           operationResponses : SUBSET Shared]
    /\ d.supplied \in                              \* what InputSpec brought
          [definitions : SUBSET Key, parameters : SUBSET Shared, responses : SUBSET Shared]
                                                   \* (definitions: and no declaration built)

ASSUME PruneAssumption ==
    /\ Key \subseteq Name
    /\ \A k \in Key : Leaf(k) \in Name /\ Long(k) \in Name
    /\ \A i \in Inputs : IsDocument(i)

VARIABLES
    input,            \* the document to begin with
    stage,            \* "shared", "roots", "marking", "naming" or "done"
    definitions,      \* Swagger.Definitions: name -> schema
    parameters,       \* Swagger.Parameters
    responses,        \* Swagger.Responses
    operations,       \* what the $refs in operations say
    pathItems,        \* what the $refs in parameters of path items say
    reachable,        \* definitions marked so far
    queue,            \* marked definitions whose references are still to be followed
    renames           \* final name of every definition that is left

shared == <<parameters, responses>>
paths == <<operations, pathItems>>
vars == <<input, stage, definitions, shared, paths, reachable, queue, renames>>

Init ==
    /\ input \in Inputs
    /\ stage = "shared"
    /\ definitions = input.definitions
    /\ parameters = input.parameters
    /\ responses = input.responses
    /\ operations = input.operations
    /\ pathItems = input.pathItems
    /\ reachable = {}
    /\ queue = {}
    /\ renames = <<>>

-----------------------------------------------------------------------------
(* pruneUnusedModels                                                        *)

\* PruneUnusedModels does nothing without ScanModels.
Skip ==
    /\ stage = "shared"
    /\ ~(input.prune /\ input.scanModels)
    /\ stage' = "naming"
    /\ UNCHANGED <<input, definitions, shared, paths, reachable, queue, renames>>

\* collectSharedRefs
UsedParameters ==
    input.sharedRefs.operationParameters \union input.sharedRefs.pathItemParameters
UsedResponses == input.sharedRefs.operationResponses

\* A shared object stays if InputSpec brought it or something refers to it.
PruneUnusedSharedObjects ==
    /\ stage = "shared"
    /\ input.prune /\ input.scanModels
    /\ parameters' = Restrict(parameters, DOMAIN parameters \intersect
                                 (UsedParameters \union input.supplied.parameters))
    /\ responses' = Restrict(responses, DOMAIN responses \intersect
                                 (UsedResponses \union input.supplied.responses))
    /\ stage' = IF DOMAIN definitions = {} THEN "naming" ELSE "roots"
    /\ UNCHANGED <<input, definitions, paths, reachable, queue, renames>>

\* rootRefs: operations and the shared objects that are left.
\* Mutants: without the shared objects; with those already pruned.
RootRefsOfOperations == operations
RootRefsUnpruned ==
    operations \union (UNION Range(input.parameters)) \union (UNION Range(input.responses))
RootRefs == operations \union (UNION Range(parameters)) \union (UNION Range(responses))

SeedRoots ==
    /\ stage = "roots"
    /\ reachable' = DOMAIN definitions \intersect (RootRefs \union input.supplied.definitions)
    /\ queue' = reachable'
    /\ stage' = "marking"
    /\ UNCHANGED <<input, definitions, shared, paths, renames>>

\* isDiscriminated and subtypeKeysOf
SubtypeKeys(k) == IF k \in input.bases THEN input.subtypes[k] ELSE {}

\* A discriminated base brings the definitions of its subtypes along.
Followed(k) == definitions[k] \union SubtypeKeys(k)

\* One round of the closure.  The queue is filled out of maps: in any order.
Mark(k) ==
    /\ stage = "marking"
    /\ k \in queue
    /\ LET new == (DOMAIN definitions \intersect Followed(k)) \ reachable
       IN /\ reachable' = reachable \union new
          /\ queue' = (queue \ {k}) \union new
    /\ UNCHANGED <<input, stage, definitions, shared, paths, renames>>

DropUnreachable ==
    /\ stage = "marking"
    /\ queue = {}
    /\ definitions' = Restrict(definitions, reachable)
    /\ stage' = "naming"
    /\ UNCHANGED <<input, shared, paths, reachable, queue, renames>>

-----------------------------------------------------------------------------
(* reduceDefinitionNames                                                    *)

NewName(k) ==
    IF \A j \in DOMAIN definitions : Leaf(j) = Leaf(k) => j = k THEN Leaf(k) ELSE Long(k)

\* repointer and rewriteSchemaRefs
Repointed(schema) ==
    {IF n \in DOMAIN definitions THEN NewName(n) ELSE n : n \in schema}

\* rewriteAllRefs visits definitions, shared objects and operations.
ReduceDefinitionNames ==
    /\ stage = "naming"
    /\ renames' = [k \in DOMAIN definitions |-> NewName(k)]
    /\ definitions' = [n \in {NewName(k) : k \in DOMAIN definitions} |->
           Repointed(definitions[CHOOSE k \in DOMAIN definitions : NewName(k) = n])]
    /\ parameters' = [p \in DOMAIN parameters |-> Repointed(parameters[p])]
    /\ responses' = [r \in DOMAIN responses |-> Repointed(responses[r])]
    /\ operations' = Repointed(operations)
    /\ stage' = "done"
    /\ UNCHANGED <<input, pathItems, reachable, queue>>

Done == stage = "done" /\ UNCHANGED vars

Next ==
    \/ Skip
    \/ PruneUnusedSharedObjects
    \/ SeedRoots
    \/ \E k \in queue : Mark(k)
    \/ DropUnreachable
    \/ ReduceDefinitionNames
    \/ Done

Spec == Init /\ [][Next]_vars

-----------------------------------------------------------------------------
(* Properties                                                               *)

TypeOK ==
    /\ stage \in {"shared", "roots", "marking", "naming", "done"}
    /\ AreSchemas(definitions, Name)
    /\ AreSchemas(parameters, Shared) /\ AreSchemas(responses, Shared)
    /\ operations \in Schema /\ pathItems \in Schema
    /\ queue \subseteq reachable /\ reachable \subseteq DOMAIN input.definitions
    /\ DOMAIN renames \subseteq DOMAIN input.definitions

IsPruned == input.prune /\ input.scanModels
Kept == DOMAIN renames

\* The definitions a schema means: those whose key it gives, and those it
\* gives by a short name that no other definition could have.
Meant(schema) ==
    {k \in DOMAIN input.definitions :
        \/ k \in schema
        \/ /\ Leaf(k) \in schema
           /\ \A j \in DOMAIN input.definitions : Leaf(j) = Leaf(k) => j = k}

Leads(schema, final) ==
    \A k \in Meant(schema) : k \in Kept /\ renames[k] \in final

\* Every reference in what is left of the document leads, when all is done, to
\* the definition it meant at the beginning: pruning drops nothing that is
\* referred to and the rewriting reaches every place that holds a reference.
ReferencesLead ==
    stage = "done" =>
        /\ Leads(input.operations, operations)
        /\ Leads(input.pathItems, pathItems)
        /\ \A p \in DOMAIN parameters : Leads(input.parameters[p], parameters[p])
        /\ \A r \in DOMAIN responses : Leads(input.responses[r], responses[r])
        /\ \A k \in Kept : Leads(input.definitions[k], definitions[renames[k]])

\* A reference to a shared object that exists is not left dangling.
SharedReferencesLead ==
    stage = "done" =>
        /\ (input.sharedRefs.operationParameters \union input.sharedRefs.pathItemParameters)
              \intersect DOMAIN input.parameters \subseteq DOMAIN parameters
        /\ input.sharedRefs.operationResponses \intersect DOMAIN input.responses
              \subseteq DOMAIN responses

\* What is left of the document when it is done refers to every definition,
\* step by step from its paths, its shared objects and what InputSpec brought;
\* a base leads to its subtypes.  Nothing else is left.
Roots ==
    Kept \intersect
       (Meant(input.operations) \union input.supplied.definitions
          \union (UNION {Meant(input.parameters[p]) : p \in DOMAIN parameters})
          \union (UNION {Meant(input.responses[r]) : r \in DOMAIN responses}))
IsClosed(S) ==
    \A k \in S : /\ Kept \intersect Meant(input.definitions[k]) \subseteq S
                 /\ k \in input.bases => Kept \intersect input.subtypes[k] \subseteq S
NothingIsUnused ==
    stage = "done" /\ IsPruned =>
        \A S \in SUBSET Kept : Roots \subseteq S /\ IsClosed(S) => S = Kept

\* A family is kept together: a base that is left has all the subtypes that
\* had a definition.
FamiliesAreWhole ==
    stage = "done" => \A k \in Kept \intersect input.bases :
        input.subtypes[k] \intersect DOMAIN input.definitions \subseteq Kept

\* A model that was pruned costs no other model its short name.
OnlyNeededRenames ==
    stage = "done" => \A k \in Kept :
        renames[k] = Leaf(k) \/ \E j \in Kept \ {k} : Leaf(j) = Leaf(k)

\* The finished document refers to nothing that is gone, by whatever kind of reference.
NothingDangles == ReferencesLead /\ SharedReferencesLead

\* What is left is what is needed, with whole families, under the shortest names.
OnlyTheNeeded == NothingIsUnused /\ FamiliesAreWhole /\ OnlyNeededRenames
=============================================================================
