------------------------------ MODULE Discovery ------------------------------
(***************************************************************************)
(* Model discovery: the build loops of spec.Builder that decide which Go    *)
(* type declarations become entries of the "definitions" section.           *)
(*                                                                          *)
(* The loops feed one another through three side channels.  A schema build  *)
(*   - writes definitions[DefKey],                                          *)
(*   - queues every declaration it $refs in s.discovered (MakeRef),         *)
(*   - registers every declaration it embeds in ctx.ExtraModels             *)
(*     (AddDiscoveredModel).                                                *)
(* Models and ExtraModels are Go maps, so the order of each loop over them  *)
(* is arbitrary; so is the order of s.discovered, which those loops fill.   *)
(*                                                                          *)
(* What a declaration refers to is data and is given by the constants; the  *)
(* control of the loops is modelled action by action.                       *)
(***************************************************************************)
EXTENDS Naturals, Sequences

CONSTANTS
    Decl,           \* type declarations of the loaded packages
    ParamDecl,      \* swagger:parameters declarations
    RespOrder,      \* swagger:response declarations, in their sorted order
    RespName,       \* the response name each of them registers
    Key,            \* keys of the definitions map
    DefKey,         \* EntityDecl.DefKey of every declaration
    Annotated,      \* declarations carrying swagger:model: ctx.Models
    Alias,          \* alias declarations that keep a definition of their own
    Refs,           \* declarations a node's rendered schemas $ref
    Embeds,         \* declarations whose members a node promotes
    Bases,          \* the swagger:allOf bases of a declaration
    Discriminated,  \* declarations whose schema declares a discriminator
    Overlay,        \* definition keys supplied by Options.InputSpec
    Inputs          \* Options.ScanModels, the nodes whose build panics and the
                    \* nodes whose build returns an error, in every combination
                    \* that is considered

RespDecl == {RespOrder[i] : i \in 1..Len(RespOrder)}

\* Everything a builder renders: definitions, parameter sets and responses.
Node == Decl \union ParamDecl \union RespDecl

ASSUME InputAssumption ==
    /\ RespOrder \in Seq(RespDecl)
    /\ \A i, j \in 1..Len(RespOrder) : RespOrder[i] = RespOrder[j] => i = j
    /\ DefKey \in [Decl -> Key]
    /\ Overlay \subseteq Key
    /\ Annotated \subseteq Decl
    /\ Alias \subseteq Decl
    /\ Discriminated \subseteq Decl
    /\ Refs \in [Node -> SUBSET Decl]
    /\ Embeds \in [Node -> SUBSET Decl]
    /\ Bases \in [Decl -> SUBSET Decl]
    /\ Inputs \subseteq [scanModels : BOOLEAN, panics : SUBSET Node, errs : SUBSET Node]
    /\ Decl \intersect (ParamDecl \union RespDecl) = {}
    /\ ParamDecl \intersect RespDecl = {}

VARIABLES
    input,          \* what Build was called with, one of Inputs
    phase,          \* the build loop Builder.Build is in
    todo,           \* what the current loop still has to build
    models,         \* ctx.Models
    extraModels,    \* ctx.ExtraModels
    discovered,     \* s.discovered
    definitions,    \* the keys of s.definitions
    nextResp,       \* index of the next response declaration
    scanned,        \* response names registered by a scanned declaration
    builds,         \* how many times each node was built
    outcome         \* how Build ended

vars == <<input, phase, todo, models, extraModels, discovered, definitions,
          nextResp, scanned, builds, outcome>>

ScanModels == input.scanModels

Phases == {"models", "extras", "parameters", "responses", "discovered", "done"}
Outcomes == {"running", "complete", "error", "located panic", "backstop panic"}

Built == {n \in Node : builds[n] > 0}

TypeOK ==
    /\ input \in Inputs
    /\ phase \in Phases
    /\ todo \in SUBSET (Decl \union ParamDecl)
    /\ models \in SUBSET Decl
    /\ extraModels \in SUBSET Decl
    /\ discovered \in SUBSET Decl
    /\ definitions \in SUBSET Key
    /\ nextResp \in 1..(Len(RespOrder) + 1)
    /\ scanned \subseteq {RespName[r] : r \in RespDecl}
    /\ builds \in [Node -> Nat]
    /\ outcome \in Outcomes

-----------------------------------------------------------------------------
(* The effects of building one node.                                        *)

\* MakeRef queues the target of every $ref.  An alias declaration queues and
\* registers itself (buildDeclAlias).
Discovers(n) == Refs[n] \union ({n} \intersect Alias)
Registers(n) == Embeds[n] \union ({n} \intersect Alias)

\* Mutant: registers a declaration that is already a model.
AddDiscoveredModelsUnfiltered(ds) == extraModels' = extraModels \union ds

\* AddDiscoveredModel: a no-op for a declaration that is already a model.
AddDiscoveredModels(ds) == extraModels' = extraModels \union (ds \ models)

\* The definition stored under d's key declares a discriminator once a
\* declaration that declares one was built into it.
IsDiscriminated(d) ==
    \E e \in Discriminated : DefKey[e] = DefKey[d] /\ (e = d \/ builds[e] > 0)

\* The reverse swagger:allOf index, then the pull of the subtypes that have
\* no definition yet; under ScanModels every annotated model is built anyway.
Subtypes(d) == {s \in models : d \in Bases[s]}

\* Mutant: the guard on ScanModels is the wrong way round.
DiscriminatedSubtypesInverted(d) ==
    IF ~ScanModels \/ ~IsDiscriminated(d) THEN {}
    ELSE {s \in Subtypes(d) : DefKey[s] \notin definitions \union {DefKey[d]}}

DiscriminatedSubtypes(d) ==
    IF ScanModels \/ ~IsDiscriminated(d) THEN {}
    ELSE {s \in Subtypes(d) : DefKey[s] \notin definitions \union {DefKey[d]}}

\* buildDiscoveredSchema: the schema build and the discoveries it hands back.
BuildSchema(d) ==
    /\ definitions' = definitions \union {DefKey[d]}
    /\ builds' = [builds EXCEPT ![d] = @ + 1]
    /\ AddDiscoveredModels(Registers(d))
    /\ discovered' = discovered \union Discovers(d)
                                \union DiscriminatedSubtypes(d)

\* A parameter set or a response renders schemas, and writes no definition.
BuildSection(n) ==
    /\ builds' = [builds EXCEPT ![n] = @ + 1]
    /\ AddDiscoveredModels(Registers(n))
    /\ discovered' = discovered \union Discovers(n)
    /\ UNCHANGED definitions

Sound(n) == n \notin input.panics \union input.errs

-----------------------------------------------------------------------------

Init ==
    /\ input \in Inputs
    /\ phase = IF ScanModels THEN "models" ELSE "parameters"
    /\ todo = IF ScanModels THEN Annotated ELSE ParamDecl
    /\ models = Annotated
    /\ extraModels = {}
    /\ discovered = {}
    /\ definitions = Overlay
    /\ nextResp = 1
    /\ scanned = {}
    /\ builds = [n \in Node |-> 0]
    /\ outcome = "running"

\* buildModels: one step of the loop over the annotated models.
BuildModel(d) ==
    /\ phase = "models"
    /\ d \in todo
    /\ Sound(d)
    /\ BuildSchema(d)
    /\ todo' = todo \ {d}
    /\ UNCHANGED <<input, phase, models, nextResp, scanned, outcome>>

EndModels ==
    /\ phase = "models"
    /\ todo = {}
    /\ phase' = "extras"
    /\ UNCHANGED <<input, todo, models, extraModels, discovered, definitions,
                   nextResp, scanned, builds, outcome>>

\* joinExtraModels: snapshot the registered declarations, moving each of them
\* from ExtraModels to Models, before any of them is built.
TakeExtraModels ==
    /\ phase = "extras"
    /\ todo = {}
    /\ extraModels # {}
    /\ todo' = extraModels
    /\ models' = models \union extraModels
    /\ extraModels' = {}
    /\ UNCHANGED <<input, phase, discovered, definitions, nextResp, scanned, builds,
                   outcome>>

BuildExtraModel(d) ==
    /\ phase = "extras"
    /\ d \in todo
    /\ Sound(d)
    /\ BuildSchema(d)
    /\ todo' = todo \ {d}
    /\ UNCHANGED <<input, phase, models, nextResp, scanned, outcome>>

EndExtraModels ==
    /\ phase = "extras"
    /\ todo = {}
    /\ extraModels = {}
    /\ phase' = "parameters"
    /\ todo' = ParamDecl
    /\ UNCHANGED <<input, models, extraModels, discovered, definitions, nextResp,
                   scanned, builds, outcome>>

\* buildParameters: the package walk that lists the declarations follows Go
\* maps of imports, so their order is arbitrary.
BuildParameters(p) ==
    /\ phase = "parameters"
    /\ p \in todo
    /\ Sound(p)
    /\ BuildSection(p)
    /\ todo' = todo \ {p}
    /\ UNCHANGED <<input, phase, models, nextResp, scanned, outcome>>

EndParameters ==
    /\ phase = "parameters"
    /\ todo = {}
    /\ phase' = "responses"
    /\ UNCHANGED <<input, todo, models, extraModels, discovered, definitions,
                   nextResp, scanned, builds, outcome>>

\* buildResponses: the declarations are sorted, the first of a name is kept
\* and a later one is dropped before it is built.
CurrentResp == RespOrder[nextResp]

BuildResponse ==
    /\ phase = "responses"
    /\ nextResp <= Len(RespOrder)
    /\ RespName[CurrentResp] \notin scanned
    /\ Sound(CurrentResp)
    /\ BuildSection(CurrentResp)
    /\ scanned' = scanned \union {RespName[CurrentResp]}
    /\ nextResp' = nextResp + 1
    /\ UNCHANGED <<input, phase, todo, models, outcome>>

DropResponse ==
    /\ phase = "responses"
    /\ nextResp <= Len(RespOrder)
    /\ RespName[CurrentResp] \in scanned
    /\ nextResp' = nextResp + 1
    /\ UNCHANGED <<input, phase, todo, models, extraModels, discovered, definitions,
                   scanned, builds, outcome>>

EndResponses ==
    /\ phase = "responses"
    /\ nextResp > Len(RespOrder)
    /\ phase' = "discovered"
    /\ UNCHANGED <<input, todo, models, extraModels, discovered, definitions,
                   nextResp, scanned, builds, outcome>>

\* One pass of buildDiscovered: of the discovered declarations whose key has
\* no definition, queue the first of each key and forget the others.
Undefined == {d \in discovered : DefKey[d] \notin definitions}

IsQueue(q) ==
    /\ \A d \in Undefined : \E e \in q : DefKey[e] = DefKey[d]
    /\ \A d, e \in q : DefKey[d] = DefKey[e] => d = e

StartPass ==
    /\ phase = "discovered"
    /\ todo = {}
    /\ discovered # {}
    /\ \E q \in SUBSET Undefined : IsQueue(q) /\ todo' = q
    /\ discovered' = {}
    /\ UNCHANGED <<input, phase, models, extraModels, definitions, nextResp, scanned,
                   builds, outcome>>

BuildDiscovered(d) ==
    /\ phase = "discovered"
    /\ d \in todo
    /\ Sound(d)
    /\ BuildSchema(d)
    /\ todo' = todo \ {d}
    /\ UNCHANGED <<input, phase, models, nextResp, scanned, outcome>>

\* Mutant: one pass over the discovered declarations.
EndDiscoveredEarly ==
    /\ phase = "discovered"
    /\ todo = {}
    /\ phase' = "done"
    /\ outcome' = "complete"
    /\ UNCHANGED <<input, todo, models, extraModels, discovered, definitions,
                   nextResp, scanned, builds>>

EndDiscovered ==
    /\ phase = "discovered"
    /\ todo = {}
    /\ discovered = {}
    /\ phase' = "done"
    /\ outcome' = "complete"
    /\ UNCHANGED <<input, todo, models, extraModels, discovered, definitions,
                   nextResp, scanned, builds>>

-----------------------------------------------------------------------------
(* A failing build aborts Build.  Every loop runs its step under guard,     *)
(* which turns a panic into a located diagnostic, except joinExtraModels:   *)
(* a panic there unwinds to the backstop in codescan.Run.                   *)

Guarded == phase # "extras"

\* Mutant: a response is built before its name is looked up.
InHandUnchecked ==
    IF phase = "responses"
    THEN {r \in RespDecl : nextResp <= Len(RespOrder) /\ r = CurrentResp}
    ELSE todo

InHand ==
    IF phase = "responses"
    THEN {r \in RespDecl : /\ nextResp <= Len(RespOrder)
                           /\ r = CurrentResp
                           /\ RespName[r] \notin scanned}
    ELSE todo

PanicOutcome == IF Guarded THEN "located panic" ELSE "backstop panic"

Fail(n) ==
    /\ n \in InHand
    /\ ~Sound(n)
    /\ phase' = "done"
    /\ outcome' = IF n \in input.panics THEN PanicOutcome ELSE "error"
    /\ UNCHANGED <<input, todo, models, extraModels, discovered, definitions,
                   nextResp, scanned, builds>>

\* Build has returned.
Terminated == phase = "done" /\ UNCHANGED vars

Next ==
    \/ \E d \in Decl : BuildModel(d) \/ BuildExtraModel(d) \/ BuildDiscovered(d)
    \/ \E p \in ParamDecl : BuildParameters(p)
    \/ EndModels \/ TakeExtraModels \/ EndExtraModels
    \/ EndParameters
    \/ BuildResponse \/ DropResponse \/ EndResponses
    \/ StartPass \/ EndDiscovered
    \/ \E n \in Node : phase # "done" /\ Fail(n)
    \/ Terminated

\* Build is sequential code: it keeps running until it returns.
Spec == Init /\ [][Next]_vars /\ WF_vars(Next)
-----------------------------------------------------------------------------
(* Properties.                                                              *)

Complete == outcome = "complete"

Pinned(d) == DefKey[d] \in Overlay

\* When Build completes, every key that a $ref names has a definition, also when two declarations
\* share the key (then the reference leads to the first).
RefKeysAreDefined ==
    Complete => \A n \in Built : \A d \in Refs[n] : DefKey[d] \in definitions

\* No declaration is built twice: schema.Build starts from the definition it
\* finds under its key, so a second build would double its allOf members.
BuiltAtMostOnce == \A n \in Node : builds[n] <= 1

(* What Build promises to emit, from its input alone.                       *)

\* The response declarations that keep-first retains.
KeptResp ==
    {RespOrder[i] : i \in {j \in 1..Len(RespOrder) :
        \A k \in 1..(j - 1) : RespName[RespOrder[k]] # RespName[RespOrder[j]]}}

Sections == ParamDecl \union KeptResp

\* ScanModels emits the annotated models and what they embed, transitively;
\* whatever is emitted is closed under $ref and, without ScanModels, under the
\* annotated subtypes of a discriminated base.
IsEmbedClosed(E) == Annotated \subseteq E /\ \A d \in E : Registers(d) \subseteq E

IsClosed(scan, F) ==
    /\ \A n \in Sections \union F : \A d \in Discovers(n) : d \in F \/ Pinned(d)
    /\ scan => \E E \in SUBSET F : IsEmbedClosed(E)
    /\ ~scan =>
         \A d \in F \intersect Discriminated : \A s \in Annotated :
             d \in Bases[s] => s \in F \/ Pinned(s)

\* The least closed set: what has to be emitted, and no more.
NeededDecls ==
    [scan \in BOOLEAN |->
        LET closed == {F \in SUBSET Decl : IsClosed(scan, F)}
        IN {d \in Decl : \A F \in closed : d \in F}]
Needed == NeededDecls[ScanModels]
Emitted == Built \intersect Decl

\* Whether Build fails does not depend on the order of the loops: it fails
\* exactly when something it needs cannot be built.
OutcomeIsDetermined ==
    phase = "done" => (Complete <=> \A n \in Sections \union Needed : Sound(n))

\* The whole of it as a refinement: Build emits one definition after another,
\* each of them needed, and either aborts or stops exactly when nothing needed
\* is missing (module Emission).
Result == IF phase # "done" THEN "open" ELSE IF Complete THEN "complete" ELSE "aborted"
Promise == INSTANCE Emission WITH Item <- Decl, needed <- Needed, emitted <- Emitted,
                                  result <- Result

\* The loops of Build implement what Emission promises.
KeepsItsPromise == Promise!Spec

=============================================================================
