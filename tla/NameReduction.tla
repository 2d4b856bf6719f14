---------------------------- MODULE NameReduction ----------------------------
(***************************************************************************)
(* The last stage of Builder.Build: reduceDefinitionNames shortens the      *)
(* package-qualified keys of the definitions map to user-facing names.      *)
(*                                                                          *)
(* A key, a JSON name and the place of a nested definition are all          *)
(* sequences of path segments: <<"a", "b", "Pet">> is the key a/b/Pet,      *)
(* <<"Pet">> the bare name Pet.  What ToGoName makes of some segments, and   *)
(* whether the result reads well, are data: constant operators.             *)
(*                                                                          *)
(* computeNameReductions walks the colliding leaves in sorted order, so its *)
(* steps are deterministic.  rekeyDefinitions and placeHierarchical walk    *)
(* the Go map of renames: they take its entries in any order.               *)
(***************************************************************************)
EXTENDS Naturals, Sequences, FiniteSets

CONSTANTS
    Segment,          \* segments of import paths, type names, minted names
    Key,              \* the definition keys an input may hold
    Rank(_),          \* position of a leaf or a key in string order
    GoName(_),        \* NameMangler.ToGoName of the joined segments
    Suffixed(_, _),   \* a name followed by a number
    MaxSuffix,        \* bound on the numbers the last resort tries
    Inputs,           \* the key sets and values of EmitHierarchicalNames considered
    OverBudget(_),    \* concatScore of these segments exceeds the budget
    SkipExtensions    \* Options.SkipExtensions: nothing is stamped

ASSUME NamingAssumption ==
    /\ Key \subseteq Seq(Segment) \ {<<>>}
    /\ Inputs \subseteq [keys : SUBSET Key, hierarchical : BOOLEAN]
    /\ MaxSuffix \in Nat
    /\ SkipExtensions \in BOOLEAN

VARIABLES
    stage,            \* "lifting", "naming", "rekeying", "nesting" or "done"
    hierarchical,     \* Options.EmitHierarchicalNames
    keys,             \* the keys of the definitions map at the start
    renames,          \* the rename map: old key -> new name
    taken,            \* flat names and container roots already given out
    containerRoots,   \* the container roots among them
    open,             \* colliding leaves still to be resolved
    cand,             \* names proposed for the keys of the current group
    todo,             \* renames the current map walk has still to apply
    definitions,      \* name or key -> the key whose schema it holds
    members,          \* path of a nested definition -> the same
    stamps            \* path of a container -> the package in its x-go-package

naming == <<hierarchical, keys, renames, taken, containerRoots, open, cand>>
placing == <<todo, definitions, members, stamps>>
vars == <<stage, naming, placing>>

\* A container schema made for the sake of what is nested in it.
Container == <<>>

Leaf(k) == k[Len(k)]
Group(l) == {k \in keys : Leaf(k) = l}
IsUnique(l) == \A j, k \in Group(l) : j = k
Leaves == {Leaf(k) : k \in keys}

\* The leaf of a key and its d nearest parent segments.
ConcatParts(k, d) == SubSeq(k, IF d < Len(k) THEN Len(k) - d ELSE 1, Len(k))
ConcatName(k, d) == GoName(ConcatParts(k, d))

Extends(p, q) == Len(q) < Len(p) /\ SubSeq(p, 1, Len(q)) = q

-----------------------------------------------------------------------------
Init ==
    /\ \E i \in Inputs : keys = i.keys /\ hierarchical = i.hierarchical
    /\ stage = "lifting"
    /\ renames = <<>>
    /\ taken = {}
    /\ containerRoots = {}
    /\ open = {}
    /\ cand = <<>>
    /\ todo = {}
    /\ definitions = [k \in keys |-> k]
    /\ members = <<>>
    /\ stamps = <<>>

\* Mutant: the bare names are not reserved before the groups are resolved.
LiftUniqueLeavesUnreserved ==
    /\ stage = "lifting"
    /\ LET lifted == {k \in keys : IsUnique(Leaf(k))}
       IN renames' = [k \in {j \in lifted : j # <<Leaf(j)>>} |-> <<Leaf(k)>>]
    /\ open' = {l \in Leaves : ~IsUnique(l)}
    /\ stage' = "naming"
    /\ UNCHANGED <<hierarchical, keys, taken, containerRoots, cand, placing>>

\* Pass 1: a leaf that is globally unique becomes the bare name.
LiftUniqueLeaves ==
    /\ stage = "lifting"
    /\ LET lifted == {k \in keys : IsUnique(Leaf(k))}
       IN /\ taken' = {Leaf(k) : k \in lifted}
          /\ renames' = [k \in {j \in lifted : j # <<Leaf(j)>>} |-> <<Leaf(k)>>]
    /\ open' = {l \in Leaves : ~IsUnique(l)}
    /\ stage' = "naming"
    /\ UNCHANGED <<hierarchical, keys, containerRoots, cand, placing>>

-----------------------------------------------------------------------------
(* Pass 2: resolveCollisionGroup, one group after the other.                *)

Current == CHOOSE l \in open : \A m \in open : Rank(<<l>>) <= Rank(<<m>>)
CurrentGroup == Group(Current)
IsNaming == stage = "naming" /\ open # {} /\ Current \in open

MaxDepth == CHOOSE d \in {Len(k) - 1 : k \in CurrentGroup} :
                \A k \in CurrentGroup : Len(k) - 1 <= d
Depths == 1..MaxDepth

\* A depth at which the concatenated names are distinct and none is taken.
IsClear(d) ==
    /\ \A k \in CurrentGroup : ConcatName(k, d) \notin taken
    /\ \A j, k \in CurrentGroup : ConcatName(j, d) = ConcatName(k, d) => j = k

NameAtDepth ==
    /\ IsNaming
    /\ DOMAIN cand = {}
    /\ \E d \in Depths :
        /\ IsClear(d)
        /\ \A c \in 1..(d - 1) : ~IsClear(c)
        /\ cand' = [k \in CurrentGroup |-> [name |-> ConcatName(k, d),
                                            over |-> OverBudget(ConcatParts(k, d))]]
    /\ UNCHANGED <<stage, hierarchical, keys, renames, taken, containerRoots, open,
                   placing>>

\* The last resort names one key after the other, in key order: the full-path
\* concatenation, with the least number that makes it new.
Unnamed == CurrentGroup \ DOMAIN cand
IsNext(k) == k \in Unnamed /\ \A j \in Unnamed : Rank(k) <= Rank(j)
Numbered(k, i) == IF i = 1 THEN GoName(k) ELSE Suffixed(GoName(k), i)
IsNew(n) == n \notin taken /\ \A k \in DOMAIN cand : cand[k].name # n

MintName(k) ==
    /\ IsNaming
    /\ IsNext(k)
    /\ \A d \in Depths : ~IsClear(d)
    /\ \E i \in 1..MaxSuffix :
        /\ IsNew(Numbered(k, i))
        /\ \A c \in 1..(i - 1) : ~IsNew(Numbered(k, c))
        /\ cand' = [j \in DOMAIN cand \union {k} |->
                      IF j = k THEN [name |-> Numbered(k, i), over |-> OverBudget(k)]
                      ELSE cand[j]]
    /\ UNCHANGED <<stage, hierarchical, keys, renames, taken, containerRoots, open,
                   placing>>

IsOverBudget == \E k \in DOMAIN cand : cand[k].over
IsNamed == IsNaming /\ DOMAIN cand = CurrentGroup

WithRenames(f) == [k \in DOMAIN renames \union DOMAIN f |->
                      IF k \in DOMAIN f THEN f[k] ELSE renames[k]]

CommitFlat ==
    /\ IsNamed
    /\ ~(hierarchical /\ IsOverBudget)
    /\ renames' = WithRenames([k \in CurrentGroup |-> <<cand[k].name>>])
    /\ taken' = taken \union {cand[k].name : k \in CurrentGroup}
    /\ open' = open \ {Current}
    /\ cand' = <<>>
    /\ UNCHANGED <<stage, hierarchical, keys, containerRoots, placing>>

\* resolveHierarchicalGroup: the shallowest depth at which the paths are
\* distinct and no root shadows a flat name; else the full key.
IsClearPath(d) ==
    /\ \A k \in CurrentGroup :
          ConcatParts(k, d)[1] \in taken => ConcatParts(k, d)[1] \in containerRoots
    /\ \A j, k \in CurrentGroup : ConcatParts(j, d) = ConcatParts(k, d) => j = k

IsPathDepth(d) ==
    \/ d \in Depths /\ IsClearPath(d) /\ \A c \in 1..(d - 1) : ~IsClearPath(c)
    \/ d = 0 /\ \A c \in Depths : ~IsClearPath(c)

CommitNested ==
    /\ IsNamed
    /\ hierarchical /\ IsOverBudget
    /\ \E d \in Depths \union {0} :
        /\ IsPathDepth(d)
        /\ LET path == [k \in CurrentGroup |-> IF d = 0 THEN k ELSE ConcatParts(k, d)]
               newRoots == {path[k][1] : k \in CurrentGroup}
           IN /\ renames' = WithRenames(path)
              /\ taken' = taken \union newRoots
              /\ containerRoots' = containerRoots \union newRoots
    /\ open' = open \ {Current}
    /\ cand' = <<>>
    /\ UNCHANGED <<stage, hierarchical, keys, placing>>

\* Every group is named.  With no rename at all the stage is over; otherwise
\* rewriteAllRefs points every $ref at its new name and the keys are moved.
EndNaming ==
    /\ stage = "naming"
    /\ open = {}
    /\ stage' = IF DOMAIN renames = {} THEN "done" ELSE "rekeying"
    /\ todo' = DOMAIN renames
    /\ UNCHANGED <<naming, definitions, members, stamps>>

-----------------------------------------------------------------------------
(* The two walks over the rename map.                                       *)

IsFlat(k) == Len(renames[k]) = 1

\* Mutant: the definition is copied and its old key is kept.
RekeyCopying(k) ==
    /\ stage = "rekeying"
    /\ k \in todo
    /\ IsFlat(k) /\ k \in DOMAIN definitions /\ renames[k] \notin DOMAIN definitions
    /\ definitions' = [n \in DOMAIN definitions \union {renames[k]} |->
                          IF n = renames[k] THEN definitions[k] ELSE definitions[n]]
    /\ todo' = todo \ {k}
    /\ UNCHANGED <<stage, naming, members, stamps>>

\* rekeyDefinitions: a nested name is left alone, and so is a definition
\* whose new name is in use at that moment.
Rekey(k) ==
    /\ stage = "rekeying"
    /\ k \in todo
    /\ IsFlat(k) /\ k \in DOMAIN definitions /\ renames[k] \notin DOMAIN definitions
    /\ definitions' = [n \in (DOMAIN definitions \ {k}) \union {renames[k]} |->
                          IF n = renames[k] THEN definitions[k] ELSE definitions[n]]
    /\ todo' = todo \ {k}
    /\ UNCHANGED <<stage, naming, members, stamps>>

SkipRekey(k) ==
    /\ stage = "rekeying"
    /\ k \in todo
    /\ IsFlat(k) /\ k \in DOMAIN definitions => renames[k] \in DOMAIN definitions
    /\ todo' = todo \ {k}
    /\ UNCHANGED <<stage, naming, definitions, members, stamps>>

EndRekeying ==
    /\ stage = "rekeying"
    /\ todo = {}
    /\ stage' = "nesting"
    /\ todo' = {k \in DOMAIN renames : ~IsFlat(k)}
    /\ UNCHANGED <<naming, definitions, members, stamps>>

\* placeNested: missing containers on the way are created, existing ones are
\* kept; the schema replaces whatever stood at the end of the path.
Containers(p) == {SubSeq(p, 1, i) : i \in 2..(Len(p) - 1)}

\* stampGoPackage: the innermost container is stamped with the package of the
\* definition placed in it, over the stamp it may have.
Innermost(p) == SubSeq(p, 1, Len(p) - 1)
Package(k) == IF Len(k) = 1 THEN k ELSE SubSeq(k, 1, Len(k) - 1)
Stamped(old, k) ==
    LET path == renames[k]
        kept == {p \in DOMAIN old : p # path /\ ~Extends(p, path)}
        new  == IF SkipExtensions THEN {} ELSE {Innermost(path)}
    IN [p \in kept \union new |-> IF p \in new THEN Package(k) ELSE old[p]]

\* Mutant: a container that exists already is made anew.
PlaceNestedAnew(k) ==
    LET path == renames[k]
        kept == {q \in DOMAIN members : q[1] # path[1]}
        top  == DOMAIN definitions \union {<<path[1]>>}
    IN /\ members' = [q \in kept \union Containers(path) \union {path} |->
                         IF q = path THEN definitions[k]
                         ELSE IF q \in kept THEN members[q] ELSE Container]
       /\ definitions' = [n \in top \ {k} |->
                             IF n \in DOMAIN definitions THEN definitions[n] ELSE Container]
       /\ stamps' = Stamped(stamps, k)

PlaceNested(k) ==
    LET path == renames[k]
        kept == {q \in DOMAIN members : ~Extends(q, path)}
        top  == DOMAIN definitions \union {<<path[1]>>}
    IN /\ members' = [q \in kept \union Containers(path) \union {path} |->
                         IF q = path THEN definitions[k]
                         ELSE IF q \in DOMAIN members THEN members[q] ELSE Container]
       /\ definitions' = [n \in top \ {k} |->
                             IF n \in DOMAIN definitions THEN definitions[n] ELSE Container]
       /\ stamps' = Stamped(stamps, k)

Nest(k) ==
    /\ stage = "nesting"
    /\ k \in todo
    /\ k \in DOMAIN definitions
    /\ PlaceNested(k)
    /\ todo' = todo \ {k}
    /\ UNCHANGED <<stage, naming>>

EndNesting ==
    /\ stage = "nesting"
    /\ todo = {}
    /\ stage' = "done"
    /\ UNCHANGED <<naming, placing>>

Done == stage = "done" /\ UNCHANGED vars

Step ==
    \/ LiftUniqueLeaves
    \/ NameAtDepth \/ CommitFlat \/ CommitNested \/ EndNaming
    \/ \E k \in keys : MintName(k) \/ Rekey(k) \/ SkipRekey(k) \/ Nest(k)
    \/ EndRekeying \/ EndNesting

Next == Step \/ Done

Spec == Init /\ [][Next]_vars
-----------------------------------------------------------------------------
(* Properties.                                                              *)

Name == Seq(Segment) \ {<<>>}

TypeOK ==
    /\ stage \in {"lifting", "naming", "rekeying", "nesting", "done"}
    /\ keys \subseteq Key /\ hierarchical \in BOOLEAN
    /\ DOMAIN renames \subseteq keys /\ \A k \in DOMAIN renames : renames[k] \in Name
    /\ taken \subseteq Segment /\ containerRoots \subseteq taken
    /\ open \subseteq Leaves
    /\ DOMAIN cand \subseteq keys /\ \A k \in DOMAIN cand : cand[k].name \in Segment
    /\ todo \subseteq keys
    /\ DOMAIN definitions \subseteq Name /\ DOMAIN members \subseteq Name
    /\ \A n \in DOMAIN definitions : definitions[n] \in keys \union {Container}
    /\ \A p \in DOMAIN members : members[p] \in keys \union {Container}
    /\ DOMAIN stamps \subseteq Name
    /\ \A p \in DOMAIN stamps : \E k \in keys : stamps[p] = Package(k)

IsSettled == stage \notin {"lifting", "naming"}
NewName(k) == IF k \in DOMAIN renames THEN renames[k] ELSE k

\* No bare key of the caller's specification has the leaf of another key.
NoBareCollision == \A k \in keys : Len(k) = 1 => IsUnique(Leaf(k))

\* Distinct types get distinct names: whatever the two passes reserve, mint or
\* nest, no two definitions are given one name, so no two schemas merge.
NamesAreDistinct ==
    IsSettled => \A j, k \in keys : NewName(j) = NewName(k) => j = k

\* The schema a $ref to the definition k leads to, once it is rewritten.
IsNested(k) == k \in DOMAIN renames /\ Len(renames[k]) > 1
Resolves(k) ==
    IF IsNested(k)
    THEN NewName(k) \in DOMAIN members /\ members[NewName(k)] = k
    ELSE NewName(k) \in DOMAIN definitions /\ definitions[NewName(k)] = k

\* Every $ref follows its definition: the two walks over the rename map agree
\* with the rewriting of the references that came before them.
RefsFollow == stage = "done" => \A k \in keys : Resolves(k)

\* The definitions whose innermost container is p.
Within(p) == {k \in keys : IsNested(k) /\ Innermost(NewName(k)) = p}

\* The document is a function of the key set, whatever the order of the walks,
\* but for one stamp: it holds the renamed definitions, the containers above them
\* and no more, and a container is only that: nothing is nested in the schema of a
\* model.  Each innermost container is stamped with the package of a definition in
\* it, and where several packages share it, with that of the definition which
\* placeHierarchical placed last, so the order of the walk does show there.
ResultIsPure ==
    stage = "done" =>
        /\ DOMAIN definitions = {NewName(k) : k \in {j \in keys : ~IsNested(j)}}
              \union {<<NewName(k)[1]>> : k \in {j \in keys : IsNested(j)}}
        /\ DOMAIN members = UNION {Containers(NewName(k)) \union {NewName(k)} :
                                      k \in {j \in keys : IsNested(j)}}
        /\ \A n \in DOMAIN definitions : definitions[n] # Container =>
              NewName(definitions[n]) = n
        /\ \A k \in keys : IsNested(k) =>
              /\ definitions[<<NewName(k)[1]>>] = Container
              /\ \A p \in Containers(NewName(k)) : members[p] = Container
        /\ DOMAIN stamps = (IF SkipExtensions THEN {}
                            ELSE {Innermost(NewName(k)) : k \in {j \in keys : IsNested(j)}})
        /\ \A p \in DOMAIN stamps : stamps[p] \in {Package(k) : k \in Within(p)}

=============================================================================
