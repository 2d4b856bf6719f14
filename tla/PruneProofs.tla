------------------------------ MODULE PruneProofs ------------------------------
(***************************************************************************)
(* Theorems about Prune, for every document.                                *)
(***************************************************************************)
EXTENDS Prune, TLAPS

Given == DOMAIN input.definitions
Present == DOMAIN definitions

\* What a definition leads to.
LedTo(k) == Given \intersect (input.definitions[k] \union SubtypeKeys(k))

\* A set that holds what its members lead to.
Holds(S) == \A k \in S : LedTo(k) \subseteq S

\* f is what is left of g.
IsPartOf(f, g) == DOMAIN f \subseteq DOMAIN g /\ \A n \in DOMAIN f : f[n] = g[n]

\* Nothing is rewritten before the end, and nothing dropped before marking ends.
Unwritten ==
    stage # "done" =>
        /\ IsPartOf(definitions, input.definitions)
        /\ IsPartOf(parameters, input.parameters)
        /\ IsPartOf(responses, input.responses)
        /\ operations = input.operations
        /\ stage # "naming" => Present = Given

\* The definitions that marking begins with, given the shared objects left.
Seeds == Given \intersect (RootRefs \union input.supplied.definitions)

\* No smaller set than S holds the seeds.
IsNeeded(S) == \A T \in SUBSET Given : Seeds \subseteq T /\ Holds(T) => S \subseteq T

\* The roots are marked, and what a marked definition leads to is marked unless
\* the definition is still in the queue; nothing is marked without need.
Marking ==
    stage = "marking" =>
        /\ Seeds \subseteq reachable
        /\ \A k \in reachable \ queue : LedTo(k) \subseteq reachable
        /\ IsNeeded(reachable)

\* When names are reduced, what is left holds what its roots lead to, and after
\* pruning nothing else.
Settled ==
    stage = "naming" =>
        /\ Given \intersect RootRefs \subseteq Present
        /\ Holds(Present)
        /\ IsPruned => Seeds \subseteq Present /\ IsNeeded(Present)

PruneInv ==
    /\ TypeOK /\ IsDocument(input) /\ pathItems = input.pathItems
    /\ Unwritten /\ Marking /\ Settled

-----------------------------------------------------------------------------
(* The invariant.                                                           *)

LEMMA RepointedTyped ==
  ASSUME NEW schema \in Schema, Present \subseteq Key
  PROVE  Repointed(schema) \in Schema
  BY PruneAssumption DEF Repointed, NewName, Present, Schema

LEMMA InitInv == Init => PruneInv
  <1> SUFFICES ASSUME Init PROVE PruneInv
    OBVIOUS
  <1>1. IsDocument(input)
    BY PruneAssumption DEF Init
  <1>2. TypeOK
    <2>1. AreSchemas(definitions, Name)
      BY <1>1, PruneAssumption DEF Init, IsDocument, AreSchemas
    <2>2. AreSchemas(parameters, Shared) /\ AreSchemas(responses, Shared)
          /\ operations \in Schema /\ pathItems \in Schema
      BY <1>1 DEF Init, IsDocument
    <2>3. DOMAIN renames = {}
      BY DEF Init
    <2> QED BY <2>1, <2>2, <2>3 DEF Init, TypeOK
  <1> QED BY <1>1, <1>2 DEF Init, PruneInv, Unwritten, IsPartOf, Marking, Settled, Present, Given

LEMMA SkipKeeps == PruneInv /\ Skip => PruneInv'
  <1> SUFFICES ASSUME PruneInv, Skip PROVE PruneInv'
    OBVIOUS
  <1>1. Present' = Given'
    BY DEF Skip, PruneInv, Unwritten, Present, Given
  <1>2. Settled'
    BY <1>1 DEF Skip, Settled, Holds, LedTo, IsPruned
  <1>3. TypeOK' /\ IsDocument(input)' /\ Marking' /\ pathItems' = input'.pathItems
    BY DEF Skip, PruneInv, TypeOK, Marking, IsDocument, AreSchemas, shared, paths
  <1>4. Unwritten'
    BY DEF Skip, PruneInv, Unwritten, IsPartOf, shared, paths
  <1> QED BY <1>2, <1>3, <1>4 DEF PruneInv

LEMMA PruneSharedKeeps == PruneInv /\ PruneUnusedSharedObjects => PruneInv'
  <1> SUFFICES ASSUME PruneInv, PruneUnusedSharedObjects PROVE PruneInv'
    OBVIOUS
  <1>1. /\ IsPartOf(parameters', parameters) /\ IsPartOf(responses', responses)
        /\ AreSchemas(parameters', Shared) /\ AreSchemas(responses', Shared)
    BY DEF PruneUnusedSharedObjects, Restrict, IsPartOf, AreSchemas, PruneInv, TypeOK
  <1>2. stage' \in {"naming", "roots"} /\ (stage' = "naming" => Present = {})
    BY DEF PruneUnusedSharedObjects, Present
  <1>3. Present' = Given' /\ Present = Given /\ Present' = Present
    BY DEF PruneUnusedSharedObjects, PruneInv, Unwritten, Present, Given
  <1>4. TypeOK' /\ IsDocument(input)' /\ Marking' /\ pathItems' = input'.pathItems
    BY <1>1, <1>2
    DEF PruneUnusedSharedObjects, PruneInv, TypeOK, Marking, IsDocument, AreSchemas, paths
  <1>5. Unwritten'
    BY <1>1, <1>3 DEF PruneUnusedSharedObjects, PruneInv, Unwritten, IsPartOf, paths
  <1>6. Settled'
    BY <1>2, <1>3 DEF Settled, Holds, LedTo, IsPruned, IsNeeded, Seeds
  <1> QED BY <1>4, <1>5, <1>6 DEF PruneInv

LEMMA SeedRootsKeeps == PruneInv /\ SeedRoots => PruneInv'
  <1> SUFFICES ASSUME PruneInv, SeedRoots PROVE PruneInv'
    OBVIOUS
  <1>1. Present = Given
    BY DEF SeedRoots, PruneInv, Unwritten
  <1>2. reachable' = Seeds' /\ queue' = reachable' /\ stage' = "marking"
    BY <1>1 DEF SeedRoots, Seeds, RootRefs, Present, Given, shared, paths
  <1>3. reachable' \subseteq Given'
    BY <1>2 DEF Seeds
  <1>4. TypeOK' /\ IsDocument(input)' /\ pathItems' = input'.pathItems
    BY <1>2, <1>3 DEF SeedRoots, PruneInv, TypeOK, IsDocument, AreSchemas, Given, shared, paths
  <1>5. Unwritten'
    BY <1>2 DEF SeedRoots, PruneInv, Unwritten, IsPartOf, Present, Given, shared, paths
  <1>6. Marking' /\ Settled'
    BY <1>2 DEF Marking, Settled, IsNeeded
  <1> QED BY <1>4, <1>5, <1>6 DEF PruneInv

LEMMA MarkKeeps ==
  ASSUME NEW k \in queue, PruneInv, Mark(k)
  PROVE  PruneInv'
  <1>1. stage = "marking" /\ stage' = stage /\ Present = Given
    BY DEF Mark, PruneInv, Unwritten
  <1>2. k \in reachable /\ k \in Given
    BY DEF PruneInv, TypeOK, Given
  <1>3. Followed(k) \intersect Present = LedTo(k)
    BY <1>1, <1>2 DEF Followed, LedTo, PruneInv, Unwritten, IsPartOf, Present
  <1>4. /\ reachable' = reachable \union LedTo(k)
        /\ queue' = (queue \ {k}) \union (LedTo(k) \ reachable)
    BY <1>3 DEF Mark, Present
  <1>5. Seeds' = Seeds /\ Given' = Given /\ \A j : LedTo(j)' = LedTo(j)
    BY DEF Mark, Seeds, RootRefs, Given, LedTo, SubtypeKeys, shared, paths
  <1>6. LedTo(k) \subseteq Given
    BY DEF LedTo
  <1>7. TypeOK' /\ IsDocument(input)' /\ pathItems' = input'.pathItems
    BY <1>4, <1>6 DEF Mark, PruneInv, TypeOK, IsDocument, AreSchemas, Given, shared, paths
  <1>8. Unwritten'
    BY DEF Mark, PruneInv, Unwritten, IsPartOf, Present, Given, shared, paths
  <1>9. Marking'
    <2>1. Seeds \subseteq reachable /\ IsNeeded(reachable)
          /\ \A j \in reachable \ queue : LedTo(j) \subseteq reachable
      BY <1>1 DEF PruneInv, Marking
    <2>2. Seeds' \subseteq reachable'
      BY <2>1, <1>4, <1>5
    <2>3. \A j \in reachable' \ queue' : LedTo(j)' \subseteq reachable'
      BY <2>1, <1>4, <1>5
    <2>4. IsNeeded(reachable)'
      <3> SUFFICES ASSUME NEW T \in SUBSET Given, Seeds \subseteq T, Holds(T)
                   PROVE  reachable' \subseteq T
        BY <1>5 DEF IsNeeded, Holds
      <3>1. reachable \subseteq T
        BY <2>1 DEF IsNeeded
      <3>2. LedTo(k) \subseteq T
        BY <3>1, <1>2 DEF Holds
      <3> QED BY <3>1, <3>2, <1>4
    <2> QED BY <2>2, <2>3, <2>4 DEF Marking
  <1>10. Settled'
    BY <1>1 DEF Settled
  <1> QED BY <1>7, <1>8, <1>9, <1>10 DEF PruneInv

LEMMA DropKeeps == PruneInv /\ DropUnreachable => PruneInv'
  <1> SUFFICES ASSUME PruneInv, DropUnreachable PROVE PruneInv'
    OBVIOUS
  <1>1. Present = Given /\ stage' = "naming" /\ queue = {} /\ reachable \subseteq Given
    BY DEF DropUnreachable, PruneInv, Unwritten, TypeOK, Given
  <1>2. Present' = reachable /\ \A j \in reachable : definitions'[j] = definitions[j]
    BY DEF DropUnreachable, Present, Restrict
  <1>3. Seeds' = Seeds /\ Given' = Given /\ RootRefs' = RootRefs
        /\ \A j : LedTo(j)' = LedTo(j)
    BY DEF DropUnreachable, Seeds, RootRefs, Given, LedTo, SubtypeKeys, shared, paths
  <1>4. Seeds \subseteq reachable /\ IsNeeded(reachable) /\ Holds(reachable)
    BY <1>1 DEF DropUnreachable, PruneInv, Marking, Holds
  <1>5. TypeOK'
    BY <1>1, <1>2 DEF DropUnreachable, PruneInv, TypeOK, AreSchemas, Present, Given, shared, paths
  <1>6. IsDocument(input)' /\ pathItems' = input'.pathItems
    BY DEF DropUnreachable, PruneInv, IsDocument, AreSchemas, paths
  <1>7. Unwritten'
    BY <1>1, <1>2 DEF DropUnreachable, PruneInv, Unwritten, IsPartOf, Present, Given, shared, paths
  <1>8. Settled'
    <2>1. Given \intersect RootRefs \subseteq reachable
      BY <1>4 DEF Seeds
    <2>2. Holds(Present)' /\ IsNeeded(Present)'
      BY <1>2, <1>3, <1>4 DEF Holds, IsNeeded
    <2> QED BY <1>2, <1>3, <1>4, <2>1, <2>2 DEF Settled
  <1>9. Marking'
    BY <1>1 DEF Marking
  <1> QED BY <1>5, <1>6, <1>7, <1>8, <1>9 DEF PruneInv

LEMMA ReduceKeeps == PruneInv /\ ReduceDefinitionNames => PruneInv'
  <1> SUFFICES ASSUME PruneInv, ReduceDefinitionNames PROVE PruneInv'
    OBVIOUS
  <1>1. stage' = "done" /\ stage = "naming"
    BY DEF ReduceDefinitionNames
  <1>2. Present \subseteq Given /\ Given \subseteq Key
    BY <1>1 DEF PruneInv, Unwritten, IsPartOf, Present, Given, IsDocument, AreSchemas
  <1>3. \A schema \in Schema : Repointed(schema) \in Schema
    BY <1>2, RepointedTyped
  <1>4. \A k \in Present : NewName(k) \in Name /\ definitions[k] \in Schema
    BY <1>2, PruneAssumption DEF NewName, PruneInv, TypeOK, AreSchemas, Present
  <1>5. AreSchemas(definitions', Name)
    <2> DEFINE Old(n) == CHOOSE k \in Present : NewName(k) = n
    <2>1. definitions' = [n \in {NewName(k) : k \in Present} |-> Repointed(definitions[Old(n)])]
      BY DEF ReduceDefinitionNames, Present
    <2>2. \A n \in {NewName(k) : k \in Present} : Old(n) \in Present
      OBVIOUS
    <2> HIDE DEF Old
    <2>3. \A n \in {NewName(k) : k \in Present} : Repointed(definitions[Old(n)]) \in Schema
      BY <2>2, <1>3, <1>4
    <2> QED BY <2>1, <2>3, <1>4 DEF AreSchemas
  <1>6. AreSchemas(parameters', Shared) /\ AreSchemas(responses', Shared) /\ operations' \in Schema
    BY <1>3 DEF ReduceDefinitionNames, PruneInv, TypeOK, AreSchemas
  <1>7. DOMAIN renames' \subseteq DOMAIN input'.definitions
    BY <1>2 DEF ReduceDefinitionNames, Present, Given
  <1>8. TypeOK'
    BY <1>1, <1>5, <1>6, <1>7 DEF ReduceDefinitionNames, PruneInv, TypeOK
  <1>9. IsDocument(input)' /\ pathItems' = input'.pathItems
    BY DEF ReduceDefinitionNames, PruneInv, IsDocument, AreSchemas
  <1> QED BY <1>1, <1>8, <1>9 DEF PruneInv, Unwritten, Marking, Settled

LEMMA StutterKeeps == PruneInv /\ UNCHANGED vars => PruneInv'
  <1> SUFFICES ASSUME PruneInv, UNCHANGED vars PROVE PruneInv'
    OBVIOUS
  <1>1. TypeOK' /\ IsDocument(input)' /\ pathItems' = input'.pathItems
    BY DEF vars, shared, paths, PruneInv, TypeOK, IsDocument, AreSchemas
  <1>2. Unwritten'
    BY DEF vars, shared, paths, PruneInv, Unwritten, IsPartOf, Present, Given
  <1>3. Seeds' = Seeds /\ Given' = Given /\ RootRefs' = RootRefs /\ Present' = Present
        /\ \A j : LedTo(j)' = LedTo(j)
    BY DEF vars, shared, paths, Seeds, RootRefs, Given, LedTo, SubtypeKeys, Present
  <1>4. Marking' /\ Settled'
    BY <1>3 DEF vars, PruneInv, Marking, Settled, IsNeeded, Holds, IsPruned
  <1> QED BY <1>1, <1>2, <1>4 DEF PruneInv

LEMMA NextKeeps == PruneInv /\ [Next]_vars => PruneInv'
  BY SkipKeeps, PruneSharedKeeps, SeedRootsKeeps, MarkKeeps, DropKeeps, ReduceKeeps,
     StutterKeeps DEF Next, Done

LEMMA Invariance == Spec => []PruneInv
  BY InitInv, NextKeeps, PTL DEF Spec

\* Type correctness: the document keeps its shape, and only definitions that
\* exist are marked.
THEOREM TypeCorrect == Spec => []TypeOK
  <1>1. PruneInv => TypeOK
    BY DEF PruneInv
  <1> QED BY <1>1, Invariance, PTL

-----------------------------------------------------------------------------
(* Properties of the finished document.                                     *)

\* A property of the finished document is settled by the last step.
LEMMA LastStep ==
  [Next]_vars => stage' # "done" \/ ReduceDefinitionNames \/ UNCHANGED vars
  <1> SUFFICES ASSUME Next PROVE stage' # "done" \/ ReduceDefinitionNames \/ UNCHANGED vars
    OBVIOUS
  <1>1. CASE \E k \in queue : Mark(k)
    BY <1>1 DEF Mark
  <1> QED BY <1>1 DEF Next, Skip, PruneUnusedSharedObjects, SeedRoots, DropUnreachable, Done

\* What the last step starts from.
LEMMA BeforeRenaming ==
  ASSUME PruneInv, ReduceDefinitionNames
  PROVE  /\ Kept' = Present /\ Present \subseteq Given /\ input' = input
         /\ \A k \in Present : renames'[k] = NewName(k)
         /\ IsPartOf(definitions, input.definitions)
         /\ IsPartOf(parameters, input.parameters) /\ DOMAIN parameters' = DOMAIN parameters
         /\ IsPartOf(responses, input.responses) /\ DOMAIN responses' = DOMAIN responses
         /\ operations = input.operations
         /\ Given \intersect RootRefs \subseteq Present /\ Holds(Present)
  <1>1. stage = "naming"
    BY DEF ReduceDefinitionNames
  <1>2. Unwritten /\ Settled
    BY DEF PruneInv
  <1>3. /\ IsPartOf(definitions, input.definitions) /\ IsPartOf(parameters, input.parameters)
        /\ IsPartOf(responses, input.responses) /\ operations = input.operations
    BY <1>1, <1>2 DEF Unwritten
  <1>4. Kept' = Present /\ \A k \in Present : renames'[k] = NewName(k)
    BY DEF ReduceDefinitionNames, Kept, Present
  <1>5. /\ DOMAIN parameters' = DOMAIN parameters /\ DOMAIN responses' = DOMAIN responses
        /\ input' = input
    BY DEF ReduceDefinitionNames
  <1>6. Present \subseteq Given
    BY <1>3 DEF IsPartOf, Present, Given
  <1>7. Given \intersect RootRefs \subseteq Present /\ Holds(Present)
    BY <1>1, <1>2 DEF Settled
  <1> QED BY <1>3, <1>4, <1>5, <1>6, <1>7

\* A discriminated base that is left has every subtype that had a definition:
\* the second rule of marking, beside the references.
THEOREM WholeFamilies == Spec => []FamiliesAreWhole
  <1>1. Init => FamiliesAreWhole
    BY DEF Init, FamiliesAreWhole
  <1>2. PruneInv /\ FamiliesAreWhole /\ [Next]_vars => FamiliesAreWhole'
    <2> SUFFICES ASSUME PruneInv, FamiliesAreWhole, [Next]_vars PROVE FamiliesAreWhole'
      OBVIOUS
    <2>1. CASE ReduceDefinitionNames
      BY <2>1, BeforeRenaming DEF FamiliesAreWhole, Holds, LedTo, SubtypeKeys, Given
    <2>2. CASE UNCHANGED vars
      BY <2>2 DEF vars, FamiliesAreWhole, Kept
    <2> QED BY <2>1, <2>2, LastStep DEF FamiliesAreWhole
  <1> QED BY <1>1, <1>2, Invariance, PTL DEF Spec

\* A model is renamed only for the sake of another that is left: pruning comes
\* before the reduction of names.
THEOREM NeededRenames == Spec => []OnlyNeededRenames
  <1>1. Init => OnlyNeededRenames
    BY DEF Init, OnlyNeededRenames
  <1>2. PruneInv /\ OnlyNeededRenames /\ [Next]_vars => OnlyNeededRenames'
    <2> SUFFICES ASSUME PruneInv, OnlyNeededRenames, [Next]_vars PROVE OnlyNeededRenames'
      OBVIOUS
    <2>1. CASE ReduceDefinitionNames
      BY <2>1, BeforeRenaming DEF OnlyNeededRenames, NewName, Present
    <2>2. CASE UNCHANGED vars
      BY <2>2 DEF vars, OnlyNeededRenames, Kept
    <2> QED BY <2>1, <2>2, LastStep DEF OnlyNeededRenames
  <1> QED BY <1>1, <1>2, Invariance, PTL DEF Spec

\* Every definition that is left is needed: no smaller set is closed under the
\* references, the families and the roots of the finished document.
THEOREM OnlyUsed == Spec => []NothingIsUnused
  <1>1. Init => NothingIsUnused
    BY DEF Init, NothingIsUnused
  <1>2. PruneInv /\ NothingIsUnused /\ [Next]_vars => NothingIsUnused'
    <2> SUFFICES ASSUME PruneInv, NothingIsUnused, [Next]_vars PROVE NothingIsUnused'
      OBVIOUS
    <2>1. CASE ReduceDefinitionNames
      <3>0. input' = input
        BY <2>1, BeforeRenaming
      <3> SUFFICES ASSUME IsPruned, NEW S \in SUBSET Present, Roots' \subseteq S, IsClosed(S)'
                   PROVE  S = Present
        BY <2>1, <3>0, BeforeRenaming DEF NothingIsUnused, IsPruned
      <3>1. Seeds \subseteq Present /\ IsNeeded(Present)
        BY <2>1 DEF ReduceDefinitionNames, PruneInv, Settled
      <3>2. \A schema : (Present \intersect schema) \subseteq (Kept \intersect Meant(schema))'
        BY <2>1, <3>0, BeforeRenaming DEF Meant, Given
      <3>3. Seeds \subseteq S
        <4> SUFFICES ASSUME NEW k \in Seeds PROVE k \in S
          OBVIOUS
        <4>1. k \in Present
          BY <3>1
        <4>2. CASE k \in input.supplied.definitions
          BY <2>1, <3>0, <4>1, <4>2, BeforeRenaming DEF Roots
        <4>3. CASE k \in operations
          BY <2>1, <3>0, <3>2, <4>1, <4>3, BeforeRenaming DEF Roots
        <4>4. ASSUME NEW p \in DOMAIN parameters, k \in parameters[p] PROVE k \in S
          <5>1. k \in input.parameters[p] /\ p \in DOMAIN parameters'
            BY <2>1, <4>4, BeforeRenaming DEF IsPartOf
          <5>2. k \in Kept' /\ k \in Meant(input.parameters[p])'
            BY <3>0, <3>2, <4>1, <5>1
          <5> QED BY <3>0, <5>1, <5>2 DEF Roots
        <4>5. ASSUME NEW r \in DOMAIN responses, k \in responses[r] PROVE k \in S
          <5>1. k \in input.responses[r] /\ r \in DOMAIN responses'
            BY <2>1, <4>5, BeforeRenaming DEF IsPartOf
          <5>2. k \in Kept' /\ k \in Meant(input.responses[r])'
            BY <3>0, <3>2, <4>1, <5>1
          <5> QED BY <3>0, <5>1, <5>2 DEF Roots
        <4> QED BY <4>2, <4>3, <4>4, <4>5 DEF Seeds, RootRefs, Range
      <3>4. Holds(S)
        <4> SUFFICES ASSUME NEW k \in S, NEW j \in LedTo(k) PROVE j \in S
          BY DEF Holds
        <4>1. j \in Present
          BY <2>1, BeforeRenaming DEF Holds
        <4>2. CASE j \in input.definitions[k]
          <5>1. j \in Kept' /\ j \in Meant(input.definitions[k])'
            BY <3>0, <3>2, <4>1, <4>2
          <5> QED BY <3>0, <5>1 DEF IsClosed
        <4>3. CASE j \in SubtypeKeys(k)
          BY <2>1, <3>0, <4>1, <4>3, BeforeRenaming DEF IsClosed, SubtypeKeys
        <4> QED BY <4>2, <4>3 DEF LedTo
      <3>5. S \in SUBSET Given
        BY <2>1, BeforeRenaming
      <3> QED BY <3>1, <3>3, <3>4, <3>5 DEF IsNeeded
    <2>2. CASE UNCHANGED vars
      BY <2>2 DEF vars, shared, paths, NothingIsUnused, IsPruned, Kept, Roots, IsClosed, Meant
    <2> QED BY <2>1, <2>2, LastStep DEF NothingIsUnused
  <1> QED BY <1>1, <1>2, Invariance, PTL DEF Spec

-----------------------------------------------------------------------------
(* References.                                                              *)

\* Documents whose references all say the key of a definition, held where
\* pruning and renaming look for them, and whose keys get distinct names: the
\* first is what discovery leaves (DiscoveryProofs), the last what name
\* reduction makes (NameReductionProofs); the two runs that refute
\* ReferencesLead break the first and the second.
IsPlain ==
    /\ input.pathItems = {} /\ input.operations \subseteq Given
    /\ \A k \in Given : input.definitions[k] \subseteq Given
    /\ \A p \in DOMAIN input.parameters : input.parameters[p] \subseteq Given
    /\ \A r \in DOMAIN input.responses : input.responses[r] \subseteq Given
    /\ \A k \in Given : Leaf(k) \in Given => Leaf(Leaf(k)) = Leaf(k)
    /\ \A j, k \in Given : Long(j) # Leaf(k) /\ (Long(j) = Long(k) => j = k)

\* A key means only the definition it is the key of.
LEMMA KeysMean ==
  ASSUME IsPlain, NEW schema \in SUBSET Given
  PROVE  Meant(schema) \subseteq schema
  <1> SUFFICES ASSUME NEW k \in Given, Leaf(k) \in schema,
                      \A j \in Given : Leaf(j) = Leaf(k) => j = k
               PROVE  k \in schema
    BY DEF Meant, Given
  <1> QED BY DEF IsPlain

LEMMA NewNamesDiffer ==
  ASSUME IsPlain, Present \subseteq Given, NEW j \in Present, NEW k \in Present,
         NewName(j) = NewName(k)
  PROVE  j = k
  <1>1. j \in Given /\ k \in Given
    OBVIOUS
  <1>2. CASE NewName(k) = Leaf(k) /\ NewName(j) = Leaf(j)
    BY <1>1, <1>2 DEF NewName, Present, IsPlain
  <1>3. CASE NewName(k) = Long(k) /\ NewName(j) = Long(j)
    BY <1>1, <1>3 DEF IsPlain
  <1>4. CASE NewName(k) = Leaf(k) /\ NewName(j) = Long(j)
    BY <1>1, <1>4 DEF IsPlain
  <1>5. CASE NewName(k) = Long(k) /\ NewName(j) = Leaf(j)
    BY <1>1, <1>5 DEF IsPlain
  <1> QED BY <1>2, <1>3, <1>4, <1>5 DEF NewName

\* A schema whose definitions are all there is rewritten to their names.
LEMMA RewrittenLeads ==
  ASSUME PruneInv, ReduceDefinitionNames, IsPlain, NEW schema \in SUBSET Given, schema \subseteq Present
  PROVE  \A k \in Meant(schema)' : k \in Kept' /\ renames'[k] \in Repointed(schema)
  <1>1. Meant(schema)' = Meant(schema)
    BY BeforeRenaming DEF Meant
  <1>2. \A k \in schema : k \in Kept' /\ renames'[k] = NewName(k)
    BY BeforeRenaming
  <1>3. \A k \in schema : NewName(k) \in Repointed(schema)
    BY DEF Repointed, Present
  <1> QED BY <1>1, <1>2, <1>3, KeysMean

\* Plain documents lose no reference: what is left refers to what it referred
\* to at the beginning, under its new name.
THEOREM RefsLead == Spec => [](IsPlain => ReferencesLead)
  <1> DEFINE Goal == IsPlain => ReferencesLead
  <1>1. Init => Goal
    BY DEF Init, ReferencesLead
  <1>2. PruneInv /\ Goal /\ [Next]_vars => Goal'
    <2> SUFFICES ASSUME PruneInv, Goal, [Next]_vars, IsPlain' PROVE ReferencesLead'
      OBVIOUS
    <2>1. CASE ReduceDefinitionNames
      <3>1. input' = input /\ Given' = Given /\ IsPlain
        BY <2>1, BeforeRenaming DEF IsPlain, Given
      <3>2. Leads(input.operations, operations)'
        <4>1. operations \in SUBSET Given /\ operations \subseteq Present
          BY <2>1, <3>1, BeforeRenaming DEF IsPlain, RootRefs
        <4>2. operations' = Repointed(operations) /\ input'.operations = operations
          BY <2>1, BeforeRenaming DEF ReduceDefinitionNames
        <4> QED BY <2>1, <3>1, <4>1, <4>2, RewrittenLeads DEF Leads
      <3>3. Leads(input.pathItems, pathItems)'
        BY <3>1, KeysMean DEF Leads, IsPlain, Meant
      <3>4. ASSUME NEW p \in DOMAIN parameters' PROVE Leads(input.parameters[p], parameters[p])'
        <4>1. p \in DOMAIN parameters /\ p \in DOMAIN input.parameters
              /\ input.parameters[p] = parameters[p]
          BY <2>1, <3>4, BeforeRenaming DEF IsPartOf
        <4>2. parameters[p] \in SUBSET Given /\ parameters[p] \subseteq Present
          BY <2>1, <3>1, <4>1, BeforeRenaming DEF IsPlain, RootRefs, Range
        <4>3. parameters'[p] = Repointed(parameters[p])
          BY <2>1, <4>1 DEF ReduceDefinitionNames
        <4> QED BY <2>1, <3>1, <4>1, <4>2, <4>3, RewrittenLeads DEF Leads
      <3>5. ASSUME NEW r \in DOMAIN responses' PROVE Leads(input.responses[r], responses[r])'
        <4>1. r \in DOMAIN responses /\ r \in DOMAIN input.responses
              /\ input.responses[r] = responses[r]
          BY <2>1, <3>5, BeforeRenaming DEF IsPartOf
        <4>2. responses[r] \in SUBSET Given /\ responses[r] \subseteq Present
          BY <2>1, <3>1, <4>1, BeforeRenaming DEF IsPlain, RootRefs, Range
        <4>3. responses'[r] = Repointed(responses[r])
          BY <2>1, <4>1 DEF ReduceDefinitionNames
        <4> QED BY <2>1, <3>1, <4>1, <4>2, <4>3, RewrittenLeads DEF Leads
      <3>6. ASSUME NEW k \in Kept' PROVE Leads(input.definitions[k], definitions[renames[k]])'
        <4> DEFINE Old(n) == CHOOSE j \in Present : NewName(j) = n
        <4>1. k \in Present /\ k \in Given /\ renames'[k] = NewName(k)
              /\ input.definitions[k] = definitions[k]
          BY <2>1, <3>6, BeforeRenaming DEF IsPartOf, Present
        <4>2. definitions[k] \in SUBSET Given /\ definitions[k] \subseteq Present
          BY <2>1, <3>1, <4>1, BeforeRenaming DEF IsPlain, Holds, LedTo
        <4>3. Old(NewName(k)) = k
          <5>1. Old(NewName(k)) \in Present /\ NewName(Old(NewName(k))) = NewName(k)
            BY <4>1
          <5> HIDE DEF Old
          <5> QED BY <2>1, <3>1, <4>1, <5>1, BeforeRenaming, NewNamesDiffer
        <4>4. definitions' = [n \in {NewName(j) : j \in Present} |-> Repointed(definitions[Old(n)])]
          BY <2>1 DEF ReduceDefinitionNames, Present
        <4> HIDE DEF Old
        <4>5. definitions'[renames'[k]] = Repointed(definitions[k])
          BY <4>1, <4>3, <4>4
        <4> QED BY <2>1, <3>1, <4>1, <4>2, <4>5, RewrittenLeads DEF Leads
      <3> QED BY <3>2, <3>3, <3>4, <3>5, <3>6 DEF ReferencesLead
    <2>2. CASE UNCHANGED vars
      <3>1. IsPlain
        BY <2>2 DEF vars, IsPlain, Given
      <3> QED BY <2>2, <3>1 DEF vars, shared, paths, ReferencesLead, Leads, Meant, Kept
    <2> QED BY <2>1, <2>2, LastStep DEF ReferencesLead
  <1> QED BY <1>1, <1>2, Invariance, PTL DEF Spec

-----------------------------------------------------------------------------
(* Both kinds of reference, and both sides of what pruning leaves.          *)

\* A shared object that something refers to is never taken away.
LEMMA SharedStay == Spec => []SharedReferencesLead
  <1> DEFINE Stay ==
        /\ UsedParameters \intersect DOMAIN input.parameters \subseteq DOMAIN parameters
        /\ UsedResponses \intersect DOMAIN input.responses \subseteq DOMAIN responses
  <1>1. Init => Stay
    BY DEF Init
  <1>2. Stay /\ [Next]_vars => Stay'
    <2> SUFFICES ASSUME Stay, [Next]_vars PROVE Stay'
      OBVIOUS
    <2>1. CASE PruneUnusedSharedObjects
      BY <2>1 DEF PruneUnusedSharedObjects, UsedParameters, UsedResponses, Restrict
    <2>2. CASE ReduceDefinitionNames
      BY <2>2 DEF ReduceDefinitionNames, UsedParameters, UsedResponses
    <2>3. CASE UNCHANGED <<input, shared>>
      BY <2>3 DEF shared, UsedParameters, UsedResponses
    <2>4. CASE \E k \in queue : Mark(k)
      BY <2>3, <2>4 DEF Mark
    <2>5. CASE Skip \/ SeedRoots \/ DropUnreachable \/ Done \/ UNCHANGED vars
      BY <2>3, <2>5 DEF Skip, SeedRoots, DropUnreachable, Done, vars
    <2> QED BY <2>1, <2>2, <2>4, <2>5 DEF Next
  <1>3. Stay => SharedReferencesLead
    BY DEF SharedReferencesLead, UsedParameters, UsedResponses
  <1> QED BY <1>1, <1>2, <1>3, PTL DEF Spec

\* The finished document refers to nothing that is gone, whatever is pruned and renamed.
THEOREM NeverDangles == Spec => [](IsPlain => NothingDangles)
  <1>1. (IsPlain => ReferencesLead) /\ SharedReferencesLead => (IsPlain => NothingDangles)
    BY DEF NothingDangles
  <1> QED BY <1>1, RefsLead, SharedStay, PTL

\* What pruning leaves is what its roots need, with whole families and under the shortest names.
THEOREM LeavesTheNeeded == Spec => []OnlyTheNeeded
  <1>1. NothingIsUnused /\ FamiliesAreWhole /\ OnlyNeededRenames => OnlyTheNeeded
    BY DEF OnlyTheNeeded
  <1> QED BY <1>1, OnlyUsed, WholeFamilies, NeededRenames, PTL
=============================================================================
