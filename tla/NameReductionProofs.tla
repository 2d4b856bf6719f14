------------------------ MODULE NameReductionProofs --------------------------
(***************************************************************************)
(* Theorems about NameReduction, for every set of definition keys.          *)
(***************************************************************************)
EXTENDS NameReduction, SequenceTheorems, TLAPS

\* Under hierarchical names a bare key in a colliding group may share its name
\* with another group's container; the theorems then ask for no such key.
IsSane == hierarchical => NoBareCollision

\* A flat name that was given out, or the path of a nested definition.
HasFlatName(k) == Len(NewName(k)) = 1 /\ NewName(k)[1] \in taken
HasPath(k) == Len(NewName(k)) > 1 /\ NewName(k)[Len(NewName(k))] = Leaf(k)

\* The keys whose group is named.
Named(k) == stage # "lifting" /\ Leaf(k) \notin open

Typed ==
    /\ keys \subseteq Key
    /\ DOMAIN renames \subseteq keys
    /\ open \subseteq {l \in Leaves : ~IsUnique(l)}
    /\ stage \in {"lifting", "naming", "rekeying", "nesting", "done"}

Started ==
    /\ stage = "lifting" => DOMAIN renames = {} /\ DOMAIN cand = {}
    /\ IsSettled => open = {}

NamesAreGiven == \A k \in keys : Named(k) => HasFlatName(k) \/ HasPath(k)
GivenAreDistinct ==
    \A j, k \in keys : Named(j) /\ Named(k) /\ NewName(j) = NewName(k) => j = k
OnlyNamedAreRenamed == \A k \in DOMAIN renames : Named(k)
CandidatesAreNew ==
    /\ \A k \in DOMAIN cand : cand[k].name \notin taken
    /\ \A j, k \in DOMAIN cand : cand[j].name = cand[k].name => j = k

NamingInv ==
    /\ Typed /\ Started
    /\ NamesAreGiven /\ GivenAreDistinct /\ OnlyNamedAreRenamed
    /\ CandidatesAreNew

-----------------------------------------------------------------------------
(* Keys and paths.                                                          *)

LEMMA KeyIsName == \A k \in Key : k \in Seq(Segment) /\ Len(k) \in Nat /\ Len(k) > 0
  <1> SUFFICES ASSUME NEW k \in Key PROVE k \in Seq(Segment) /\ Len(k) \in Nat /\ Len(k) > 0
    OBVIOUS
  <1>1. k \in Seq(Segment) /\ k # <<>>
    BY NamingAssumption
  <1> QED BY <1>1

\* The place of a nested definition ends in its leaf and has a container.
LEMMA PathEndsInLeaf ==
  ASSUME NEW k \in Key, Len(k) > 1, NEW d \in Nat, d > 0
  PROVE  /\ Len(ConcatParts(k, d)) > 1
         /\ ConcatParts(k, d)[Len(ConcatParts(k, d))] = Leaf(k)
  <1> DEFINE from == IF d < Len(k) THEN Len(k) - d ELSE 1
  <1>1. k \in Seq(Segment) /\ Len(k) \in Nat
    BY KeyIsName
  <1>2. from \in 1..(Len(k) - 1)
    BY <1>1
  <1>3. ConcatParts(k, d) = SubSeq(k, from, Len(k))
    BY DEF ConcatParts
  <1> HIDE DEF from
  <1>4. from \in Int /\ Len(k) \in Int /\ \A i \in from..Len(k) : k[i] \in Segment
    BY <1>1, <1>2, ElementOfSeq
  <1>5. /\ Len(SubSeq(k, from, Len(k))) = Len(k) - from + 1
        /\ \A i \in 1..(Len(k) - from + 1) : SubSeq(k, from, Len(k))[i] = k[from + i - 1]
    BY <1>1, <1>2, <1>4, SubSeqProperties
  <1>6. Len(k) - from + 1 > 1 /\ from + (Len(k) - from + 1) - 1 = Len(k)
    BY <1>1, <1>2
  <1> QED BY <1>1, <1>2, <1>3, <1>5, <1>6 DEF Leaf

-----------------------------------------------------------------------------
\* The walks over the rename map and the end of naming leave names alone.
LEMMA PlacingKeepsNames ==
  ASSUME NamingInv, UNCHANGED naming, stage # "lifting", stage' # "lifting",
         stage' \in {"naming", "rekeying", "nesting", "done"}, stage' # "naming" => open = {}
  PROVE  NamingInv'
  <1>1. \A k : NewName(k)' = NewName(k)
    BY DEF naming, NewName
  <1>2. \A l : IsUnique(l)' = IsUnique(l)
    BY DEF naming, IsUnique, Group
  <1>3. \A k : Named(k)' = Named(k)
    BY DEF naming, Named
  <1>4. \A k : HasFlatName(k)' = HasFlatName(k) /\ HasPath(k)' = HasPath(k)
    BY <1>1 DEF naming, HasFlatName, HasPath
  <1>5. Typed' /\ Started'
    BY <1>2 DEF NamingInv, Typed, Started, IsSettled, naming, Leaves
  <1>6. NamesAreGiven' /\ GivenAreDistinct'
    BY <1>1, <1>3, <1>4 DEF NamingInv, NamesAreGiven, GivenAreDistinct, naming
  <1>7. OnlyNamedAreRenamed' /\ CandidatesAreNew'
    BY <1>3 DEF NamingInv, OnlyNamedAreRenamed, CandidatesAreNew, naming
  <1> QED BY <1>5, <1>6, <1>7 DEF NamingInv

\* Proposing names for the current group.
LEMMA ProposingKeepsNames ==
  ASSUME NamingInv, CandidatesAreNew', stage = "naming",
         UNCHANGED <<stage, hierarchical, keys, renames, taken, containerRoots, open>>
  PROVE  NamingInv'
  <1>1. \A k : NewName(k)' = NewName(k)
    BY DEF NewName
  <1>2. \A l : IsUnique(l)' = IsUnique(l)
    BY DEF IsUnique, Group
  <1>3. \A k : Named(k)' = Named(k)
    BY DEF Named
  <1>4. \A k : HasFlatName(k)' = HasFlatName(k) /\ HasPath(k)' = HasPath(k)
    BY <1>1 DEF HasFlatName, HasPath
  <1>5. Typed' /\ Started'
    BY <1>2 DEF NamingInv, Typed, Started, IsSettled, Leaves
  <1>6. NamesAreGiven' /\ GivenAreDistinct' /\ OnlyNamedAreRenamed'
    BY <1>1, <1>3, <1>4
    DEF NamingInv, NamesAreGiven, GivenAreDistinct, OnlyNamedAreRenamed
  <1> QED BY <1>5, <1>6 DEF NamingInv

\* Committing a group: its keys get the names in f, new to all that are named.
LEMMA CommitKeepsNames ==
  ASSUME NamingInv, IsNamed, NEW f, DOMAIN f = CurrentGroup,
         renames' = WithRenames(f), open' = open \ {Current}, cand' = <<>>,
         taken \subseteq taken',
         UNCHANGED <<stage, hierarchical, keys>>,
         \A k \in CurrentGroup :
            \/ Len(f[k]) = 1 /\ f[k][1] \in taken' \ taken
            \/ Len(f[k]) > 1 /\ f[k][Len(f[k])] = Leaf(k),
         \A j, k \in CurrentGroup : f[j] = f[k] => j = k
  PROVE  NamingInv'
  <1> USE DEF NamingInv
  <1>0. stage = "naming" /\ Current \in open /\ CurrentGroup \subseteq keys
    BY DEF IsNamed, IsNaming, CurrentGroup, Group
  <1>1. \A k \in CurrentGroup : NewName(k)' = f[k]
    BY DEF NewName, WithRenames
  <1>2. \A k \in keys \ CurrentGroup : NewName(k)' = NewName(k)
    BY DEF NewName, WithRenames
  <1>3. \A k \in keys \ CurrentGroup : Named(k)' => Named(k) /\ Leaf(k) # Current
    BY <1>0 DEF Named, CurrentGroup, Group
  <1>4. \A k \in CurrentGroup : Named(k)' /\ Leaf(k) = Current /\ ~Named(k)
    BY <1>0 DEF Named, CurrentGroup, Group
  <1>5. \A l : IsUnique(l)' = IsUnique(l)
    BY DEF IsUnique, Group
  <1>6. Typed' /\ Started'
    BY <1>0, <1>5 DEF Typed, Started, IsSettled, Leaves, WithRenames
  <1>7. NamesAreGiven'
    <2> SUFFICES ASSUME NEW k \in keys, Named(k)' PROVE HasFlatName(k)' \/ HasPath(k)'
      BY DEF NamesAreGiven
    <2>1. CASE k \in CurrentGroup
      BY <1>1, <2>1 DEF HasFlatName, HasPath
    <2>2. CASE k \notin CurrentGroup
      BY <1>2, <1>3, <2>2 DEF NamesAreGiven, HasFlatName, HasPath
    <2> QED BY <2>1, <2>2
  <1>8. ASSUME NEW j \in CurrentGroup, NEW k \in keys \ CurrentGroup, Named(k)'
        PROVE  NewName(j)' # NewName(k)'
    <2>1. Named(k) /\ Leaf(k) # Current /\ Leaf(j) = Current
      BY <1>3, <1>4, <1>8
    <2>2. HasFlatName(k) \/ HasPath(k)
      BY <2>1 DEF NamesAreGiven
    <2>3. NewName(j)' = f[j] /\ NewName(k)' = NewName(k)
      BY <1>1, <1>2
    <2> QED BY <2>1, <2>2, <2>3 DEF HasFlatName, HasPath
  <1>9. GivenAreDistinct'
    <2> SUFFICES ASSUME NEW j \in keys, NEW k \in keys, Named(j)', Named(k)',
                        NewName(j)' = NewName(k)'
                 PROVE  j = k
      BY DEF GivenAreDistinct
    <2>1. CASE j \in CurrentGroup /\ k \in CurrentGroup
      BY <1>1, <2>1
    <2>2. CASE j \notin CurrentGroup /\ k \notin CurrentGroup
      BY <1>2, <1>3, <2>2 DEF GivenAreDistinct
    <2> QED BY <1>8, <2>1, <2>2
  <1>10. OnlyNamedAreRenamed'
    <2> SUFFICES ASSUME NEW k \in DOMAIN renames' PROVE Named(k)'
      BY DEF OnlyNamedAreRenamed
    <2>1. k \in DOMAIN renames \/ k \in CurrentGroup
      BY DEF WithRenames
    <2> QED BY <1>4, <2>1 DEF OnlyNamedAreRenamed, Named
  <1>11. CandidatesAreNew'
    BY DEF CandidatesAreNew
  <1> QED BY <1>6, <1>7, <1>9, <1>10, <1>11

-----------------------------------------------------------------------------
(* The actions, one lemma for each kind.                                    *)

LEMMA InitNames == Init => NamingInv
  <1> SUFFICES ASSUME Init PROVE NamingInv
    OBVIOUS
  <1>1. keys \subseteq Key
    BY NamingAssumption DEF Init
  <1>2. DOMAIN renames = {} /\ DOMAIN cand = {}
    BY DEF Init
  <1> QED BY <1>1, <1>2
      DEF Init, NamingInv, Typed, Started, IsSettled, NamesAreGiven, GivenAreDistinct,
          OnlyNamedAreRenamed, CandidatesAreNew, Named

LEMMA LiftNames ==
  ASSUME NamingInv, LiftUniqueLeaves
  PROVE  NamingInv'
  <1> USE DEF NamingInv, LiftUniqueLeaves
  <1>1. \A l : IsUnique(l)' = IsUnique(l)
    BY DEF IsUnique, Group
  <1>2. \A k \in keys : Named(k)' <=> IsUnique(Leaf(k))
    BY DEF Named, Leaves
  <1>3. ASSUME NEW k \in keys, IsUnique(Leaf(k))
        PROVE  NewName(k)' = <<Leaf(k)>> /\ Leaf(k) \in taken'
    BY <1>3 DEF NewName
  <1>4. Typed' /\ Started'
    BY <1>1 DEF Typed, Started, IsSettled, Leaves
  <1>5. NamesAreGiven'
    BY <1>2, <1>3 DEF NamesAreGiven, HasFlatName
  <1>6. GivenAreDistinct'
    <2> SUFFICES ASSUME NEW j \in keys, NEW k \in keys, Named(j)', Named(k)',
                        NewName(j)' = NewName(k)'
                 PROVE  j = k
      BY DEF GivenAreDistinct
    <2>1. <<Leaf(j)>> = <<Leaf(k)>> /\ IsUnique(Leaf(j))
      BY <1>2, <1>3
    <2>2. Leaf(j) = Leaf(k)
      BY <2>1
    <2> QED BY <2>1, <2>2 DEF IsUnique, Group
  <1>7. OnlyNamedAreRenamed'
    BY <1>2 DEF OnlyNamedAreRenamed
  <1>8. CandidatesAreNew'
    BY DEF CandidatesAreNew, Started
  <1> QED BY <1>4, <1>5, <1>6, <1>7, <1>8

LEMMA NameAtDepthNames ==
  ASSUME NamingInv, NameAtDepth
  PROVE  NamingInv'
  <1>1. PICK d \in Depths :
           /\ IsClear(d)
           /\ cand' = [k \in CurrentGroup |-> [name |-> ConcatName(k, d),
                                               over |-> OverBudget(ConcatParts(k, d))]]
    BY DEF NameAtDepth
  <1>2. \A k \in CurrentGroup : cand'[k].name = ConcatName(k, d)
    BY <1>1
  <1>3. CandidatesAreNew'
    BY <1>1, <1>2 DEF NameAtDepth, CandidatesAreNew, IsClear
  <1> QED BY <1>3, ProposingKeepsNames DEF NameAtDepth, IsNaming

LEMMA MintNames ==
  ASSUME NamingInv, NEW k \in keys, MintName(k)
  PROVE  NamingInv'
  <1>1. PICK i \in 1..MaxSuffix :
           /\ IsNew(Numbered(k, i))
           /\ cand' = [j \in DOMAIN cand \union {k} |->
                 IF j = k THEN [name |-> Numbered(k, i), over |-> OverBudget(k)]
                 ELSE cand[j]]
    BY DEF MintName
  <1>2. k \notin DOMAIN cand
    BY DEF MintName, IsNext, Unnamed
  <1>3. \A j \in DOMAIN cand' :
           cand'[j].name = IF j = k THEN Numbered(k, i) ELSE cand[j].name
    BY <1>1
  <1>4. CandidatesAreNew'
    BY <1>1, <1>2, <1>3 DEF MintName, NamingInv, CandidatesAreNew, IsNew
  <1> QED BY <1>4, ProposingKeepsNames DEF MintName, IsNaming

LEMMA CommitFlatNames ==
  ASSUME NamingInv, CommitFlat
  PROVE  NamingInv'
  <1> DEFINE f == [k \in CurrentGroup |-> <<cand[k].name>>]
  <1>1. DOMAIN cand = CurrentGroup
    BY DEF CommitFlat, IsNamed
  <1>2. \A k \in CurrentGroup : Len(f[k]) = 1 /\ f[k][1] \in taken' \ taken
    BY <1>1 DEF CommitFlat, NamingInv, CandidatesAreNew
  <1>3. \A j, k \in CurrentGroup : f[j] = f[k] => j = k
    BY <1>1 DEF NamingInv, CandidatesAreNew
  <1>4. taken \subseteq taken' /\ renames' = WithRenames(f) /\ DOMAIN f = CurrentGroup
    BY DEF CommitFlat
  <1> HIDE DEF f
  <1> QED BY <1>2, <1>3, <1>4, CommitKeepsNames DEF CommitFlat

LEMMA CommitNestedNames ==
  ASSUME NamingInv, IsSane, CommitNested
  PROVE  NamingInv'
  <1>1. PICK d \in Depths \union {0} :
           /\ IsPathDepth(d)
           /\ LET path == [k \in CurrentGroup |-> IF d = 0 THEN k ELSE ConcatParts(k, d)]
              IN renames' = WithRenames(path)
    BY DEF CommitNested
  <1> DEFINE f == [k \in CurrentGroup |-> IF d = 0 THEN k ELSE ConcatParts(k, d)]
  <1>2. renames' = WithRenames(f) /\ DOMAIN f = CurrentGroup /\ taken \subseteq taken'
    BY <1>1 DEF CommitNested
  <1>3. ASSUME NEW k \in CurrentGroup
        PROVE  Len(f[k]) > 1 /\ f[k][Len(f[k])] = Leaf(k)
    <2>1. k \in keys /\ k \in Key /\ Leaf(k) = Current /\ ~IsUnique(Leaf(k))
      BY DEF CommitNested, IsNamed, IsNaming, CurrentGroup, Group, NamingInv, Typed
    <2>2. Len(k) > 1
      <3>1. NoBareCollision
        BY Zenon DEF CommitNested, IsSane
      <3>2. Len(k) # 1
        BY <2>1, <3>1 DEF NoBareCollision
      <3>3. Len(k) \in Nat /\ Len(k) > 0
        BY <2>1, KeyIsName
      <3>4. \A n \in Nat : n > 0 /\ n # 1 => n > 1
        OBVIOUS
      <3> QED BY <3>2, <3>3, <3>4, Zenon
    <2>3. CASE d = 0
      BY <2>2, <2>3 DEF Leaf
    <2>4. CASE d # 0
      <3>1. d \in Nat /\ d > 0
        BY <2>4 DEF Depths
      <3> QED BY <2>1, <2>2, <2>4, <3>1, PathEndsInLeaf
    <2> QED BY <2>3, <2>4
  <1>4. \A j, k \in CurrentGroup : f[j] = f[k] => j = k
    <2>1. CASE d = 0
      BY <2>1
    <2>2. CASE d # 0
      BY <1>1, <2>2 DEF IsPathDepth, IsClearPath
    <2> QED BY <2>1, <2>2
  <1> HIDE DEF f
  <1> QED BY <1>2, <1>3, <1>4, CommitKeepsNames DEF CommitNested

\* No step changes the input.
LEMMA RigidInput == [Next]_vars => UNCHANGED <<hierarchical, keys>>
  <1> SUFFICES ASSUME [Next]_vars PROVE UNCHANGED <<hierarchical, keys>>
    OBVIOUS
  <1>1. ASSUME NEW k \in keys, MintName(k) \/ Rekey(k) \/ SkipRekey(k) \/ Nest(k)
        PROVE  UNCHANGED <<hierarchical, keys>>
    BY <1>1 DEF MintName, Rekey, SkipRekey, Nest, naming
  <1>2. CASE LiftUniqueLeaves \/ NameAtDepth
    BY <1>2 DEF LiftUniqueLeaves, NameAtDepth
  <1>3. CASE CommitFlat \/ CommitNested
    BY <1>3 DEF CommitFlat, CommitNested
  <1>4. CASE EndNaming \/ EndRekeying \/ EndNesting
    BY <1>4 DEF EndNaming, EndRekeying, EndNesting, naming
  <1>5. CASE UNCHANGED vars
    BY <1>5 DEF vars, naming
  <1> QED BY <1>1, <1>2, <1>3, <1>4, <1>5 DEF Next, Step, Done

SaneNames == IsSane => NamingInv

LEMMA NamingInvariant == Spec => []SaneNames
  <1>1. Init => SaneNames
    BY InitNames DEF SaneNames
  <1>2. SaneNames /\ [Next]_vars => SaneNames'
    <2> SUFFICES ASSUME SaneNames, [Next]_vars, IsSane' PROVE NamingInv'
      BY DEF SaneNames
    <2>1. UNCHANGED <<hierarchical, keys>>
      BY RigidInput
    <2>2. IsSane
      BY <2>1 DEF IsSane, NoBareCollision, IsUnique, Group
    <2>3. NamingInv
      BY <2>2 DEF SaneNames
    <2>4. CASE LiftUniqueLeaves
      BY <2>3, <2>4, LiftNames
    <2>5. CASE NameAtDepth
      BY <2>3, <2>5, NameAtDepthNames
    <2>6. CASE CommitFlat
      BY <2>3, <2>6, CommitFlatNames
    <2>7. CASE CommitNested
      BY <2>2, <2>3, <2>7, CommitNestedNames
    <2>8. CASE EndNaming
      BY <2>3, <2>8, PlacingKeepsNames DEF EndNaming
    <2>9. ASSUME NEW k \in keys, MintName(k) PROVE NamingInv'
      BY <2>3, <2>9, MintNames
    <2>10. ASSUME NEW k \in keys, Rekey(k) \/ SkipRekey(k) \/ Nest(k) PROVE NamingInv'
      BY <2>3, <2>10, PlacingKeepsNames
      DEF Rekey, SkipRekey, Nest, NamingInv, Started, IsSettled
    <2>11. CASE EndRekeying \/ EndNesting
      BY <2>3, <2>11, PlacingKeepsNames
      DEF EndRekeying, EndNesting, NamingInv, Started, IsSettled
    <2>12. CASE UNCHANGED vars
      <3>1. CASE stage = "lifting"
        BY <2>3, <2>12, <3>1
        DEF vars, naming, NamingInv, Typed, Started, IsSettled, NamesAreGiven,
            GivenAreDistinct, OnlyNamedAreRenamed, CandidatesAreNew, Named, Leaves,
            IsUnique, Group
      <3>2. CASE stage # "lifting"
        BY <2>3, <2>12, <3>2, PlacingKeepsNames
        DEF vars, NamingInv, Typed, Started, IsSettled
      <3> QED BY <3>1, <3>2
    <2> QED
      BY <2>4, <2>5, <2>6, <2>7, <2>8, <2>9, <2>10, <2>11, <2>12 DEF Next, Step, Done
  <1> QED BY <1>1, <1>2, PTL DEF Spec

\* Distinct names: whatever keys a document has, no two definitions are given
\* one name; under hierarchical names, if no bare key collides.
THEOREM DistinctNames == Spec => [](IsSane => NamesAreDistinct)
  <1>1. SaneNames => (IsSane => NamesAreDistinct)
    BY DEF SaneNames, NamingInv, Typed, Started, GivenAreDistinct, Named, NamesAreDistinct,
           IsSettled
  <1> QED BY <1>1, NamingInvariant, PTL

-----------------------------------------------------------------------------
(* With flat names, the walk that moves the definitions to their new names.  *)

\* The keys whose definition still stands where discovery put it.
Waiting == IF IsSettled THEN todo ELSE keys

FlatTyped ==
    /\ ~hierarchical
    /\ NoBareCollision
    /\ DOMAIN members = {} /\ DOMAIN stamps = {}
    /\ Waiting \subseteq keys
    /\ stage = "rekeying" => todo \subseteq DOMAIN renames
    /\ IsSettled /\ stage # "rekeying" => todo = {}

\* A bare key is never renamed, and every name that is given is bare.
FlatRenames == \A k \in DOMAIN renames : Len(k) # 1 /\ Len(renames[k]) = 1

FlatPlaced ==
    /\ DOMAIN definitions = Waiting \union {NewName(k) : k \in keys \ Waiting}
    /\ \A k \in Waiting : definitions[k] = k
    /\ \A k \in keys \ Waiting : definitions[NewName(k)] = k

FlatInv == NamingInv /\ FlatTyped /\ FlatRenames /\ FlatPlaced

IsFlatInput == ~hierarchical /\ NoBareCollision
SaneFlat == IsFlatInput => FlatInv

LEMMA InitFlat == Init => SaneFlat
  <1> SUFFICES ASSUME Init, IsFlatInput PROVE FlatInv
    BY DEF SaneFlat
  <1>1. Waiting = keys /\ DOMAIN renames = {} /\ DOMAIN members = {}
         /\ DOMAIN stamps = {}
    BY DEF Init, Waiting, IsSettled
  <1>2. NamingInv
    BY InitNames
  <1> QED BY <1>1, <1>2
      DEF Init, IsFlatInput, FlatInv, FlatTyped, FlatRenames, FlatPlaced, IsSettled

\* The steps that name keep the definitions in place.
LEMMA NamingKeepsPlaces ==
  ASSUME FlatInv, NamingInv', FlatRenames', ~IsSettled, ~IsSettled',
         UNCHANGED <<hierarchical, keys, definitions, members, stamps>>
  PROVE  FlatInv'
  <1>1. Waiting = keys /\ Waiting' = keys
    BY DEF Waiting
  <1>2. NoBareCollision'
    BY DEF FlatInv, FlatTyped, NoBareCollision, IsUnique, Group
  <1>3. FlatTyped'
    BY <1>1, <1>2 DEF FlatInv, FlatTyped, IsSettled
  <1>4. FlatPlaced'
    BY <1>1 DEF FlatInv, FlatPlaced
  <1> QED BY <1>3, <1>4 DEF FlatInv

LEMMA LiftKeepsFlat ==
  ASSUME FlatInv, LiftUniqueLeaves
  PROVE  FlatInv'
  <1>1. FlatRenames'
    <2>1. ASSUME NEW k \in keys, Len(k) = 1 PROVE k = <<Leaf(k)>>
      BY <2>1, KeyIsName DEF Leaf, FlatInv, NamingInv, Typed
    <2> QED BY <2>1 DEF LiftUniqueLeaves, FlatRenames
  <1>2. NamingInv'
    BY LiftNames DEF FlatInv
  <1> QED BY <1>1, <1>2, NamingKeepsPlaces DEF LiftUniqueLeaves, IsSettled, placing

LEMMA CommitKeepsFlat ==
  ASSUME FlatInv, CommitFlat
  PROVE  FlatInv'
  <1>1. FlatRenames'
    <2>1. ASSUME NEW k \in CurrentGroup PROVE Len(k) # 1
      BY DEF CommitFlat, IsNamed, IsNaming, CurrentGroup, Group, FlatInv, FlatTyped,
             NoBareCollision, NamingInv, Typed
    <2> DEFINE f == [k \in CurrentGroup |-> <<cand[k].name>>]
    <2>2. renames' = WithRenames(f) /\ DOMAIN f = CurrentGroup
      BY DEF CommitFlat
    <2>3. \A k \in CurrentGroup : Len(f[k]) = 1
      OBVIOUS
    <2> HIDE DEF f
    <2> QED BY <2>1, <2>2, <2>3 DEF WithRenames, FlatRenames, FlatInv
  <1>2. NamingInv'
    BY CommitFlatNames DEF FlatInv
  <1> QED BY <1>1, <1>2, NamingKeepsPlaces
      DEF CommitFlat, IsNamed, IsNaming, IsSettled, placing

LEMMA EndNamingKeepsFlat ==
  ASSUME FlatInv, EndNaming
  PROVE  FlatInv'
  <1> USE DEF FlatInv, EndNaming, naming
  <1>1. NamingInv'
    BY PlacingKeepsNames
  <1>2. Waiting = keys /\ Waiting' = DOMAIN renames
    BY DEF Waiting, IsSettled
  <1>3. NoBareCollision' /\ FlatRenames'
    BY DEF FlatTyped, NoBareCollision, IsUnique, Group, FlatRenames
  <1>4. FlatTyped'
    BY <1>2, <1>3 DEF FlatTyped, IsSettled, NamingInv, Typed
  <1>5. \A k \in keys : NewName(k)' = NewName(k)
    BY DEF NewName
  <1>6. \A k \in keys \ DOMAIN renames : NewName(k) = k
    BY DEF NewName
  <1>7. FlatPlaced'
    BY <1>2, <1>5, <1>6 DEF FlatPlaced, NamingInv, Typed
  <1> QED BY <1>1, <1>3, <1>4, <1>7

\* The new name of a key that waits is in nobody's way.
LEMMA NewNameIsFree ==
  ASSUME FlatInv, stage = "rekeying", NEW k \in todo
  PROVE  /\ k \in keys /\ k \in DOMAIN renames /\ IsFlat(k) /\ NewName(k) = renames[k]
         /\ k \in DOMAIN definitions /\ renames[k] \notin DOMAIN definitions
         /\ \A j \in keys \ todo : NewName(j) # k /\ NewName(j) # renames[k]
  <1> USE DEF FlatInv
  <1>1. k \in keys /\ k \in DOMAIN renames /\ Waiting = todo
    BY DEF Waiting, IsSettled, FlatTyped
  <1>2. IsFlat(k) /\ NewName(k) = renames[k]
    BY <1>1 DEF IsFlat, NewName, FlatRenames
  <1>3. ASSUME NEW j \in keys \ todo PROVE NewName(j) # k /\ NewName(j) # renames[k]
    <2>1. NewName(j) = NewName(k) => j = k
      BY <1>1 DEF NamingInv, GivenAreDistinct, Started, Named, IsSettled
    <2>2. NewName(j) # k
      BY <1>1, <1>3 DEF NewName, FlatRenames
    <2> QED BY <1>2, <1>3, <2>1, <2>2
  <1>4. ASSUME NEW j \in todo PROVE j # renames[k]
    <2>1. Len(j) # 1
      BY <1>4 DEF FlatTyped, FlatRenames
    <2> QED BY <1>1, <2>1 DEF FlatRenames
  <1> QED BY <1>1, <1>2, <1>3, <1>4 DEF FlatPlaced

LEMMA RekeyKeepsFlat ==
  ASSUME FlatInv, NEW k \in keys, Rekey(k)
  PROVE  FlatInv'
  <1> USE DEF FlatInv, Rekey, naming
  <1>1. NamingInv'
    BY PlacingKeepsNames DEF NamingInv, Started, IsSettled
  <1>2. /\ NewName(k) = renames[k]
        /\ \A j \in keys \ todo : NewName(j) # k /\ NewName(j) # renames[k]
        /\ renames[k] \notin todo
    BY NewNameIsFree DEF FlatPlaced, Waiting, IsSettled
  <1>3. Waiting = todo /\ Waiting' = todo \ {k}
    BY DEF Waiting, IsSettled
  <1>4. \A j \in keys : NewName(j)' = NewName(j)
    BY DEF NewName
  <1>5. NoBareCollision' /\ FlatRenames'
    BY DEF FlatTyped, NoBareCollision, IsUnique, Group, FlatRenames
  <1>6. FlatTyped'
    BY <1>3, <1>5 DEF FlatTyped, IsSettled
  <1>7. FlatPlaced'
    <2>1. DOMAIN definitions' = (DOMAIN definitions \ {k}) \union {renames[k]}
      OBVIOUS
    <2>2. DOMAIN definitions' = Waiting' \union {NewName(j)' : j \in keys \ Waiting'}
      BY <1>2, <1>3, <1>4, <2>1 DEF FlatPlaced
    <2>3. \A j \in Waiting' : definitions'[j] = j
      BY <1>2, <1>3 DEF FlatPlaced
    <2>4. \A j \in keys \ Waiting' : definitions'[NewName(j)'] = j
      <3> SUFFICES ASSUME NEW j \in keys \ Waiting' PROVE definitions'[NewName(j)] = j
        BY <1>4
      <3>1. CASE j = k
        BY <1>2, <1>3, <3>1 DEF FlatPlaced
      <3>2. CASE j # k
        BY <1>2, <1>3, <3>2 DEF FlatPlaced
      <3> QED BY <3>1, <3>2
    <2> QED BY <2>2, <2>3, <2>4 DEF FlatPlaced
  <1> QED BY <1>1, <1>5, <1>6, <1>7

\* From the end of the walk on, nothing moves.
LEMMA SettledKeepsFlat ==
  ASSUME FlatInv, UNCHANGED <<naming, definitions, members, stamps>>, IsSettled, IsSettled',
         todo = {}, todo' = {}, stage' \in {"rekeying", "nesting", "done"}
  PROVE  FlatInv'
  <1> USE DEF FlatInv, naming
  <1>1. NamingInv'
    BY PlacingKeepsNames DEF NamingInv, Started, IsSettled
  <1>2. Waiting = {} /\ Waiting' = {}
    BY DEF Waiting
  <1>3. NoBareCollision' /\ FlatRenames'
    BY DEF FlatTyped, NoBareCollision, IsUnique, Group, FlatRenames
  <1>4. \A j \in keys : NewName(j)' = NewName(j)
    BY DEF NewName
  <1>5. FlatTyped'
    BY <1>2, <1>3 DEF FlatTyped
  <1>6. FlatPlaced'
    BY <1>2, <1>4 DEF FlatPlaced
  <1> QED BY <1>1, <1>3, <1>5, <1>6

LEMMA NothingNested == FlatInv => \A k \in keys : ~IsNested(k)
  <1> SUFFICES ASSUME FlatRenames, NEW k \in keys, IsNested(k) PROVE FALSE
    BY DEF FlatInv
  <1>1. Len(renames[k]) = 1 /\ Len(renames[k]) > 1
    BY DEF IsNested, FlatRenames
  <1>2. ~(1 > 1)
    OBVIOUS
  <1> QED BY <1>1, <1>2, Zenon

LEMMA FlatInvariant == Spec => []SaneFlat
  <1>1. SaneFlat /\ [Next]_vars => SaneFlat'
    <2> SUFFICES ASSUME SaneFlat, [Next]_vars, IsFlatInput' PROVE FlatInv'
      BY DEF SaneFlat
    <2>1. UNCHANGED <<hierarchical, keys>>
      BY RigidInput
    <2>2. FlatInv
      BY <2>1 DEF SaneFlat, IsFlatInput, NoBareCollision, IsUnique, Group
    <2>3. CASE LiftUniqueLeaves
      BY <2>2, <2>3, LiftKeepsFlat
    <2>4. CASE NameAtDepth
      BY <2>2, <2>4, NameAtDepthNames, NamingKeepsPlaces
      DEF NameAtDepth, IsNaming, IsSettled, FlatInv, FlatRenames, placing
    <2>5. ASSUME NEW k \in keys, MintName(k) PROVE FlatInv'
      BY <2>2, <2>5, MintNames, NamingKeepsPlaces
      DEF MintName, IsNaming, IsSettled, FlatInv, FlatRenames, placing
    <2>6. CASE CommitFlat
      BY <2>2, <2>6, CommitKeepsFlat
    <2>7. ~CommitNested
      BY <2>2 DEF CommitNested, FlatInv, FlatTyped
    <2>8. CASE EndNaming
      BY <2>2, <2>8, EndNamingKeepsFlat
    <2>9. ASSUME NEW k \in keys, Rekey(k) PROVE FlatInv'
      BY <2>2, <2>9, RekeyKeepsFlat
    <2>10. ASSUME NEW k \in keys PROVE ~SkipRekey(k) /\ ~Nest(k)
      BY <2>2, NewNameIsFree DEF SkipRekey, Nest, FlatInv, FlatTyped, IsSettled
    <2>11. CASE EndRekeying
      <3>1. todo' = {}
        BY <2>2, <2>11 DEF EndRekeying, FlatInv, FlatRenames, IsFlat
      <3> QED BY <2>2, <2>11, <3>1, SettledKeepsFlat DEF EndRekeying, IsSettled
    <2>12. CASE EndNesting
      BY <2>2, <2>12, SettledKeepsFlat DEF EndNesting, IsSettled, placing
    <2>13. CASE UNCHANGED vars
      BY <2>2, <2>13
      DEF vars, naming, placing, FlatInv, NamingInv, Typed, Started, IsSettled,
          NamesAreGiven, GivenAreDistinct, OnlyNamedAreRenamed, CandidatesAreNew, Named,
          Leaves, IsUnique, Group, HasFlatName, HasPath, NewName, FlatTyped, FlatRenames,
          FlatPlaced, Waiting, NoBareCollision
    <2> QED
      BY <2>3, <2>4, <2>5, <2>6, <2>7, <2>8, <2>9, <2>10, <2>11, <2>12, <2>13
      DEF Next, Step, Done
  <1> QED BY <1>1, InitFlat, PTL DEF Spec

\* With flat names, the walk over the rename map agrees with the references
\* rewritten before it, whatever order Go gives it, and never skips a rename.
THEOREM FlatRefsFollow == Spec => [](IsFlatInput => RefsFollow)
  <1>1. SaneFlat => (IsFlatInput => RefsFollow)
    <2> SUFFICES ASSUME FlatInv, stage = "done", NEW k \in keys PROVE Resolves(k)
      BY DEF SaneFlat, RefsFollow
    <2>1. Waiting = {}
      BY DEF FlatInv, FlatTyped, Waiting, IsSettled
    <2>2. ~IsNested(k)
      BY NothingNested
    <2> QED BY <2>1, <2>2 DEF Resolves, FlatInv, FlatPlaced
  <1> QED BY <1>1, FlatInvariant, PTL

\* With flat names, the document is a function of the key set.
THEOREM FlatResultIsPure == Spec => [](IsFlatInput => ResultIsPure)
  <1>1. SaneFlat => (IsFlatInput => ResultIsPure)
    <2> SUFFICES ASSUME FlatInv, stage = "done" PROVE ResultIsPure
      BY DEF SaneFlat, ResultIsPure
    <2>1. Waiting = {}
      BY DEF FlatInv, FlatTyped, Waiting, IsSettled
    <2>2. \A k \in keys : ~IsNested(k)
      BY NothingNested
    <2>3. DOMAIN definitions = {NewName(k) : k \in keys}
      BY <2>1 DEF FlatInv, FlatPlaced
    <2>4. \A k \in keys : definitions[NewName(k)] = k
      BY <2>1 DEF FlatInv, FlatPlaced
    <2>5. DOMAIN members = {} /\ DOMAIN stamps = {}
      BY DEF FlatInv, FlatTyped
    <2> QED BY <2>2, <2>3, <2>4, <2>5 DEF ResultIsPure
  <1> QED BY <1>1, FlatInvariant, PTL
=============================================================================
