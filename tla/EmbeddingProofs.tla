--------------------------- MODULE EmbeddingProofs ---------------------------
(***************************************************************************)
(* Two parts of what Builder.Build makes of declarations, each on its own:  *)
(* the schema of a struct with embeds (Embedding), and the names of shared  *)
(* parameters (SharedObjects).                                              *)
(*                                                                          *)
(* A build that ends has left every scope its embeds opened.  The stack     *)
(* carries what each call restores; the invariant says that the depth, the  *)
(* omitted fields and the inherited required are at every moment what the   *)
(* calls under way made of them, so that none is left when the last one     *)
(* returns.                                                                 *)
(***************************************************************************)
EXTENDS Embedding, Registrations, FiniteSetTheorems, TLAPS

\* A frame has the fields of a frame, and no others.
IsFrame(f) ==
    f = [type |-> f.type, schema |-> f.schema, target |-> f.target, hasAllOf |-> f.hasAllOf, pass |-> f.pass,
         at |-> f.at, owners |-> f.owners, then |-> f.then, added |-> f.added, saved |-> f.saved]

IsStack(s) == (\E S : s \in Seq(S)) /\ Len(s) > 0 /\ \A i \in DOMAIN s : IsFrame(s[i])

\* Two frames restore the same.
Same(f, g) == IsFrame(f) /\ f.then = g.then /\ f.added = g.added /\ f.saved = g.saved

OmittedIn(s) == UNION {s[i].added : i \in DOMAIN s}
Deeper(s) == {i \in DOMAIN s : Deepens(s[i].then)}

\* The calls of s made the depth d, the omitted fields o and the inherited required h.
Scoped(s, d, o, h) ==
    /\ \A i \in DOMAIN s : s[i].then = "define" <=> i = 1
    /\ s[1].added = {}
    /\ d = Cardinality(Deeper(s))
    /\ o = OmittedIn(s)
    /\ \A i, j \in DOMAIN s : i # j => s[i].added \cap s[j].added = {}
    /\ IF Len(s) = 1 THEN h = "unset" ELSE s[2].saved = "unset"

IInv ==
    /\ outcome \in {"building", "built", "failed"}
    /\ outcome = "building" => IsStack(stack) /\ Scoped(stack, depth, omitted, inherited)
    /\ ScopesAreRestored

-----------------------------------------------------------------------------
(* Stacks *)

\* A field is omitted when some call under way omitted it.
LEMMA OmittedByOne ==
    ASSUME NEW s, NEW x
    PROVE  x \in OmittedIn(s) <=> \E i \in DOMAIN s : x \in s[i].added
BY DEF OmittedIn

\* Frames that restore the same, one by one, make the same of the scopes.
LEMMA Alike ==
    ASSUME NEW s, NEW t, NEW d, NEW o, NEW h, IsStack(s), IsStack(t), Scoped(s, d, o, h), Len(t) = Len(s),
           \A i \in DOMAIN s : Same(t[i], s[i])
    PROVE  Scoped(t, d, o, h)
<1>1. DOMAIN t = DOMAIN s /\ DOMAIN s = 1..Len(s) /\ Len(s) \in Nat \ {0}
  BY DEF IsStack
<1>2. Deeper(t) = Deeper(s)
  BY <1>1 DEF Deeper, Same
<1>3. OmittedIn(t) = OmittedIn(s)
  BY <1>1 DEF OmittedIn, Same
<1>4. 1 \in DOMAIN s /\ (Len(t) # 1 => 2 \in DOMAIN s)
  BY <1>1
<1> QED BY <1>1, <1>2, <1>3, <1>4 DEF Scoped, Same

\* What Append leaves in its place.
LEMMA Appended ==
    ASSUME NEW S, NEW b \in Seq(S), NEW f
    PROVE  /\ Append(b, f) \in Seq(S \cup {f})
           /\ Len(Append(b, f)) = Len(b) + 1
           /\ Append(b, f)[Len(b) + 1] = f
           /\ \A i \in 1..Len(b) : Append(b, f)[i] = b[i]
<1>1. b \in Seq(S \cup {f}) /\ f \in S \cup {f} /\ Len(b) \in Nat
  OBVIOUS
<1> QED BY <1>1

\* The frames from i on replaced by another that restores the same as frame i did.
LEMMA Replace ==
    ASSUME NEW s, NEW i \in 1..Len(s), NEW f, IsStack(s), Same(f, s[i])
    PROVE  LET t == Append(SubSeq(s, 1, i - 1), f)
           IN  IsStack(t) /\ Len(t) = i /\ \A j \in 1..i : Same(t[j], s[j])
<1> DEFINE b == SubSeq(s, 1, i - 1)
           t == Append(b, f)
<1>1. PICK S : s \in Seq(S)
  BY DEF IsStack
<1>2. Len(s) \in Nat \ {0} /\ DOMAIN s = 1..Len(s) /\ i \in Nat \ {0} /\ i <= Len(s)
  BY <1>1 DEF IsStack
<1>3. b \in Seq(S) /\ Len(b) = i - 1
  BY <1>1, <1>2
<1>4. \A j \in 1..(i - 1) : b[j] = s[j]
  BY <1>1, <1>2
<1> HIDE DEF b
<1>5. t \in Seq(S \cup {f}) /\ Len(t) = i /\ t[i] = f /\ \A j \in 1..(i - 1) : t[j] = s[j]
  <2>1. Len(b) + 1 = i
    BY <1>2, <1>3
  <2>2. /\ t \in Seq(S \cup {f}) /\ Len(t) = Len(b) + 1
        /\ t[Len(b) + 1] = f /\ \A j \in 1..Len(b) : t[j] = b[j]
    BY <1>3, Appended
  <2> QED BY <1>3, <1>4, <2>1, <2>2
<1> HIDE DEF t
<1>6. \A j \in 1..i : Same(t[j], s[j])
  <2> SUFFICES ASSUME NEW j \in 1..i PROVE Same(t[j], s[j])
    OBVIOUS
  <2>1. CASE j = i
    BY <1>5, <2>1
  <2>2. CASE j # i
    <3>1. j \in 1..(i - 1) /\ j \in DOMAIN s
      BY <1>2, <2>2
    <3> QED BY <1>5, <3>1 DEF IsStack, Same
  <2> QED BY <2>1, <2>2
<1>7. IsStack(t)
  <2>1. DOMAIN t = 1..i
    BY <1>2, <1>5
  <2> QED BY <1>2, <1>5, <1>6, <2>1 DEF IsStack, Same
<1> QED BY <1>5, <1>6, <1>7 DEF t, b

\* A call put on top.
LEMMA Pushed ==
    ASSUME NEW s, NEW g, NEW d, NEW o, NEW h, NEW h2, NEW targets,
           IsStack(s), Scoped(s, d, o, h), IsFrame(g), g.then # "define", g.added = targets \ o, g.saved = h
    PROVE  /\ IsStack(Append(s, g))
           /\ Scoped(Append(s, g), IF Deepens(g.then) THEN d + 1 ELSE d, o \cup targets, h2)
<1> DEFINE t == Append(s, g)
           n == Len(s) + 1
<1>1. PICK S : s \in Seq(S)
  BY DEF IsStack
<1>2. DOMAIN s = 1..Len(s) /\ Len(s) \in Nat \ {0} /\ n \in Nat /\ n \notin DOMAIN s
  BY <1>1 DEF IsStack
<1>3. t \in Seq(S \cup {g}) /\ Len(t) = n /\ t[n] = g /\ \A i \in 1..Len(s) : t[i] = s[i]
  BY <1>1, Appended
<1> HIDE DEF t
<1>4. DOMAIN t = DOMAIN s \cup {n}
  BY <1>2, <1>3
<1>5. IsStack(t)
  BY <1>2, <1>3, <1>4 DEF IsStack
<1>6. \A i \in DOMAIN t : t[i].then = "define" <=> i = 1
  BY <1>2, <1>3, <1>4 DEF Scoped
<1>7. Cardinality(Deeper(t)) = IF Deepens(g.then) THEN d + 1 ELSE d
  <2>1. IsFiniteSet(Deeper(s)) /\ n \notin Deeper(s)
    <3>1. IsFiniteSet(DOMAIN s) /\ Deeper(s) \subseteq DOMAIN s
      <4>1. Len(s) \in Int /\ DOMAIN s = 1..Len(s)
        BY DEF IsStack
      <4>2. IsFiniteSet(1..Len(s))
        BY <4>1, FS_Interval
      <4>3. Deeper(s) \subseteq DOMAIN s
        BY DEF Deeper
      <4> QED BY <4>1, <4>2, <4>3
    <3> QED BY <1>2, <3>1, FS_Subset
  <2>2. Deeper(t) = IF Deepens(g.then) THEN Deeper(s) \cup {n} ELSE Deeper(s)
    BY <1>2, <1>3, <1>4 DEF Deeper
  <2>3. d = Cardinality(Deeper(s))
    BY DEF Scoped
  <2>4. Cardinality(Deeper(s) \cup {n}) = Cardinality(Deeper(s)) + 1
    BY <2>1, FS_AddElement
  <2> QED BY <2>2, <2>3, <2>4
<1>8. OmittedIn(t) = o \cup targets
  <2>1. \A i \in DOMAIN s : t[i].added = s[i].added
    BY <1>2, <1>3
  <2>2. t[n].added = targets \ o
    BY <1>3
  <2>3. o = OmittedIn(s)
    BY DEF Scoped
  <2>4. ASSUME NEW x PROVE x \in OmittedIn(t) <=> x \in o \/ x \in targets \ o
    <3>1. x \in OmittedIn(t) <=> \E i \in DOMAIN t : x \in t[i].added
      BY OmittedByOne
    <3>2. x \in o <=> \E i \in DOMAIN s : x \in s[i].added
      BY <2>3, OmittedByOne
    <3> QED BY <1>4, <2>1, <2>2, <3>1, <3>2
  <2> QED BY <2>4
<1>9. \A i, j \in DOMAIN t : i # j => t[i].added \cap t[j].added = {}
  <2>1. \A i \in DOMAIN s : s[i].added \cap g.added = {}
    BY OmittedByOne DEF Scoped
  <2>2. \A i \in DOMAIN s : t[i].added = s[i].added
    BY <1>2, <1>3
  <2> QED BY <1>2, <1>3, <1>4, <2>1, <2>2 DEF Scoped
<1>10. t[2].saved = "unset" /\ t[1].added = {}
  <2>1. CASE Len(s) = 1
    BY <1>3, <2>1 DEF Scoped
  <2>2. CASE Len(s) # 1
    <3>1. 1 \in 1..Len(s) /\ 2 \in 1..Len(s)
      BY <1>2, <2>2
    <3> QED BY <1>3, <2>2, <3>1 DEF Scoped
  <2> QED BY <2>1, <2>2
<1>11. Len(t) # 1
  BY <1>2, <1>3
<1> QED BY <1>5, <1>6, <1>7, <1>8, <1>9, <1>10, <1>11 DEF Scoped, t

\* The topmost call returned from.
LEMMA Popped ==
    ASSUME NEW s, NEW t, NEW d, NEW o, NEW h, IsStack(s), Scoped(s, d, o, h), IsStack(t), Len(s) # 1,
           Len(t) = Len(s) - 1, \A i \in 1..Len(t) : Same(t[i], s[i])
    PROVE  Scoped(t, IF Deepens(s[Len(s)].then) THEN d - 1 ELSE d, o \ s[Len(s)].added, s[Len(s)].saved)
<1> DEFINE n == Len(s)
<1>1. /\ DOMAIN s = 1..n /\ n \in Nat \ {0, 1} /\ DOMAIN t = 1..(n - 1)
      /\ n \notin DOMAIN t /\ n \in DOMAIN s /\ 1 \in DOMAIN t /\ n = Len(t) + 1 /\ Len(t) \in Nat
  <2>1. DOMAIN s = 1..n /\ n \in Nat \ {0, 1}
    BY DEF IsStack
  <2>2. DOMAIN t = 1..Len(t)
    BY DEF IsStack
  <2> QED BY <2>1, <2>2
<1>2. DOMAIN s = DOMAIN t \cup {n}
  BY <1>1
<1>3. \A i \in DOMAIN t : t[i].then = "define" <=> i = 1
  BY <1>1 DEF Scoped, Same
<1>4. Cardinality(Deeper(t)) = IF Deepens(s[n].then) THEN d - 1 ELSE d
  <2>1. IsFiniteSet(Deeper(t)) /\ n \notin Deeper(t)
    <3>1. IsFiniteSet(DOMAIN t) /\ Deeper(t) \subseteq DOMAIN t
      BY <1>1, FS_Interval DEF Deeper
    <3> QED BY <1>1, <3>1, FS_Subset
  <2>2. Deeper(s) = IF Deepens(s[n].then) THEN Deeper(t) \cup {n} ELSE Deeper(t)
    <3>1. \A i \in DOMAIN t : t[i].then = s[i].then
      BY <1>1 DEF Same
    <3> QED BY <1>2, <3>1 DEF Deeper
  <2>3. Cardinality(Deeper(t)) \in Nat
    BY <2>1, FS_CardinalityType
  <2>4. d = Cardinality(Deeper(s))
    BY DEF Scoped
  <2>5. Cardinality(Deeper(t) \cup {n}) = Cardinality(Deeper(t)) + 1
    BY <2>1, FS_AddElement
  <2> QED BY <2>2, <2>3, <2>4, <2>5
<1>5. OmittedIn(t) = o \ s[n].added
  <2>1. \A i \in DOMAIN t : t[i].added = s[i].added
    BY <1>1 DEF Same
  <2>2. \A i \in DOMAIN t : s[i].added \cap s[n].added = {}
    BY <1>1, <1>2 DEF Scoped
  <2>3. ASSUME NEW x PROVE x \in o <=> x \in OmittedIn(t) \/ x \in s[n].added
    <3>1. x \in OmittedIn(t) <=> \E i \in DOMAIN t : x \in t[i].added
      BY OmittedByOne
    <3>2. o = OmittedIn(s)
      BY DEF Scoped
    <3>3. x \in o <=> \E i \in DOMAIN s : x \in s[i].added
      BY <3>2, OmittedByOne
    <3> QED BY <1>2, <2>1, <3>1, <3>3
  <2>4. ASSUME NEW x PROVE ~(x \in OmittedIn(t) /\ x \in s[n].added)
    BY <2>1, <2>2, OmittedByOne
  <2> QED BY <2>3, <2>4
<1>6. \A i, j \in DOMAIN t : i # j => t[i].added \cap t[j].added = {}
  <2>1. \A i \in DOMAIN t : t[i].added = s[i].added
    BY <1>1 DEF Same
  <2> QED BY <1>2, <2>1 DEF Scoped
<1>7. IF Len(t) = 1 THEN s[n].saved = "unset" ELSE t[2].saved = "unset"
  <2>1. s[2].saved = "unset"
    BY <1>1 DEF Scoped
  <2>2. CASE Len(t) = 1
    <3>1. ASSUME NEW k \in Nat, k = 1 PROVE k + 1 = 2
      BY <3>1
    <3>2. n = 2
      BY <1>1, <2>2, <3>1, Zenon
    <3> QED BY <2>1, <2>2, <3>2
  <2>3. CASE Len(t) # 1
    <3>1. 2 \in 1..Len(t)
      BY <1>1, <2>3
    <3> QED BY <2>1, <2>3, <3>1 DEF Same
  <2> QED BY <2>2, <2>3
<1>8. t[1].added = {}
  BY <1>1 DEF Scoped, Same
<1> QED BY <1>3, <1>4, <1>5, <1>6, <1>7, <1>8 DEF Scoped

-----------------------------------------------------------------------------
(* The machine *)

\* What one step needs of the invariant while the build goes on.
LEMMA TopIsFrame ==
    ASSUME IsStack(stack)
    PROVE  /\ IsFrame(Top) /\ Len(stack) \in Nat \ {0} /\ DOMAIN stack = 1..Len(stack)
           /\ stack[Len(stack)] = Top /\ Len(stack) \in 1..Len(stack)
BY DEF IsStack, Top

\* The topmost frame replaced by another that restores the same.
LEMMA TopReplaced ==
    ASSUME IsStack(stack), NEW f, Same(f, Top)
    PROVE  LET t == Append(Below, f)
           IN  IsStack(t) /\ Len(t) = Len(stack) /\ \A i \in 1..Len(stack) : Same(t[i], stack[i])
<1> DEFINE n == Len(stack)
           t == Append(SubSeq(stack, 1, n - 1), f)
<1>1. n \in 1..Len(stack) /\ Same(f, stack[n])
  BY TopIsFrame
<1>2. Append(Below, f) = t
  BY DEF Below
<1> HIDE DEF n
<1>3. IsStack(t) /\ Len(t) = n /\ \A i \in 1..n : Same(t[i], stack[i])
  BY <1>1, Replace
<1> HIDE DEF t
<1>4. QED
  BY <1>2, <1>3 DEF n

\* A step that only moves on in the topmost frame.
LEMMA Moves ==
    ASSUME IInv, Building, NEW f, Same(f, Top), stack' = Append(Below, f),
           UNCHANGED <<depth, inherited, omitted, outcome>>
    PROVE  IInv'
<1>1. IsStack(stack) /\ Scoped(stack, depth, omitted, inherited) /\ outcome = "building"
  BY DEF IInv, Building
<1>2. IsStack(stack') /\ Len(stack') = Len(stack) /\ \A i \in 1..Len(stack) : Same(stack'[i], stack[i])
  <2> DEFINE t == Append(Below, f)
  <2>1. IsStack(t) /\ Len(t) = Len(stack) /\ \A i \in 1..Len(stack) : Same(t[i], stack[i])
    BY <1>1, TopReplaced
  <2>2. stack' = t
    OBVIOUS
  <2> HIDE DEF t
  <2> QED BY <2>1, <2>2
<1>3. Scoped(stack', depth, omitted, inherited)
  BY <1>1, <1>2, TopIsFrame, Alike
<1> QED BY <1>1, <1>2, <1>3 DEF IInv, ScopesAreRestored

\* A step that calls the builder of a type.
LEMMA Calls ==
    ASSUME IInv, Building, NEW frame, Same(frame, Top), NEW T, NEW s, NEW m, NEW then, then # "define", NEW targets,
           Call(frame, T, s, m, then, targets), UNCHANGED outcome
    PROVE  IInv'
<1> DEFINE t == Append(Below, frame)
           g == Frame(T, s, m, then, targets \ omitted)
<1>1. IsStack(stack) /\ Scoped(stack, depth, omitted, inherited) /\ outcome = "building"
  BY DEF IInv, Building
<1>2. IsStack(t) /\ Len(t) = Len(stack) /\ \A i \in 1..Len(stack) : Same(t[i], stack[i])
  BY <1>1, TopReplaced
<1>3. Scoped(t, depth, omitted, inherited)
  BY <1>1, <1>2, TopIsFrame, Alike
<1>4. IsFrame(g) /\ g.then = then /\ g.added = targets \ omitted /\ g.saved = inherited
  BY DEF Frame, IsFrame
<1>5. stack' = Append(t, g) /\ omitted' = omitted \cup targets /\ depth' = IF Deepens(then) THEN depth + 1 ELSE depth
  BY DEF Call, Deepens
<1> HIDE DEF t, g
<1>6. IsStack(stack') /\ Scoped(stack', depth', omitted', inherited')
  BY <1>2, <1>3, <1>4, <1>5, Pushed
<1> QED BY <1>1, <1>6 DEF IInv, ScopesAreRestored

\* A step that returns to the caller.
LEMMA Returns ==
    ASSUME IInv, Building, Top.then # "define", NEW f, Same(f, Caller),
           stack' = Append(SubSeq(stack, 1, Len(stack) - 2), f), Restore, inherited' = Top.saved, UNCHANGED outcome
    PROVE  IInv'
<1>1. IsStack(stack) /\ Scoped(stack, depth, omitted, inherited) /\ outcome = "building"
  BY DEF IInv, Building
<1>2. Len(stack) # 1 /\ Len(stack) - 1 \in 1..Len(stack) /\ (Len(stack) - 1) - 1 = Len(stack) - 2
  BY <1>1, TopIsFrame DEF Scoped
<1>3. /\ IsStack(stack') /\ Len(stack') = Len(stack) - 1
      /\ \A i \in 1..(Len(stack) - 1) : Same(stack'[i], stack[i])
  <2> DEFINE i == Len(stack) - 1
  <2>1. i \in 1..Len(stack) /\ Same(f, stack[i]) /\ stack' = Append(SubSeq(stack, 1, i - 1), f)
    BY <1>2 DEF Caller
  <2> HIDE DEF i
  <2>2. IsStack(stack') /\ Len(stack') = i /\ \A j \in 1..i : Same(stack'[j], stack[j])
    <3> DEFINE t == Append(SubSeq(stack, 1, i - 1), f)
    <3>1. IsStack(t) /\ Len(t) = i /\ \A j \in 1..i : Same(t[j], stack[j])
      BY <1>1, <2>1, Replace
    <3> HIDE DEF t
    <3>2. stack' = t
      BY <2>1 DEF t
    <3> QED BY <3>1, <3>2
  <2> QED BY <2>2 DEF i
<1>4. Scoped(stack', IF Deepens(Top.then) THEN depth - 1 ELSE depth, omitted \ Top.added, Top.saved)
  BY <1>1, <1>2, <1>3, Popped DEF Top
<1> QED BY <1>1, <1>3, <1>4 DEF IInv, Restore, ScopesAreRestored

\* The invariant holds at first.
LEMMA InitInv == Init => IInv
<1> SUFFICES ASSUME Init PROVE IInv
  OBVIOUS
<1> DEFINE f == stack[1]
           g == [type |-> Root, schema |-> 1, target |-> None, hasAllOf |-> FALSE, pass |-> "embeds", at |-> 1,
                 owners |-> 1, then |-> "define", added |-> {}, saved |-> "unset"]
<1>1. stack \in Seq({f}) /\ Len(stack) = 1 /\ DOMAIN stack = {1} /\ IsFrame(f)
  <2>1. stack = <<g>>
    BY DEF Init
  <2>2. IsFrame(g)
    BY DEF IsFrame
  <2> HIDE DEF g
  <2> QED BY <2>1, <2>2
<1>2. f.then = "define" /\ f.added = {} /\ depth = 0 /\ omitted = {} /\ inherited = "unset" /\ outcome = "building"
  BY DEF Init
<1> HIDE DEF f
<1>3. IsStack(stack)
  BY <1>1 DEF IsStack, f
<1>4. Deeper(stack) = {} /\ OmittedIn(stack) = {}
  BY <1>1, <1>2 DEF Deeper, Deepens, OmittedIn, f
<1>5. Cardinality(Deeper(stack)) = 0
  BY <1>4, FS_EmptySet
<1> QED BY <1>1, <1>2, <1>3, <1>4, <1>5 DEF IInv, Scoped, ScopesAreRestored, f

\* Moving on in a frame, and choosing its target, leave what it restores.
LEMMA SameFrames ==
    ASSUME IsFrame(Top)
    PROVE  /\ Same(Top, Top)
           /\ \A n : Same([Top EXCEPT !.target = n], Top)
           /\ \A n : Same([Top EXCEPT !.at = n], Top)
           /\ Same(ComposedTop, Top) /\ Same(AsideTop, Top)
           /\ \A p, a, n : Same([Top EXCEPT !.pass = p, !.at = a, !.target = n], Top)
           /\ \A f : Same(f, Top) => Same([f EXCEPT !.at = f.at + 1], Top)
<1>1. Same(Top, Top)
  BY DEF Same
<1>2. \A n : Same([Top EXCEPT !.target = n], Top)
  BY DEF Same, IsFrame
<1>3. \A n : Same([Top EXCEPT !.at = n], Top)
  BY DEF Same, IsFrame
<1>4. Same(ComposedTop, Top)
  BY DEF Same, IsFrame, ComposedTop
<1>5. Same(AsideTop, Top)
  BY <1>4 DEF Same, IsFrame, AsideTop
<1>6. ASSUME NEW p, NEW a, NEW n PROVE Same([Top EXCEPT !.pass = p, !.at = a, !.target = n], Top)
  <2>1. ASSUME NEW f, IsFrame(f) PROVE Same([f EXCEPT !.pass = p], f)
    BY <2>1 DEF Same, IsFrame
  <2>2. ASSUME NEW f, IsFrame(f) PROVE Same([f EXCEPT !.at = a], f)
    BY <2>2 DEF Same, IsFrame
  <2>3. ASSUME NEW f, IsFrame(f) PROVE Same([f EXCEPT !.target = n], f)
    BY <2>3 DEF Same, IsFrame
  <2>4. [Top EXCEPT !.pass = p, !.at = a, !.target = n]
            = [[[Top EXCEPT !.pass = p] EXCEPT !.at = a] EXCEPT !.target = n]
    OBVIOUS
  <2>5. ASSUME NEW f, NEW g, NEW k, Same(f, g), Same(g, k) PROVE Same(f, k)
    BY <2>5 DEF Same
  <2> DEFINE f1 == [Top EXCEPT !.pass = p]
             f2 == [f1 EXCEPT !.at = a]
  <2>6. Same(f1, Top) /\ IsFrame(f1)
    BY <2>1 DEF Same
  <2> HIDE DEF f1
  <2>7. Same(f2, f1) /\ IsFrame(f2)
    BY <2>2, <2>6 DEF Same
  <2> HIDE DEF f2
  <2>8. Same([f2 EXCEPT !.target = n], f2)
    BY <2>3, <2>7
  <2>9. Same([f2 EXCEPT !.target = n], Top)
    BY <2>5, <2>6, <2>7, <2>8
  <2> QED BY <2>4, <2>9 DEF f1, f2
<1>7. \A f : Same(f, Top) => Same([f EXCEPT !.at = f.at + 1], Top)
  BY DEF Same, IsFrame
<1> QED BY <1>1, <1>2, <1>3, <1>4, <1>5, <1>6, <1>7

\* Every step keeps the invariant.
LEMMA NextInv == IInv /\ [Next]_vars => IInv'
<1> SUFFICES ASSUME IInv, [Next]_vars PROVE IInv'
  OBVIOUS
<1>1. ASSUME Building
      PROVE  /\ IsStack(stack) /\ Scoped(stack, depth, omitted, inherited) /\ Same(Top, Top)
             /\ Same(ComposedTop, Top) /\ Same(AsideTop, Top)
             /\ \A n : Same([Top EXCEPT !.target = n], Top)
             /\ \A p, a, n : Same([Top EXCEPT !.pass = p, !.at = a, !.target = n], Top)
             /\ \A f : Same(f, Top) => Same([f EXCEPT !.at = f.at + 1], Top)
  BY <1>1, TopIsFrame, SameFrames DEF IInv, Building
<1>2. CASE PassOver
  BY <1>1, <1>2, Moves DEF PassOver, Advance
<1>3. CASE NestEmbed
  <2>1. PICK target : stack' = Advance([Top EXCEPT !.target = target])
    BY <1>3 DEF NestEmbed
  <2> QED BY <1>1, <1>3, <2>1, Moves DEF NestEmbed, InStruct, AtEmbed, Advance
<1>4. CASE PromoteEmbed
  <2>1. PICK target, targets : Call([Top EXCEPT !.target = target], Current.of, target, Top.owners, "promote", targets)
    BY <1>4 DEF PromoteEmbed
  <2> QED BY <1>1, <1>4, <2>1, Calls DEF PromoteEmbed, InStruct, AtEmbed
<1>5. CASE PromoteNothing
  BY <1>1, <1>5, Moves DEF PromoteNothing, InStruct, AtEmbed, Advance
<1>6. CASE ComposeWhole
  BY <1>1, <1>6, Moves DEF ComposeWhole, InStruct, AtEmbed, Advance
<1>7. CASE ComposeEmbed
  BY <1>1, <1>7, Calls DEF ComposeEmbed, InStruct, AtEmbed
<1>8. CASE PassOverInInterface
  BY <1>1, <1>8, Moves DEF PassOverInInterface, InInterface, AtEmbed, Advance
<1>9. CASE InterfaceWhole
  BY <1>1, <1>9, Moves DEF InterfaceWhole, InterfaceMember, InInterface, AtEmbed, Advance
<1>10. CASE InterfaceEmbed
  <2>1. PICK m, then : /\ then # "define"
                       /\ Call(ComposedTop, Current.of, Len(Grown) + 1, m, then, {})
    BY <1>10 DEF InterfaceEmbed
  <2> QED BY <1>1, <1>10, <2>1, Calls DEF InterfaceEmbed, InterfaceMember, InInterface, AtEmbed
<1>11. CASE Fail
  BY <1>11 DEF Fail, IInv, ScopesAreRestored
<1>12. CASE EndEmbeds
  BY <1>1, <1>12, Moves DEF EndEmbeds
<1>13. CASE PassOverField
  BY <1>1, <1>13, Moves DEF PassOverField, AtField, Advance
<1>14. CASE DashField
  BY <1>1, <1>14, Moves DEF DashField, AtField, Advance
<1>15. CASE WriteField
  BY <1>1, <1>15, Moves DEF WriteField, AtField, Advance
<1>16. CASE OpenAnonymous
  <2>1. PICK s : Call(Top, Current.of, s, Len(owners) + 1, "property", {})
    BY <1>16 DEF OpenAnonymous
  <2> QED BY <1>1, <1>16, <2>1, Calls DEF OpenAnonymous, AtField
<1>17. ASSUME Building, Top.then # "define"
       PROVE  Same([Caller EXCEPT !.at = Caller.at + 1], Caller)
  <2>1. IsStack(stack) /\ Scoped(stack, depth, omitted, inherited)
    BY <1>1, <1>17
  <2>2. Len(stack) - 1 \in DOMAIN stack
    BY <2>1, <1>17, TopIsFrame DEF Scoped
  <2> QED BY <2>1, <2>2 DEF IsStack, Caller, IsFrame, Same
<1>18. CASE ReturnEmbed
  <2>1. Building /\ Top.then # "define" /\ Restore /\ inherited' = Top.saved /\ UNCHANGED outcome
    BY <1>18 DEF ReturnEmbed, AtEnd
  <2> QED BY <1>17, <1>18, <2>1, Returns DEF ReturnEmbed, Return
<1>19. CASE ReturnProperty
  <2>1. Building /\ Top.then # "define" /\ Restore /\ inherited' = Top.saved /\ UNCHANGED outcome
    BY <1>19 DEF ReturnProperty, AtEnd
  <2> QED BY <1>17, <1>19, <2>1, Returns DEF ReturnProperty, Return
<1>20. CASE Finish
  <2>1. IsStack(stack) /\ Scoped(stack, depth, omitted, inherited) /\ Top.then = "define"
    BY <1>1, <1>20 DEF Finish, AtEnd
  <2>2. Len(stack) = 1 /\ DOMAIN stack = {1} /\ Top = stack[1]
    BY <2>1, TopIsFrame DEF Scoped
  <2>3. Deeper(stack) = {} /\ inherited = "unset"
    BY <2>1, <2>2 DEF Deeper, Deepens, Scoped
  <2>4. depth = 0
    BY <2>1, <2>3, FS_EmptySet DEF Scoped
  <2>5. omitted = {}
    BY <2>1, <2>2 DEF OmittedIn, Scoped
  <2> QED BY <1>20, <2>3, <2>4, <2>5 DEF Finish, IInv, ScopesAreRestored
<1>21. CASE UNCHANGED vars
  BY <1>21 DEF vars, IInv, ScopesAreRestored
<1> QED
  BY <1>2, <1>3, <1>4, <1>5, <1>6, <1>7, <1>8, <1>9, <1>10, <1>11, <1>12, <1>13, <1>14, <1>15, <1>16, <1>18, <1>19,
     <1>20, <1>21 DEF Next

\* A finished build has left every embed, whatever the declarations: nothing stays omitted, inherited
\* or deeper for what the same builder does next.
THEOREM ScopesRestored == Spec => []ScopesAreRestored
<1>1. IInv => ScopesAreRestored
  BY DEF IInv
<1> QED BY <1>1, InitInv, NextInv, PTL DEF Spec

-----------------------------------------------------------------------------
(* Who owns the name of a shared parameter, for every program: Registrations *)
(* says what is true of them, SharedObjects how they are made.              *)

VARIABLES intents, inlines, objects, slots, pathItems, dropped

Shared == INSTANCE SharedObjects WITH reports <- dropped

Decls == DOMAIN input.declarations
Registers(d, n) == Declaration(d).isShared /\ n \in NamesOf(d)

\* While declarations are built: those that are.  After that: all.
CandidatesAreGathered ==
    /\ phase = "parameters" => left \subseteq Decls
    /\ candidates = {c \in Decls \X Name :
           Registers(c[1], c[2]) /\ ~(phase = "parameters" /\ c[1] \in left)}

\* The candidates the loop of registerSharedParameters is done with.
IsTaken(c) == phase # "parameters" /\ ~(phase = "registration" /\ c \in left)

SuppliedAreKept ==
    \A n \in input.supplied.parameters :
        n \in DOMAIN parameters /\ parameters[n] = <<"InputSpec">>

IsFirst(d, n) ==
    /\ <<d, n>> \in candidates
    /\ \A c \in candidates : c[2] = n => d <= c[1]

OthersAreFirst ==
    \A n \in DOMAIN parameters \ input.supplied.parameters :
        \E d \in Decls : parameters[n] = <<"declaration", d>> /\ IsFirst(d, n)

RegistrationInv ==
    /\ input \in Inputs
    /\ CandidatesAreGathered
    /\ phase = "registration" => left \subseteq candidates
    /\ phase = "parameters" => DOMAIN parameters = input.supplied.parameters
    /\ SuppliedAreKept
    /\ OthersAreFirst
    /\ \A c \in candidates : IsTaken(c) => c[2] \in DOMAIN parameters

-----------------------------------------------------------------------------
(* A declaration's names are names, and its number is a number.             *)
LEMMA DeclarationsAreNumbered ==
    ASSUME input \in Inputs, NEW d \in Decls
    PROVE  d \in Nat /\ NamesOf(d) \subseteq Name
  <1>1. IsProgram(input)
    BY ProgramAssumption
  <1>2. input.declarations \in Seq(Declarations)
    BY <1>1 DEF IsProgram
  <1>3. d \in Nat /\ Declaration(d) \in Declarations
    BY <1>2 DEF Decls, Declaration
  <1>4. Declaration(d).fields \in Seq([name : Name, in : Location])
    BY <1>3 DEF Declarations, FieldLists
  <1>5. ASSUME NEW f \in Range(Declaration(d).fields) PROVE f.name \in Name
    <2>1. PICK i \in DOMAIN Declaration(d).fields : f = Declaration(d).fields[i]
      BY DEF Range
    <2>2. f \in [name : Name, in : Location]
      <3>1. \A S : \A fields \in Seq(S) : \A j \in DOMAIN fields : fields[j] \in S
        OBVIOUS
      <3> QED BY <1>4, <2>1, <3>1, Zenon
    <2> QED BY <2>2
  <1> QED BY <1>3, <1>5 DEF NamesOf

(* Before anything is built only InputSpec has registered.                  *)
LEMMA RegistrationBegins == Shared!Init => RegistrationInv
  <1> SUFFICES ASSUME Shared!Init PROVE RegistrationInv
    OBVIOUS
  <1>1. candidates = {} /\ phase = "parameters" /\ left = Decls /\ input \in Inputs
    BY DEF Shared!Init, Decls
  <1>2. CandidatesAreGathered
    BY <1>1 DEF CandidatesAreGathered
  <1>3. DOMAIN parameters = input.supplied.parameters /\ SuppliedAreKept
    BY DEF Shared!Init, SuppliedAreKept
  <1> QED BY <1>1, <1>2, <1>3 DEF RegistrationInv, OthersAreFirst, IsTaken

(* What leaves the registrations alone, after they are made or before.      *)
LEMMA RegistrationIsLeft ==
    ASSUME RegistrationInv, UNCHANGED <<input, candidates, parameters>>,
           phase \notin {"parameters", "registration"},
           phase' \notin {"parameters", "registration"}
    PROVE  RegistrationInv'
  <1>1. CandidatesAreGathered'
    BY DEF RegistrationInv, CandidatesAreGathered, Registers, Declaration, NamesOf, Decls
  <1>2. SuppliedAreKept' /\ OthersAreFirst'
    BY DEF RegistrationInv, SuppliedAreKept, OthersAreFirst, IsFirst, Decls
  <1> QED BY <1>1, <1>2 DEF RegistrationInv, IsTaken

(* Every step of Build keeps the invariant; the sort is what RegisterCandidate *)
(* needs: what it takes is no later than what is left.                        *)
LEMMA RegistrationStep == RegistrationInv /\ [Shared!Next]_Shared!vars => RegistrationInv'
  <1> SUFFICES ASSUME RegistrationInv, [Shared!Next]_Shared!vars PROVE RegistrationInv'
    OBVIOUS
  <1> USE DEF Shared!gathered
  <1>1. ASSUME NEW d \in left, Shared!BuildParameters(d) PROVE RegistrationInv'
    <2>1. /\ phase = "parameters" /\ left \subseteq Decls /\ d \in Decls
          /\ UNCHANGED <<input, phase, parameters>> /\ left' = left \ {d}
      BY <1>1 DEF Shared!BuildParameters, RegistrationInv, CandidatesAreGathered
    <2>2. NamesOf(d) \subseteq Name
      BY <2>1, DeclarationsAreNumbered DEF RegistrationInv
    <2>3. candidates' = candidates \union {<<d, n>> : n \in {m \in Name : Registers(d, m)}}
      <3>1. Shared!Declaration(d) = Declaration(d) /\ Shared!NamesOf(d) = NamesOf(d)
        BY DEF Shared!Declaration, Shared!NamesOf, Shared!Range, Declaration, NamesOf, Range
      <3>2. candidates' = candidates \union
                              {<<d, n>> : n \in IF Declaration(d).isShared THEN NamesOf(d) ELSE {}}
        BY <1>1, <3>1 DEF Shared!BuildParameters
      <3>3. {m \in Name : Registers(d, m)} = IF Declaration(d).isShared THEN NamesOf(d) ELSE {}
        BY <2>2 DEF Registers
      <3> QED BY <3>2, <3>3
    <2>4. CandidatesAreGathered'
      <3>1. (Decls \X Name)' = Decls \X Name /\ \A e, n : Registers(e, n)' <=> Registers(e, n)
        BY <2>1 DEF Decls, Registers, Declaration, NamesOf
      <3>2. candidates = {c \in Decls \X Name : Registers(c[1], c[2]) /\ c[1] \notin left}
        BY <2>1 DEF RegistrationInv, CandidatesAreGathered
      <3>3. candidates' = {c \in Decls \X Name : Registers(c[1], c[2]) /\ c[1] \notin left'}
        <4>1. ASSUME NEW c \in candidates'
              PROVE  c \in Decls \X Name /\ Registers(c[1], c[2]) /\ c[1] \notin left'
          BY <2>1, <2>3, <3>2, <4>1
        <4>2. ASSUME NEW c \in Decls \X Name, Registers(c[1], c[2]), c[1] \notin left'
              PROVE  c \in candidates'
          <5>1. CASE c[1] = d
            BY <5>1, <2>3, <4>2
          <5>2. CASE c[1] # d
            BY <5>2, <2>1, <2>3, <3>2, <4>2
          <5> QED BY <5>1, <5>2
        <4> QED BY <4>1, <4>2
      <3> QED BY <2>1, <3>1, <3>3
              DEF CandidatesAreGathered, Registers, Declaration, NamesOf, Decls
    <2>5. SuppliedAreKept' /\ (DOMAIN parameters = input.supplied.parameters)'
      BY <2>1 DEF RegistrationInv, SuppliedAreKept
    <2> QED BY <2>1, <2>4, <2>5 DEF RegistrationInv, OthersAreFirst, IsTaken
  <1>2. CASE Shared!ToRegistration
    <2>1. /\ phase = "parameters" /\ left = {} /\ phase' = "registration" /\ left' = candidates
          /\ UNCHANGED <<input, candidates, parameters>>
      BY <1>2 DEF Shared!ToRegistration, Shared!Goes
    <2>2. CandidatesAreGathered'
      BY <2>1 DEF RegistrationInv, CandidatesAreGathered, Registers, Declaration, NamesOf, Decls
    <2> QED BY <2>1, <2>2 DEF RegistrationInv, SuppliedAreKept, OthersAreFirst, IsTaken
  <1>3. ASSUME NEW c \in left, Shared!RegisterCandidate(c) PROVE RegistrationInv'
    <2>1. /\ phase = "registration" /\ phase' = "registration" /\ left' = left \ {c}
          /\ UNCHANGED <<input, candidates>> /\ left \subseteq candidates
      BY <1>3 DEF Shared!RegisterCandidate, RegistrationInv
    <2>2. \A b \in left : c[1] <= b[1]
      BY <1>3 DEF Shared!RegisterCandidate, Shared!IsNext
    <2>3. CandidatesAreGathered'
      BY <2>1 DEF RegistrationInv, CandidatesAreGathered, Registers, Declaration, NamesOf, Decls
    <2>4. c \in candidates /\ c \in Decls \X Name /\ c = <<c[1], c[2]>>
      BY <2>1 DEF RegistrationInv, CandidatesAreGathered
    <2>5. \A b \in candidates : IsTaken(b)' => IsTaken(b) \/ b = c
      BY <2>1 DEF IsTaken
    <2>6. CASE c[2] \in DOMAIN parameters
      <3>1. parameters' = parameters
        BY <1>3, <2>6 DEF Shared!RegisterCandidate
      <3>2. SuppliedAreKept' /\ OthersAreFirst'
        BY <2>1, <3>1 DEF RegistrationInv, SuppliedAreKept, OthersAreFirst, IsFirst, Decls
      <3> QED BY <2>1, <2>3, <2>5, <2>6, <3>1, <3>2 DEF RegistrationInv
    <2>7. CASE c[2] \notin DOMAIN parameters
      <3>1. parameters' = Shared!With(parameters, c[2], <<"declaration", c[1]>>)
        BY <1>3, <2>7 DEF Shared!RegisterCandidate
      <3>2. /\ DOMAIN parameters' = DOMAIN parameters \union {c[2]}
            /\ parameters'[c[2]] = <<"declaration", c[1]>>
            /\ \A n \in DOMAIN parameters : parameters'[n] = parameters[n]
        BY <3>1, <2>7 DEF Shared!With
      <3>3. SuppliedAreKept'
        BY <2>1, <3>2 DEF RegistrationInv, SuppliedAreKept
      <3>4. IsFirst(c[1], c[2])
        <4>1. ASSUME NEW b \in candidates, b[2] = c[2] PROVE b \in left
          BY <2>1, <2>7, <4>1 DEF RegistrationInv, IsTaken
        <4> QED BY <2>2, <2>4, <4>1 DEF IsFirst
      <3>5. OthersAreFirst'
        <4>1. \A d, n : IsFirst(d, n) => IsFirst(d, n)'
          BY <2>1 DEF IsFirst
        <4>2. Decls' = Decls /\ c[1] \in Decls
          BY <2>1, <2>4 DEF Decls
        <4>3. ASSUME NEW n \in DOMAIN parameters' \ input.supplied.parameters
              PROVE  \E d \in Decls : parameters'[n] = <<"declaration", d>> /\ IsFirst(d, n)
          BY <3>2, <3>4, <4>2, <4>3 DEF RegistrationInv, OthersAreFirst
        <4> QED BY <2>1, <4>1, <4>2, <4>3 DEF OthersAreFirst
      <3> QED BY <2>1, <2>3, <2>5, <3>2, <3>3, <3>5 DEF RegistrationInv
    <2> QED BY <2>6, <2>7
  <1>4. CASE Shared!ToReferences
    <2>1. /\ phase = "registration" /\ left = {} /\ phase' = "references"
          /\ UNCHANGED <<input, candidates, parameters>>
      BY <1>4 DEF Shared!ToReferences, Shared!Goes
    <2>2. CandidatesAreGathered'
      BY <2>1 DEF RegistrationInv, CandidatesAreGathered, Registers, Declaration, NamesOf, Decls
    <2> QED BY <2>1, <2>2
            DEF RegistrationInv, SuppliedAreKept, OthersAreFirst, IsFirst, Decls, IsTaken
  <1>5. ASSUME NEW i \in left, Shared!ApplyParameterRef(i) PROVE RegistrationInv'
    BY <1>5, RegistrationIsLeft DEF Shared!ApplyParameterRef
  <1>6. CASE Shared!ToRoutes
    BY <1>6, RegistrationIsLeft DEF Shared!ToRoutes, Shared!Goes
  <1>7. ASSUME NEW a \in left, Shared!BuildRoute(a) PROVE RegistrationInv'
    BY <1>7, RegistrationIsLeft DEF Shared!BuildRoute, Shared!Attach
  <1>8. CASE Shared!ToOperations
    BY <1>8, RegistrationIsLeft DEF Shared!ToOperations, Shared!Goes
  <1>9. ASSUME NEW a \in left, Shared!BuildOperation(a) PROVE RegistrationInv'
    BY <1>9, RegistrationIsLeft DEF Shared!BuildOperation, Shared!Attach
  <1>10. CASE Shared!ToPathItems
    BY <1>10, RegistrationIsLeft DEF Shared!ToPathItems, Shared!Goes
  <1>11. CASE Shared!ApplyPathItemParameters
    BY <1>11, RegistrationIsLeft DEF Shared!ApplyPathItemParameters
  <1>12. CASE Shared!ValidateSharedRefs
    BY <1>12, RegistrationIsLeft DEF Shared!ValidateSharedRefs
  <1>13. CASE UNCHANGED Shared!vars
    <2>1. UNCHANGED <<input, phase, left, candidates, parameters>>
      BY <1>13 DEF Shared!vars
    <2>2. CandidatesAreGathered'
      BY <2>1 DEF RegistrationInv, CandidatesAreGathered, Registers, Declaration, NamesOf, Decls
    <2>3. SuppliedAreKept' /\ OthersAreFirst'
      BY <2>1 DEF RegistrationInv, SuppliedAreKept, OthersAreFirst, IsFirst, Decls
    <2> QED BY <2>1, <2>2, <2>3 DEF RegistrationInv, IsTaken
  <1> QED
    BY <1>1, <1>2, <1>3, <1>4, <1>5, <1>6, <1>7, <1>8, <1>9, <1>10, <1>11, <1>12, <1>13
    DEF Shared!Next, Shared!Done

(* After registration the invariant says who owns a name.                   *)
LEMMA RegistrationIsKeepFirst == RegistrationInv => FirstIsKept
  <1> SUFFICES ASSUME RegistrationInv, phase \notin {"parameters", "registration"},
                      NEW n \in Name
               PROVE  /\ n \in DOMAIN parameters
                            <=> n \in input.supplied.parameters \/ Registrants(n) # {}
                      /\ n \in DOMAIN parameters =>
                            parameters[n] = IF n \in input.supplied.parameters THEN <<"InputSpec">>
                                            ELSE <<"declaration", Min(Registrants(n))>>
    BY DEF FirstIsKept
  <1>1. \A d : d \in Registrants(n) <=> <<d, n>> \in candidates
    BY DEF RegistrationInv, CandidatesAreGathered, Registers, Registrants, Decls
  <1>2. \A d \in Registrants(n) : d \in Nat
    BY DeclarationsAreNumbered DEF RegistrationInv, Registrants, Decls
  <1>3. ASSUME NEW d \in Registrants(n) PROVE n \in DOMAIN parameters
    <2>1. <<d, n>> \in candidates /\ <<d, n>>[2] = n
      BY <1>1
    <2> QED BY <2>1 DEF RegistrationInv, IsTaken
  <1>4. ASSUME n \in DOMAIN parameters, n \notin input.supplied.parameters
        PROVE  /\ Registrants(n) # {}
               /\ parameters[n] = <<"declaration", Min(Registrants(n))>>
    <2>1. PICK d \in Decls : parameters[n] = <<"declaration", d>> /\ IsFirst(d, n)
      BY <1>4 DEF RegistrationInv, OthersAreFirst
    <2>2. d \in Registrants(n) /\ \A e \in Registrants(n) : d <= e
      <3>1. \A e \in Registrants(n) : <<e, n>>[1] = e /\ <<e, n>>[2] = n
        OBVIOUS
      <3> QED BY <1>1, <2>1, <3>1 DEF IsFirst
    <2>3. \A e \in Registrants(n) : (\A b \in Registrants(n) : e <= b) => e = d
      BY <1>2, <2>2
    <2>4. Min(Registrants(n)) = d
      BY <2>2, <2>3 DEF Min
    <2> QED BY <2>1, <2>2, <2>4
  <1>5. n \in input.supplied.parameters =>
            n \in DOMAIN parameters /\ parameters[n] = <<"InputSpec">>
    BY DEF RegistrationInv, SuppliedAreKept
  <1> QED BY <1>3, <1>4, <1>5

(* For every program and every order of its packages, the shared name goes   *)
(* to InputSpec or to the first declaration of the name in package order, and *)
(* no name that is registered is missing: what registerSharedParameters keeps *)
(* does not depend on how packages were loaded.                               *)
THEOREM KeepFirst == Shared!Spec => []FirstIsKept
  <1>1. Shared!Spec => []RegistrationInv
    BY RegistrationBegins, RegistrationStep, PTL DEF Shared!Spec
  <1> QED BY <1>1, RegistrationIsKeepFirst, PTL
=============================================================================
