--------------------------- MODULE NavigationProofs ---------------------------
(***************************************************************************)
(* Theorems about Navigation, for any files, documents, queries and number  *)
(* of scans.                                                                *)
(*                                                                          *)
(* A handler is an operator from a record to a record, so its lemma is      *)
(* about any record and not about the state: a record whose selections are  *)
(* of what it holds becomes another.  Only the steps, at the end, are about *)
(* ui.                                                                      *)
(***************************************************************************)
EXTENDS Navigation, Integers, FiniteSetTheorems, WellFoundedInduction, TLAPS

-----------------------------------------------------------------------------
(* The inductive invariant.                                                 *)

FieldNames ==
    {"focused", "left", "file", "rows", "editing", "dirty", "nav", "row", "marks", "format", "body", "cursor",
     "dots", "arrows", "query", "match", "searching", "refs", "doc", "anchors", "yaml", "gen", "diag", "tab",
     "verdict", "follow", "overlay", "toggled", "started", "scanning", "converting", "checking"}

Driven == {"source", "diag", "validation"}

\* The record as it is between two steps of a handler: what is shown may be of
\* what was shown before, but every selection is of something.
Typed(u) ==
    /\ DOMAIN u = FieldNames
    /\ u.focused \in Panes /\ u.left \in {"browse", "view"}
    /\ u.file \in Files \union {NoFile} /\ u.rows \in Nat \ {0}
    /\ u.nav \in 1..u.rows /\ u.row \in 1..u.rows
    /\ u.editing \in BOOLEAN /\ u.dirty \in BOOLEAN /\ u.searching \in BOOLEAN /\ u.toggled \in BOOLEAN
    /\ u.format \in {"JSON", "YAML"} /\ IsRender(u.body) /\ u.cursor \in 1..Lines(u.body)
    /\ u.query \in Queries \union {"none"} /\ u.match \in Nat \ {0}
    /\ IsDocument(u.doc) /\ AreAnchors(u.anchors)
    /\ u.yaml \in {"none", "pending", "ready"} /\ u.gen \in Nat
    /\ u.tab \in {"scan", "validation"} /\ u.diag \in 1..Max({1, Len(u.doc.diags)})
    /\ DOMAIN u.verdict = {"findings", "ran", "cursor"}
    /\ u.verdict.findings \in Seq(Pointers) /\ u.verdict.ran \in BOOLEAN
    /\ u.verdict.cursor \in 1..Max({1, Len(u.verdict.findings)})
    /\ u.follow \in {"off", "spec"} \union Driven
    /\ u.overlay \in {"none", "confirm", "options"}
    /\ u.overlay = "confirm" => u.file # NoFile
    /\ u.started \in Nat /\ u.scanning \in Nat
    /\ u.converting \subseteq Nat /\ u.checking \subseteq Seq(Pointers)

\* The gutters are of the render, the anchors and the file that are shown.
Guttered(u) ==
    /\ u.arrows = LocalRefLines(u.body)
    /\ u.dots = {LineForPointer(u.body, n) : n \in AnchoredPointers(u.anchors)} \ {0}
    /\ u.marks \subseteq AnchorLines(u.anchors, u.file)

\* The find-references walk is over the render that is shown.
Walks(u) ==
    /\ DOMAIN u.refs = {"anchor", "sites", "at"}
    /\ u.refs # NoCycle =>
         /\ u.refs.sites = RefsToPointer(u.body, u.refs.anchor)
         /\ u.refs.at \in 1..Cardinality(u.refs.sites)

Current(u) == Typed(u) /\ Guttered(u) /\ Walks(u)

\* FollowersHold, mode by mode.
Shows(u, pos) ==
    pos.file # NoFile => u.file = pos.file /\ u.nav = Clamp(pos.line, u.rows)
ShowsLine(u, line) == line # 0 => u.cursor = line
Mirrors(u) ==
    LET d == SelectedDiag(u)
    IN /\ u.follow = "spec" => Shows(u, SpecSource(u))
       /\ u.follow = "source" => ShowsLine(u, SpecLineFor(u, u.file, CurrentLine(u)))
       /\ u.follow = "diag" => Shows(u, d) /\ ShowsLine(u, SpecLineFor(u, d.file, d.line))

\* Where the cursor of u goes when the body takes the place of its render.
KeptNode(u, body) == Nearest(PointerAt(u.body, u.cursor), Rendered(body))
KeepsNode(u, v) ==
    /\ u.body # <<>> /\ v.body \notin {<<>>, u.body}
    /\ v.follow \notin Driven /\ KeptNode(u, v.body) # Nowhere
    => v.cursor = LineForPointer(v.body, KeptNode(u, v.body))

\* What v hides u hid, over the same file.
HidesNothing(u, v) == SourceIsHidden(v) => SourceIsHidden(u) /\ v.file = u.file

NavInv == Current(ui) /\ Mirrors(ui)

-----------------------------------------------------------------------------
(* Numbers, and sets of lines.                                              *)

LEMMA ClampIn ==
    ASSUME NEW n \in Int, NEW last \in Nat \ {0}
    PROVE  Clamp(n, last) \in 1..last /\ (n \in 1..last => Clamp(n, last) = n)
  BY DEF Clamp

LEMMA WrapIn ==
    ASSUME NEW at \in Nat \ {0}, NEW dir, NEW count \in Nat \ {0}
    PROVE  Wrap(at, dir, count) \in 1..count
  <1>1. PICK n \in Nat : n = at - 1 + (IF dir = "next" THEN 1 ELSE count - 1)
    OBVIOUS
  <1>2. n % count \in 0..(count - 1)
    BY Z3
  <1> QED BY <1>1, <1>2 DEF Wrap

LEMMA LeastOf ==
    ASSUME NEW S \in SUBSET Nat, S # {}
    PROVE  \E x \in S : \A y \in S : x <= y
  <1> DEFINE R == {ss \in Nat \X Nat : ss[1] < ss[2]}
  <1>1. IsWellFoundedOn(R, Nat)
    BY NatLessThanWellFounded DEF OpToRel
  <1> HIDE DEF R
  <1>2. PICK x \in S : \A y \in S : <<y, x>> \notin R
    BY <1>1, WFMin
  <1>3. ASSUME NEW y \in S PROVE x <= y
    <2>1. y < x => <<y, x>> \in R
      BY DEF R
    <2> QED BY <1>2, <2>1
  <1> QED BY <1>2, <1>3

LEMMA GreatestOf ==
    ASSUME NEW n \in Nat, NEW S \in SUBSET (1..n), S # {}
    PROVE  Max(S) \in S /\ \A y \in S : y <= Max(S)
  <1> DEFINE T == {n - i : i \in S}
  <1>0. \A i \in S : i \in Nat /\ i <= n
    OBVIOUS
  <1>1. T \in SUBSET Nat /\ T # {}
    <2>1. \A i \in S : n - i \in Nat
      BY <1>0
    <2> QED BY <2>1
  <1>2. PICK t \in T : \A y \in T : t <= y
    BY <1>1, LeastOf
  <1>3. PICK i \in S : t = n - i
    BY <1>2
  <1>4. ASSUME NEW y \in S PROVE i >= y
    <2>1. n - y \in T
      OBVIOUS
    <2> QED BY <1>0, <1>2, <1>3, <2>1
  <1>5. Max(S) \in S /\ \A y \in S : Max(S) >= y
    BY <1>4 DEF Max
  <1> QED BY <1>5

LEMMA OneAtLeast ==
    ASSUME NEW n \in Nat
    PROVE  Max({1, n}) = (IF n > 1 THEN n ELSE 1)
  <1>1. \A x \in {1, n} : (\A y \in {1, n} : x >= y) => x = (IF n > 1 THEN n ELSE 1)
    OBVIOUS
  <1>2. \E x \in {1, n} : \A y \in {1, n} : x >= y
    <2>1. CASE n > 1
      BY <2>1
    <2>2. CASE ~(n > 1)
      BY <2>2
    <2> QED BY <2>1, <2>2
  <1> QED BY <1>1, <1>2 DEF Max

\* The n-th line of a set of lines is one of them.
LEMMA NthIsThere ==
    ASSUME NEW last \in Nat, NEW lines \in SUBSET (1..last), NEW n \in 1..Cardinality(lines)
    PROVE  Nth(lines, n) \in lines
  <1> DEFINE Upto(i) == {j \in lines : j <= i}
  <1>0. \A i \in lines : i \in Nat
    OBVIOUS
  <1>1. IsFiniteSet(lines) /\ Cardinality(lines) \in Nat
    <2>1. IsFiniteSet(1..last)
      BY FS_Interval
    <2> QED BY <2>1, FS_Subset, FS_CardinalityType
  <1>2. \A T \in SUBSET lines : IsFiniteSet(T) /\ Cardinality(T) \in Nat
    BY <1>1, FS_Subset, FS_CardinalityType
  <1>3. PICK E : E = {i \in lines : Cardinality(Upto(i)) >= n}
    OBVIOUS
  <1>4. E # {}
    <2>1. lines # {}
      BY <1>1, FS_EmptySet
    <2>2. Max(lines) \in lines /\ Upto(Max(lines)) = lines
      BY <2>1, GreatestOf
    <2> QED BY <1>1, <1>3, <2>2
  <1>5. PICK m \in E : \A y \in E : m <= y
    <2>1. E \in SUBSET Nat
      BY <1>0, <1>3
    <2> QED BY <1>4, <2>1, LeastOf
  <1>6. PICK B : B = {j \in lines : j < m}
    OBVIOUS
  <1>7. m \in lines /\ Cardinality(Upto(m)) >= n /\ Upto(m) = B \union {m} /\ m \notin B /\ B \subseteq lines
    <2>1. m \in lines /\ Cardinality(Upto(m)) >= n
      BY <1>3, <1>5
    <2>2. \A j \in lines : j <= m <=> j < m \/ j = m
      BY <1>0, <2>1
    <2>3. ~(m < m)
      BY <1>0, <2>1
    <2> QED BY <1>6, <2>1, <2>2, <2>3
  <1>8. Cardinality(Upto(m)) = Cardinality(B) + 1
    <2>1. IsFiniteSet(B)
      BY <1>2, <1>7
    <2> QED BY <1>7, <2>1, FS_AddElement
  <1>9. Cardinality(B) < n
    <2>1. CASE B = {}
      BY <2>1, FS_EmptySet
    <2>2. CASE B # {}
      <3>1. Max(B) \in B /\ \A y \in B : y <= Max(B)
        BY <1>7, <2>2, GreatestOf
      <3>2. Upto(Max(B)) = B
        <4>1. \A j \in lines : j <= Max(B) => j < m
          <5>1. PICK b : b = Max(B)
            OBVIOUS
          <5>2. b \in Nat /\ m \in Nat /\ b < m
            BY <1>0, <1>6, <1>7, <3>1, <5>1
          <5>3. \A j \in lines : j <= b => j < m
            BY <1>0, <5>2
          <5> QED BY <5>1, <5>3
        <4> QED BY <1>6, <1>7, <3>1, <4>1
      <3>3. Max(B) \notin E
        <4>1. Max(B) \in Nat /\ m \in Nat /\ Max(B) < m
          BY <1>0, <1>6, <1>7, <3>1
        <4>2. ~(m <= Max(B))
          BY <4>1
        <4> QED BY <1>5, <4>2
      <3> QED BY <1>2, <1>3, <1>7, <3>1, <3>2, <3>3
    <2> QED BY <2>1, <2>2
  <1>10. Cardinality(Upto(m)) = n
    <2>1. n \in Nat /\ Cardinality(B) \in Nat
      BY <1>1, <1>2, <1>7
    <2> QED BY <1>7, <1>8, <1>9, <2>1
  <1> QED BY <1>7, <1>10 DEF Nth

-----------------------------------------------------------------------------
(* The indexes.                                                             *)

LEMMA RenderLines ==
    ASSUME NEW body, IsRender(body)
    PROVE  /\ Len(body) \in Nat /\ DOMAIN body = 1..Len(body)
           /\ Lines(body) \in Nat \ {0} /\ DOMAIN body \subseteq 1..Lines(body)
           /\ body # <<>> => Lines(body) = Len(body)
  BY DEF IsRender, Lines

\* A node is on the line that declares it, and on no other.
LEMMA LineOfNode ==
    ASSUME NEW body, IsRender(body), NEW node
    PROVE  /\ LineForPointer(body, node) \in 0..Len(body)
           /\ LineForPointer(body, node) # 0 => LineForPointer(body, node) \in DOMAIN body
           /\ \A i \in DOMAIN body : LineForPointer(body, node) = i <=> Declares(body[i], node)
  <1>0. DOMAIN body = 1..Len(body) /\ Len(body) \in Nat
    BY RenderLines
  <1>1. node \in Rendered(body) <=> \E i \in DOMAIN body : Declares(body[i], node)
    BY DEF Rendered, Declares
  <1>2. \A i, j \in DOMAIN body : Declares(body[i], node) /\ Declares(body[j], node) => i = j
    BY DEF IsRender, Declares
  <1>3. CASE node \in Rendered(body)
    <2>1. LineForPointer(body, node) \in DOMAIN body /\ Declares(body[LineForPointer(body, node)], node)
      BY <1>1, <1>3 DEF LineForPointer
    <2> QED BY <1>0, <1>2, <2>1
  <1>4. CASE node \notin Rendered(body)
    BY <1>0, <1>1, <1>4 DEF LineForPointer
  <1> QED BY <1>3, <1>4

LEMMA LineIsLine ==
    ASSUME NEW body, IsRender(body), NEW i \in DOMAIN body
    PROVE  body[i] \in RenderedLines
  <1>1. \A S : \A s \in Seq(S) : \A j \in DOMAIN s : s[j] \in S
    OBVIOUS
  <1> QED BY <1>1, Zenon DEF IsRender

\* The root is not a node of a render.
LEMMA NowhereIsNoNode ==
    ASSUME NEW body, IsRender(body)
    PROVE  Nowhere \notin Rendered(body)
  <1> SUFFICES ASSUME NEW i \in DOMAIN body, NEW k \in DOMAIN body[i].nodes, body[i].nodes[k] = Nowhere
               PROVE  FALSE
    BY DEF Rendered
  <1>1. body[i] \in RenderedLines
    BY LineIsLine
  <1>2. body[i].nodes \in Seq(Pointers \ {Nowhere})
    BY <1>1 DEF RenderedLines
  <1>3. \A S : \A s \in Seq(S) : \A j \in DOMAIN s : s[j] \in S
    OBVIOUS
  <1>4. body[i].nodes[k] \in Pointers \ {Nowhere}
    BY <1>2, <1>3, Zenon
  <1> QED BY <1>4

LEMMA ReferencesAreLines ==
    ASSUME NEW body, IsRender(body), NEW node
    PROVE  /\ RefsToPointer(body, node) \in SUBSET (1..Len(body))
           /\ Cardinality(RefsToPointer(body, node)) \in Nat
           /\ RefsToPointer(body, node) # {} => Cardinality(RefsToPointer(body, node)) \in Nat \ {0}
  <1>1. RefsToPointer(body, node) \in SUBSET (1..Len(body)) /\ Len(body) \in Nat
    BY RenderLines DEF RefsToPointer
  <1>2. IsFiniteSet(RefsToPointer(body, node))
    <2>1. IsFiniteSet(1..Len(body))
      BY <1>1, FS_Interval
    <2> QED BY <1>1, <2>1, FS_Subset
  <1> QED BY <1>1, <1>2, FS_CardinalityType, FS_EmptySet

\* The nearest known node is known.
LEMMA NearestIsKnown ==
    ASSUME NEW node \in Pointers, NEW known, Nearest(node, known) # Nowhere
    PROVE  Nearest(node, known) \in known
  <1>1. PICK path : path = {k \in 1..Len(node) : SubSeq(node, 1, k) \in known}
    OBVIOUS
  <1>2. Len(node) \in Nat
    BY DEF Pointers
  <1>3. path # {} /\ Nearest(node, known) = SubSeq(node, 1, Max(path))
    BY <1>1 DEF Nearest
  <1>4. Max(path) \in path
    BY <1>1, <1>2, <1>3, GreatestOf
  <1> QED BY <1>1, <1>3, <1>4

LEMMA PointerIsPointer ==
    ASSUME NEW body, IsRender(body), NEW line
    PROVE  PointerAt(body, line) \in Pointers
  <1>1. PICK above : above = {i \in DOMAIN body : i <= line /\ body[i].nodes # <<>>}
    OBVIOUS
  <1>2. CASE above = {}
    <2>1. PointerAt(body, line) = <<>>
      BY <1>1, <1>2 DEF PointerAt, Nowhere
    <2> QED BY <2>1 DEF Pointers
  <1>3. CASE above # {}
    <2>1. Max(above) \in above
      BY <1>1, <1>3, RenderLines, GreatestOf
    <2>2. PICK nodes : nodes = body[Max(above)].nodes
      OBVIOUS
    <2>3. nodes \in Seq(Pointers \ {Nowhere}) /\ nodes # <<>>
      <3>1. body[Max(above)] \in RenderedLines
        BY <1>1, <2>1, LineIsLine
      <3>2. \A l \in RenderedLines : l.nodes \in Seq(Pointers \ {Nowhere})
        BY DEF RenderedLines
      <3> QED BY <1>1, <2>1, <2>2, <3>1, <3>2
    <2>4. Len(nodes) \in DOMAIN nodes
      BY <2>3
    <2>5. \A S : \A s \in Seq(S) : \A j \in DOMAIN s : s[j] \in S
      OBVIOUS
    <2>6. nodes[Len(nodes)] \in Pointers \ {Nowhere}
      BY <2>3, <2>4, <2>5, Zenon
    <2> QED BY <1>1, <1>3, <2>2, <2>6 DEF PointerAt
  <1> QED BY <1>2, <1>3

\* What is near a node is referred to.
LEMMA NearIsReferred ==
    ASSUME NEW body, IsRender(body), NEW node \in Pointers, RefsNear(body, node) # Nowhere
    PROVE  RefsToPointer(body, RefsNear(body, node)) # {}
  <1>1. RefsNear(body, node) \in {body[i].ref : i \in DOMAIN body} \ {Nowhere, External}
    BY NearestIsKnown DEF RefsNear
  <1> QED BY <1>1 DEF RefsToPointer

-----------------------------------------------------------------------------
(* The panes: what each move leaves current.                                *)

\* v is u, but for these fields.
SameBut(u, v, fields) == DOMAIN v = DOMAIN u /\ \A f \in FieldNames \ fields : v[f] = u[f]

SourceFields == {"left", "file", "rows", "editing", "dirty", "nav", "row", "marks"}

LEMMA JumpKeeps ==
    ASSUME NEW u, Current(u), NEW line \in Int
    PROVE  LET v == JumpTo(u, line)
           IN  Current(v) /\ SameBut(u, v, {"cursor"}) /\ (line \in DOMAIN u.body => v.cursor = line)
  <1> DEFINE v == JumpTo(u, line)
  <1>1. DOMAIN u = FieldNames /\ IsRender(u.body)
    BY DEF Current, Typed
  <1>2. Clamp(line, Lines(u.body)) \in 1..Lines(u.body) /\ (line \in DOMAIN u.body => Clamp(line, Lines(u.body)) = line)
    BY <1>1, RenderLines, ClampIn
  <1>3. SameBut(u, v, {"cursor"}) /\ v.cursor = Clamp(line, Lines(u.body))
    BY <1>1 DEF JumpTo, SameBut, FieldNames
  <1>4. Current(v)
    BY <1>1, <1>2 DEF JumpTo, Current, Typed, Guttered, Walks, FieldNames
  <1> QED BY <1>2, <1>3, <1>4

LEMMA DriveKeeps ==
    ASSUME NEW u, Current(u), NEW node
    PROVE  LET line == LineForPointer(u.body, node)
               v == DriveTo(u, line)
           IN  Current(v) /\ SameBut(u, v, {"cursor"}) /\ ShowsLine(v, line)
  <1>1. IsRender(u.body)
    BY DEF Current, Typed
  <1>2. PICK line : line = LineForPointer(u.body, node)
    OBVIOUS
  <1>3. line \in Int /\ (line # 0 => line \in DOMAIN u.body)
    BY <1>1, <1>2, LineOfNode, RenderLines
  <1>4. CASE line = 0
    BY <1>2, <1>4 DEF DriveTo, SameBut, ShowsLine
  <1>5. CASE line # 0
    <2>1. DriveTo(u, line) = JumpTo(u, line)
      BY <1>5 DEF DriveTo
    <2> QED BY <1>2, <1>3, <1>5, <2>1, JumpKeeps DEF ShowsLine
  <1> QED BY <1>4, <1>5

LEMMA GotoKeeps ==
    ASSUME NEW u, Current(u), NEW line \in Int
    PROVE  LET v == GotoLine(u, line)
           IN  Current(v) /\ SameBut(u, v, {"nav"}) /\ v.nav = Clamp(line, v.rows)
  <1> DEFINE v == GotoLine(u, line)
  <1>1. DOMAIN u = FieldNames /\ u.rows \in Nat \ {0}
    BY DEF Current, Typed
  <1>2. Clamp(line, u.rows) \in 1..u.rows
    BY <1>1, ClampIn
  <1>3. SameBut(u, v, {"nav"}) /\ v.nav = Clamp(line, v.rows)
    BY <1>1 DEF GotoLine, SameBut, FieldNames
  <1>4. Current(v)
    BY <1>1, <1>2 DEF GotoLine, Current, Typed, Guttered, Walks, FieldNames
  <1> QED BY <1>3, <1>4

LEMMA LoadKeeps ==
    ASSUME NEW u, Current(u), NEW file \in Files
    PROVE  LET v == LoadFileQuietly(u, file)
           IN  Current(v) /\ SameBut(u, v, SourceFields) /\ v.file = file /\ ~SourceIsHidden(v)
  <1> DEFINE v == LoadFileQuietly(u, file)
  <1>1. DOMAIN u = FieldNames
    BY DEF Current, Typed
  <1>2. Rows[file] \in Nat /\ file # NoFile
    BY NavigationAssumption
  <1>3. PICK rows \in Nat \ {0} : rows = IF Rows[file] = 0 THEN 1 ELSE Rows[file]
    BY <1>2
  <1>4. SameBut(u, v, SourceFields) /\ v.file = file /\ ~SourceIsHidden(v)
    BY <1>1 DEF LoadFileQuietly, SameBut, FieldNames, SourceFields, SourceIsHidden
  <1>5. Current(v)
    BY <1>1, <1>2, <1>3 DEF LoadFileQuietly, Current, Typed, Guttered, Walks, FieldNames
  <1> QED BY <1>4, <1>5

IsPosition(pos) == pos.file \in Files \union {NoFile} /\ pos.line \in Nat

LEMMA ShowKeeps ==
    ASSUME NEW u, Current(u), NEW pos, IsPosition(pos), pos.file # NoFile
    PROVE  LET v == ShowSource(u, pos)
           IN  Current(v) /\ SameBut(u, v, SourceFields) /\ Shows(v, pos) /\ HidesNothing(u, v)
  <1>1. pos.file \in Files /\ pos.line \in Int
    BY DEF IsPosition
  <1>2. PICK w : w = IF u.file = pos.file THEN u ELSE LoadFileQuietly(u, pos.file)
    OBVIOUS
  <1>3. Current(w) /\ SameBut(u, w, SourceFields) /\ w.file = pos.file /\ HidesNothing(u, w)
    BY <1>1, <1>2, LoadKeeps DEF SameBut, HidesNothing
  <1>4. ShowSource(u, pos) = GotoLine(w, pos.line)
    BY <1>2 DEF ShowSource
  <1>5. PICK v : v = GotoLine(w, pos.line)
    OBVIOUS
  <1>6. Current(v) /\ SameBut(w, v, {"nav"}) /\ v.nav = Clamp(pos.line, v.rows)
    BY <1>1, <1>3, <1>5, GotoKeeps
  <1>7. SameBut(u, v, SourceFields) /\ v.file = w.file /\ v.left = w.left /\ v.editing = w.editing
    BY <1>3, <1>6 DEF SameBut, SourceFields, FieldNames
  <1>8. HidesNothing(u, v)
    BY <1>3, <1>7 DEF HidesNothing, SourceIsHidden
  <1> QED BY <1>3, <1>4, <1>5, <1>6, <1>7, <1>8 DEF Shows

LEMMA AnchorsHavePositions ==
    ASSUME NEW anchors, AreAnchors(anchors), NEW node
    PROVE  IsPosition(PositionFor(anchors, node))
  <1>1. PICK records : records = {i \in DOMAIN anchors : anchors[i].node = Nearest(node, AnchoredPointers(anchors))}
    OBVIOUS
  <1>2. CASE records = {}
    BY <1>1, <1>2 DEF PositionFor, IsPosition
  <1>3. CASE records # {}
    <2>1. DOMAIN anchors = 1..Len(anchors) /\ Len(anchors) \in Nat
      BY DEF AreAnchors
    <2>2. Max(records) \in DOMAIN anchors
      BY <1>1, <1>3, <2>1, GreatestOf
    <2>3. \A S : \A s \in Seq(S) : \A j \in DOMAIN s : s[j] \in S
      OBVIOUS
    <2>4. anchors[Max(records)] \in [node : Pointers, file : Files, line : Nat]
      BY <2>2, <2>3, Zenon DEF AreAnchors
    <2> QED BY <1>1, <1>3, <2>4 DEF PositionFor, IsPosition
  <1> QED BY <1>2, <1>3

LEMMA DiagnosticsHavePositions ==
    ASSUME NEW u, Typed(u)
    PROVE  IsPosition(SelectedDiag(u))
  <1>1. CASE u.doc.diags = <<>>
    BY <1>1 DEF SelectedDiag, IsPosition
  <1>2. CASE u.doc.diags # <<>>
    <2>1. u.doc.diags \in Seq([file : Files \union {NoFile}, line : Nat])
      BY DEF Typed, IsDocument
    <2>2. Len(u.doc.diags) \in Nat \ {0} /\ DOMAIN u.doc.diags = 1..Len(u.doc.diags)
      BY <1>2, <2>1
    <2>3. u.diag \in DOMAIN u.doc.diags
      <3>1. PICK n \in Nat \ {0} : n = Len(u.doc.diags)
        BY <2>2
      <3>2. Max({1, n}) = n
        BY OneAtLeast
      <3> QED BY <2>2, <3>1, <3>2 DEF Typed
    <2>4. \A S : \A s \in Seq(S) : \A j \in DOMAIN s : s[j] \in S
      OBVIOUS
    <2>5. u.doc.diags[u.diag] \in [file : Files \union {NoFile}, line : Nat]
      BY <2>1, <2>3, <2>4, Zenon
    <2> QED BY <1>2, <2>5 DEF SelectedDiag, IsPosition
  <1> QED BY <1>1, <1>2

-----------------------------------------------------------------------------
(* The followers.                                                           *)

LEMMA PositionOfLine ==
    ASSUME NEW u, Typed(u)
    PROVE  IsPosition(SpecSource(u))
  BY AnchorsHavePositions DEF SpecSource, Typed

\* No anchor is of no file.
LEMMA NobodysAnchors ==
    ASSUME NEW u, Typed(u), NEW line
    PROVE  SpecLineFor(u, NoFile, line) = 0
  <1>1. AnchorLines(u.anchors, NoFile) = {}
    <2>1. \A S : \A s \in Seq(S) : \A j \in DOMAIN s : s[j] \in S
      OBVIOUS
    <2>2. \A i \in DOMAIN u.anchors : u.anchors[i] \in [node : Pointers, file : Files, line : Nat]
      BY <2>1, Zenon DEF Typed, AreAnchors
    <2> QED BY <2>2, NavigationAssumption DEF AnchorLines
  <1>2. EnclosingAnchor(u.anchors, NoFile, line) = Nowhere
    BY <1>1 DEF EnclosingAnchor
  <1>3. IsRender(u.body)
    BY DEF Typed
  <1> QED BY <1>2, <1>3, NowhereIsNoNode DEF SpecLineFor, LineForPointer

LEMMA TargetIsLine ==
    ASSUME NEW u, Typed(u)
    PROVE  ValidationTarget(u) \in Int
  <1>1. \A node : LineForPointer(u.body, node) \in Int
    BY LineOfNode, RenderLines DEF Typed
  <1> QED BY <1>1 DEF ValidationTarget

LEMMA SightIsLeft ==
    ASSUME NEW u, NEW v, v.left = u.left, v.editing = u.editing, v.file = u.file
    PROVE  HidesNothing(u, v)
  BY DEF HidesNothing, SourceIsHidden

\* The driver is where it was, and the followers are with it.
LEMMA SyncKeeps ==
    ASSUME NEW u, Current(u)
    PROVE  LET v == SyncFollowIfActive(u)
           IN  /\ Current(v) /\ Mirrors(v) /\ v.body = u.body /\ HidesNothing(u, v)
               /\ v.follow \notin Driven => v.cursor = u.cursor
  <1> DEFINE v == SyncFollowIfActive(u)
  <1>0. Typed(u) /\ DOMAIN u = FieldNames /\ HidesNothing(u, u)
    BY DEF Current, Typed, HidesNothing
  <1>1. CASE ~IsDriven(u)
    <2>1. v = [u EXCEPT !.follow = "off"]
      BY <1>1 DEF SyncFollowIfActive, ExitFollow
    <2>2. PICK w : w = [u EXCEPT !.follow = "off"]
      OBVIOUS
    <2>3. SameBut(u, w, {"follow"}) /\ w.follow = "off"
      BY <1>0, <2>2 DEF SameBut, FieldNames
    <2>4. Current(w)
      BY <1>0, <2>2 DEF Current, Typed, Guttered, Walks, FieldNames
    <2>5. HidesNothing(u, w)
      BY <2>3, SightIsLeft DEF SameBut, FieldNames
    <2> QED BY <2>1, <2>2, <2>3, <2>4, <2>5 DEF SameBut, Mirrors, FieldNames
  <1>2. CASE IsDriven(u) /\ u.follow = "off"
    <2>1. v = u
      BY <1>2, Zenon DEF SyncFollowIfActive
    <2> QED BY <1>2, <1>0, <2>1 DEF Mirrors
  <1>3. CASE IsDriven(u) /\ u.follow = "spec"
    <2>1. v = DriveSpecToSource(u)
      BY <1>3, Zenon DEF SyncFollowIfActive
    <2>2. CASE SpecSource(u).file = NoFile
      <3>1. v = u
        BY <2>1, <2>2 DEF DriveSpecToSource
      <3> QED BY <1>3, <1>0, <2>2, <3>1 DEF Mirrors, Shows
    <2>3. CASE SpecSource(u).file # NoFile
      <3>1. PICK w : w = ShowSource(u, SpecSource(u))
        OBVIOUS
      <3>2. v = w
        BY <2>1, <2>3, <3>1 DEF DriveSpecToSource
      <3>3. Current(w) /\ SameBut(u, w, SourceFields) /\ Shows(w, SpecSource(u)) /\ HidesNothing(u, w)
        BY <1>0, <2>3, <3>1, PositionOfLine, ShowKeeps
      <3>4. w.body = u.body /\ w.cursor = u.cursor /\ w.anchors = u.anchors /\ w.follow = "spec"
        BY <1>3, <3>3 DEF SameBut, SourceFields, FieldNames
      <3>5. SpecSource(w) = SpecSource(u)
        BY <3>4 DEF SpecSource
      <3> QED BY <3>2, <3>3, <3>4, <3>5 DEF Mirrors
    <2> QED BY <2>2, <2>3
  <1>4. CASE IsDriven(u) /\ u.follow = "source"
    <2>1. v = LinkSourceToSpec(u)
      BY <1>4, Zenon DEF SyncFollowIfActive
    <2>2. PICK node : node = EnclosingAnchor(u.anchors, u.file, CurrentLine(u))
      OBVIOUS
    <2>3. PICK w : w = DriveTo(u, LineForPointer(u.body, node))
      OBVIOUS
    <2>4. v = w
      BY <2>1, <2>2, <2>3 DEF LinkSourceToSpec, SpecLineFor
    <2>5. Current(w) /\ SameBut(u, w, {"cursor"}) /\ ShowsLine(w, LineForPointer(u.body, node))
      BY <2>3, DriveKeeps
    <2>6. /\ w.body = u.body /\ w.anchors = u.anchors /\ w.file = u.file /\ w.follow = "source"
          /\ w.editing = u.editing /\ w.row = u.row /\ w.nav = u.nav
      BY <1>4, <2>5 DEF SameBut, FieldNames
    <2>7. SpecLineFor(w, w.file, CurrentLine(w)) = LineForPointer(u.body, node)
      BY <2>2, <2>6 DEF SpecLineFor, CurrentLine
    <2>8. HidesNothing(u, w)
      BY <2>5, SightIsLeft DEF SameBut, FieldNames
    <2> QED BY <2>4, <2>5, <2>6, <2>7, <2>8 DEF Mirrors, Driven
  <1>5. CASE IsDriven(u) /\ u.follow = "diag"
    <2>1. v = DriveDiagFollowers(u)
      BY <1>5, Zenon DEF SyncFollowIfActive
    <2>2. PICK d : d = SelectedDiag(u)
      OBVIOUS
    <2>3. IsPosition(d)
      BY <1>0, <2>2, DiagnosticsHavePositions
    <2>4. CASE d.file = NoFile
      <3>1. v = u
        BY <2>1, <2>2, <2>4 DEF DriveDiagFollowers
      <3>2. SpecLineFor(u, d.file, d.line) = 0
        BY <1>0, <2>4, NobodysAnchors
      <3> QED BY <1>5, <1>0, <2>2, <2>4, <3>1, <3>2 DEF Mirrors, Shows, ShowsLine, Driven
    <2>5. CASE d.file # NoFile
      <3>1. PICK shown : shown = ShowSource(u, d)
        OBVIOUS
      <3>2. Current(shown) /\ SameBut(u, shown, SourceFields) /\ Shows(shown, d) /\ HidesNothing(u, shown)
        BY <2>3, <2>5, <3>1, ShowKeeps
      <3>3. PICK node : node = EnclosingAnchor(shown.anchors, d.file, d.line)
        OBVIOUS
      <3>4. PICK w : w = DriveTo(shown, LineForPointer(shown.body, node))
        OBVIOUS
      <3>5. v = w
        BY <2>1, <2>2, <2>5, <3>1, <3>3, <3>4 DEF DriveDiagFollowers, SpecLineFor
      <3>6. Current(w) /\ SameBut(shown, w, {"cursor"}) /\ ShowsLine(w, LineForPointer(shown.body, node))
        BY <3>2, <3>4, DriveKeeps
      <3>7. /\ w.body = u.body /\ w.body = shown.body /\ w.anchors = shown.anchors /\ w.follow = "diag"
            /\ w.doc = u.doc /\ w.diag = u.diag /\ w.file = shown.file /\ w.nav = shown.nav /\ w.rows = shown.rows
            /\ w.left = shown.left /\ w.editing = shown.editing
        BY <1>5, <3>2, <3>6 DEF SameBut, SourceFields, FieldNames
      <3>8. SelectedDiag(w) = d /\ SpecLineFor(w, d.file, d.line) = LineForPointer(shown.body, node)
        BY <2>2, <3>3, <3>7 DEF SelectedDiag, SpecLineFor
      <3>9. Shows(w, d)
        BY <3>2, <3>7 DEF Shows
      <3>10. HidesNothing(u, w)
        BY <3>2, <3>7 DEF HidesNothing, SourceIsHidden
      <3> QED BY <3>5, <3>6, <3>7, <3>8, <3>9, <3>10 DEF Mirrors, Driven
    <2> QED BY <2>4, <2>5
  <1>6. CASE IsDriven(u) /\ u.follow = "validation"
    <2>1. v = DriveTo(u, ValidationTarget(u))
      BY <1>6, Zenon DEF SyncFollowIfActive
    <2>2. PICK w : w = DriveTo(u, ValidationTarget(u))
      OBVIOUS
    <2>3. Current(w) /\ SameBut(u, w, {"cursor"})
      <3>1. CASE ValidationTarget(u) = 0
        BY <2>2, <3>1 DEF DriveTo, SameBut
      <3>2. CASE ValidationTarget(u) # 0
        BY <1>0, <2>2, <3>2, TargetIsLine, JumpKeeps DEF DriveTo
      <3> QED BY <3>1, <3>2
    <2>4. w.body = u.body /\ w.follow = "validation"
      BY <1>6, <2>3 DEF SameBut, FieldNames
    <2>5. HidesNothing(u, w)
      BY <2>3, SightIsLeft DEF SameBut, FieldNames
    <2> QED BY <2>1, <2>2, <2>3, <2>4, <2>5 DEF Mirrors, Driven
  <1>7. u.follow \in {"off", "spec", "source", "diag", "validation"}
    BY <1>0 DEF Typed, Driven
  <1> HIDE DEF v
  <1> QED BY <1>1, <1>2, <1>3, <1>4, <1>5, <1>6, <1>7 DEF v

-----------------------------------------------------------------------------
(* A render takes the place of another.                                     *)

RenderFields == {"body", "refs", "cursor", "dots", "arrows", "marks"}

LEMMA NothingIsRendered == IsRender(<<>>)
  <1>1. <<>> \in Seq(RenderedLines) /\ DOMAIN <<>> = {}
    OBVIOUS
  <1> QED BY <1>1 DEF IsRender

LEMMA BodyIsRendered ==
    ASSUME NEW u, Typed(u)
    PROVE  IsRender(Body(u))
  BY NothingIsRendered DEF Typed, IsDocument, Body

\* The cursor goes with its node.
LEMMA RestoreKeeps ==
    ASSUME NEW u, Typed(u), NEW node \in Pointers
    PROVE  LET v == RestoreCursor(u, node)
               kept == Nearest(node, Rendered(u.body))
           IN  /\ Typed(v) /\ SameBut(u, v, {"cursor"})
               /\ kept # Nowhere => v.cursor = LineForPointer(u.body, kept)
  <1>0. DOMAIN u = FieldNames /\ IsRender(u.body)
    BY DEF Typed
  <1>1. PICK kept : kept = Nearest(node, Rendered(u.body))
    OBVIOUS
  <1>2. CASE kept = Nowhere
    BY <1>1, <1>2 DEF RestoreCursor, SameBut
  <1>3. CASE kept # Nowhere
    <2>1. PICK line : line = LineForPointer(u.body, kept)
      OBVIOUS
    <2>2. kept \in Rendered(u.body)
      BY <1>1, <1>3, NearestIsKnown
    <2>3. line \in DOMAIN u.body
      BY <1>0, <2>1, <2>2, LineOfNode DEF LineForPointer, Rendered, Declares
    <2>4. Clamp(line, Lines(u.body)) = line /\ line \in 1..Lines(u.body)
      <3>1. PICK last \in Nat \ {0} : last = Lines(u.body)
        BY <1>0, RenderLines
      <3>2. line \in 1..last /\ line \in Int
        BY <1>0, <2>3, <3>1, RenderLines
      <3> QED BY <3>1, <3>2, ClampIn
    <2>5. PICK w : w = [u EXCEPT !.cursor = line]
      OBVIOUS
    <2>6. RestoreCursor(u, node) = w
      BY <1>1, <1>3, <2>1, <2>4, <2>5 DEF RestoreCursor, JumpTo
    <2>7. Typed(w)
      BY <1>0, <2>4, <2>5 DEF Typed, FieldNames
    <2>8. SameBut(u, w, {"cursor"}) /\ w.cursor = line
      BY <1>0, <2>5 DEF SameBut, FieldNames
    <2> QED BY <1>1, <2>1, <2>6, <2>7, <2>8
  <1> QED BY <1>2, <1>3

LEMMA RenderKeeps ==
    ASSUME NEW u, Typed(u)
    PROVE  LET v == RefreshSpec(u)
               kept == KeptNode(u, Body(u))
           IN  /\ Current(v) /\ SameBut(u, v, RenderFields) /\ v.body = Body(u)
               /\ kept # Nowhere => v.cursor = LineForPointer(Body(u), kept)
  <1>0. DOMAIN u = FieldNames /\ IsRender(u.body)
    BY DEF Typed
  <1>1. PICK body : body = Body(u)
    OBVIOUS
  <1>2. IsRender(body)
    BY <1>1, BodyIsRendered
  <1>3. PICK node \in Pointers : node = PointerAt(u.body, u.cursor)
    BY <1>0, PointerIsPointer
  <1>4. PICK at : at = Clamp(u.cursor, Lines(body))
    OBVIOUS
  <1>5. at \in 1..Lines(body)
    <2>1. u.cursor \in Int
      BY <1>0, RenderLines DEF Typed
    <2> QED BY <1>2, <1>4, <2>1, RenderLines, ClampIn
  <1>6. PICK w : w = [u EXCEPT !.body = body, !.refs = NoCycle, !.cursor = at]
    OBVIOUS
  <1>7. ShowBody(u, body) = w
    BY <1>0, <1>4, <1>6 DEF ShowBody, FieldNames
  <1>8. Typed(w)
    BY <1>0, <1>2, <1>5, <1>6 DEF Typed, FieldNames
  <1>9. SameBut(u, w, RenderFields) /\ w.body = body /\ w.refs = NoCycle
    BY <1>0, <1>6 DEF SameBut, RenderFields, FieldNames
  <1>10. PICK x : x = RestoreCursor(w, node)
    OBVIOUS
  <1>11. /\ Typed(x) /\ SameBut(w, x, {"cursor"})
         /\ Nearest(node, Rendered(body)) # Nowhere => x.cursor = LineForPointer(body, Nearest(node, Rendered(body)))
    BY <1>8, <1>9, <1>10, RestoreKeeps
  <1>12. DOMAIN x = FieldNames /\ x.body = body /\ x.refs = NoCycle /\ SameBut(u, x, RenderFields)
    BY <1>0, <1>9, <1>11 DEF SameBut, RenderFields, FieldNames
  <1>13. PICK v : v = RebuildGutters(x)
    OBVIOUS
  <1>14. Typed(v)
    BY <1>11, <1>12, <1>13 DEF RebuildGutters, Typed, FieldNames
  <1>15. Guttered(v)
    BY <1>12, <1>13 DEF RebuildGutters, Guttered, FieldNames
  <1>16. SameBut(u, v, RenderFields) /\ v.body = body /\ v.refs = NoCycle /\ v.cursor = x.cursor
    BY <1>12, <1>13 DEF RebuildGutters, SameBut, RenderFields, FieldNames
  <1>17. Walks(v)
    BY <1>16 DEF Walks, NoCycle
  <1>18. RefreshSpec(u) = v
    BY <1>1, <1>3, <1>7, <1>10, <1>13 DEF RefreshSpec
  <1> QED BY <1>1, <1>3, <1>11, <1>14, <1>15, <1>16, <1>17, <1>18 DEF Current, KeptNode

\* A render moves nothing of the source pane.
SameSight(u, v) == v.left = u.left /\ v.editing = u.editing /\ v.file = u.file

LEMMA RenderInSight ==
    ASSUME NEW u, NEW w, Typed(w), SameSight(u, w)
    PROVE  HidesNothing(u, RefreshSpec(w))
  <1>1. SameBut(w, RefreshSpec(w), RenderFields)
    BY RenderKeeps
  <1> QED BY <1>1, SightIsLeft DEF SameSight, SameBut, RenderFields, FieldNames

\* A conversion is asked for: nothing that is shown changes.
LEMMA EnsureKeeps ==
    ASSUME NEW u, Typed(u)
    PROVE  LET v == EnsureYAML(u)
           IN  Typed(v) /\ SameBut(u, v, {"yaml", "converting"}) /\ (Current(u) => Current(v)) /\ (Mirrors(u) => Mirrors(v))
  <1>0. DOMAIN u = FieldNames
    BY DEF Typed
  <1>1. CASE EnsureYAML(u) = u
    BY <1>1 DEF SameBut
  <1>2. CASE EnsureYAML(u) # u
    <2>1. PICK v : v = [u EXCEPT !.yaml = "pending", !.converting = u.converting \union {u.gen}]
      OBVIOUS
    <2>2. EnsureYAML(u) = v
      BY <1>0, <1>2, <2>1 DEF EnsureYAML, FieldNames
    <2>3. Typed(v)
      BY <1>0, <2>1 DEF Typed, FieldNames
    <2>4. SameBut(u, v, {"yaml", "converting"})
      BY <1>0, <2>1 DEF SameBut, FieldNames
    <2>5. Current(u) => Current(v)
      BY <2>3, <2>4 DEF SameBut, Current, Guttered, Walks, FieldNames
    <2>6. Mirrors(u) => Mirrors(v)
      BY <2>4 DEF SameBut, Mirrors, Shows, ShowsLine, SpecSource, SpecLineFor, SelectedDiag, CurrentLine, FieldNames
    <2> QED BY <2>2, <2>3, <2>4, <2>5, <2>6
  <1> QED BY <1>1, <1>2

\* What a step of the user or of a command leaves true.
Kept(u, v) == Current(v) /\ Mirrors(v) /\ KeepsNode(u, v) /\ StaysInSight(u, v)

\* The followers are told after the render.
LEMMA RenderIsMirrored ==
    ASSUME NEW u, NEW w, Typed(w), w.body = u.body, w.cursor = u.cursor,
           NEW x, Current(x), x.body = RefreshSpec(w).body, x.cursor = RefreshSpec(w).cursor,
           HidesNothing(u, x)
    PROVE  Kept(u, SyncFollowIfActive(x))
  <1>1. PICK kept : kept = KeptNode(w, Body(w))
    OBVIOUS
  <1>2. x.body = Body(w) /\ (kept # Nowhere => x.cursor = LineForPointer(Body(w), kept))
    BY <1>1, RenderKeeps
  <1>3. PICK v : v = SyncFollowIfActive(x)
    OBVIOUS
  <1>4. /\ Current(v) /\ Mirrors(v) /\ v.body = x.body /\ (v.follow \notin Driven => v.cursor = x.cursor)
        /\ HidesNothing(x, v)
    BY <1>3, SyncKeeps
  <1>5. KeepsNode(u, v)
    BY <1>1, <1>2, <1>4 DEF KeepsNode, KeptNode
  <1>6. StaysInSight(u, v)
    BY <1>4 DEF HidesNothing, StaysInSight
  <1> QED BY <1>3, <1>4, <1>5, <1>6 DEF Kept

-----------------------------------------------------------------------------
(* The handlers.                                                            *)

\* v is current, shows the render of u, and hides no more of the source.
Keeps(u, v) == Current(v) /\ v.body = u.body /\ HidesNothing(u, v)

LEMMA SameKeeps ==
    ASSUME NEW u, Current(u)
    PROVE  Keeps(u, u)
  BY DEF Keeps, HidesNothing

LEMMA KeepsTwice ==
    ASSUME NEW u, NEW v, NEW w, Keeps(u, v), Keeps(v, w)
    PROVE  Keeps(u, w)
  BY DEF Keeps, HidesNothing

LEMMA FocusKeeps ==
    ASSUME NEW u, Current(u), NEW pane \in Panes
    PROVE  Keeps(u, [u EXCEPT !.focused = pane])
  BY DEF Keeps, HidesNothing, SourceIsHidden, Current, Typed, Guttered, Walks, FieldNames

LEMMA DropCycleKeeps ==
    ASSUME NEW u, Current(u)
    PROVE  Keeps(u, [u EXCEPT !.refs = NoCycle])
  BY DEF Keeps, HidesNothing, SourceIsHidden, Current, Typed, Guttered, Walks, FieldNames, NoCycle

LEMMA ExitKeeps ==
    ASSUME NEW u, Current(u)
    PROVE  Keeps(u, ExitFollow(u))
  BY DEF Keeps, HidesNothing, SourceIsHidden, ExitFollow, Current, Typed, Guttered, Walks, FieldNames

LEMMA ToggleKeeps ==
    ASSUME NEW u, Current(u), NEW mode \in {"spec"} \union Driven
    PROVE  Keeps(u, ToggleFollow(u, mode))
  <1>1. CASE u.follow = mode
    BY <1>1, ExitKeeps DEF ToggleFollow
  <1>2. CASE u.follow # mode
    <2>1. PICK w : w = [u EXCEPT !.refs = NoCycle, !.follow = mode]
      OBVIOUS
    <2>2. Keeps(u, w)
      BY <2>1 DEF Keeps, HidesNothing, SourceIsHidden, Current, Typed, Guttered, Walks, FieldNames, NoCycle
    <2>3. Keeps(w, SyncFollowIfActive(w))
      BY <2>2, SyncKeeps DEF Keeps
    <2> QED BY <1>2, <2>1, <2>2, <2>3, KeepsTwice DEF ToggleFollow
  <1> QED BY <1>1, <1>2

LEMMA JumpKeepsRender ==
    ASSUME NEW u, Current(u), NEW line \in Int
    PROVE  Keeps(u, JumpTo(u, line))
  <1>1. Current(JumpTo(u, line)) /\ SameBut(u, JumpTo(u, line), {"cursor"})
    BY JumpKeeps
  <1> QED BY <1>1, SightIsLeft DEF Keeps, SameBut, FieldNames

LEMMA GotoKeepsRender ==
    ASSUME NEW u, Current(u), NEW line \in Int
    PROVE  Keeps(u, GotoLine(u, line))
  <1>1. Current(GotoLine(u, line)) /\ SameBut(u, GotoLine(u, line), {"nav"})
    BY GotoKeeps
  <1> QED BY <1>1, SightIsLeft DEF Keeps, SameBut, FieldNames

LEMMA LoadKeepsRender ==
    ASSUME NEW u, Current(u), NEW file \in Files
    PROVE  Keeps(u, LoadFileQuietly(u, file))
  BY LoadKeeps DEF Keeps, HidesNothing, SameBut, SourceFields, FieldNames

LEMMA DefinitionKeeps ==
    ASSUME NEW u, Current(u)
    PROVE  Keeps(u, GotoDefinition(u))
  <1>1. PICK line : line = IF u.body = <<>> THEN 0 ELSE LineForPointer(u.body, u.body[u.cursor].ref)
    OBVIOUS
  <1>2. line \in Int
    BY <1>1, LineOfNode, RenderLines DEF Current, Typed
  <1>3. CASE line = 0
    BY <1>1, <1>3, SameKeeps DEF GotoDefinition
  <1>4. CASE line # 0
    <2>1. PICK w : w = [u EXCEPT !.refs = NoCycle]
      OBVIOUS
    <2>2. Keeps(u, w)
      BY <2>1, DropCycleKeeps
    <2>3. Keeps(w, JumpTo(w, line))
      BY <1>2, <2>2, JumpKeepsRender DEF Keeps
    <2>4. GotoDefinition(u) = JumpTo(w, line)
      BY <1>1, <1>4, <2>1 DEF GotoDefinition
    <2> QED BY <2>2, <2>3, <2>4, KeepsTwice
  <1> QED BY <1>3, <1>4

LEMMA OpenKeeps ==
    ASSUME NEW u, Current(u), NEW file \in Files
    PROVE  Keeps(u, OpenFile(u, file))
  <1>1. PICK w : w = LoadFileQuietly(u, file)
    OBVIOUS
  <1>2. Keeps(u, w)
    BY <1>1, LoadKeepsRender
  <1>3. Keeps(w, [w EXCEPT !.focused = "tree"])
    BY <1>2, FocusKeeps DEF Keeps, Panes
  <1> QED BY <1>1, <1>2, <1>3, KeepsTwice DEF OpenFile

LEMMA JumpToSourceKeeps ==
    ASSUME NEW u, Current(u)
    PROVE  Keeps(u, JumpDiagToSource(u))
  <1>1. PICK d : d = SelectedDiag(u)
    OBVIOUS
  <1>2. IsPosition(d)
    BY <1>1, DiagnosticsHavePositions DEF Current
  <1>3. CASE d.file = NoFile
    BY <1>1, <1>3, SameKeeps DEF JumpDiagToSource
  <1>4. CASE d.file # NoFile
    <2>1. d.file \in Files /\ d.line \in Int
      BY <1>2, <1>4 DEF IsPosition
    <2>2. PICK w : w = LoadFileQuietly(u, d.file)
      OBVIOUS
    <2>3. Keeps(u, w)
      BY <2>1, <2>2, LoadKeepsRender
    <2>4. PICK x : x = GotoLine(w, d.line)
      OBVIOUS
    <2>5. Keeps(w, x)
      BY <2>1, <2>3, <2>4, GotoKeepsRender DEF Keeps
    <2>6. Keeps(x, [x EXCEPT !.focused = "tree"])
      BY <2>5, FocusKeeps DEF Keeps, Panes
    <2>7. JumpDiagToSource(u) = [x EXCEPT !.focused = "tree"]
      BY <1>1, <1>4, <2>2, <2>4 DEF JumpDiagToSource
    <2> QED BY <2>3, <2>5, <2>6, <2>7, KeepsTwice
  <1> QED BY <1>3, <1>4

LEMMA JumpToSpecKeeps ==
    ASSUME NEW u, Current(u), NEW line \in Int
    PROVE  Keeps(u, [JumpTo(u, line) EXCEPT !.focused = "spec"])
  <1>1. PICK w : w = JumpTo(u, line)
    OBVIOUS
  <1>2. Keeps(u, w)
    BY <1>1, JumpKeepsRender
  <1>3. Keeps(w, [w EXCEPT !.focused = "spec"])
    BY <1>2, FocusKeeps DEF Keeps, Panes
  <1> QED BY <1>1, <1>2, <1>3, KeepsTwice

LEMMA JumpValidationKeeps ==
    ASSUME NEW u, Current(u)
    PROVE  Keeps(u, JumpValidationToSpec(u))
  <1>1. ValidationTarget(u) \in Int
    BY TargetIsLine DEF Current
  <1>2. Keeps(u, u)
    BY SameKeeps
  <1> QED BY <1>1, <1>2, JumpToSpecKeeps DEF JumpValidationToSpec

LEMMA LocateKeeps ==
    ASSUME NEW u, Current(u), NEW file
    PROVE  Keeps(u, LocateInSpec(u, file))
  <1>1. LineForPointer(u.body, FirstAnchor(u.anchors, file)) \in Int
    BY LineOfNode, RenderLines DEF Current, Typed
  <1>2. Keeps(u, u)
    BY SameKeeps
  <1> QED BY <1>1, <1>2, JumpToSpecKeeps DEF LocateInSpec

LEMMA SiteKeeps ==
    ASSUME NEW u, Current(u), NEW anchor, NEW at,
           at \in 1..Cardinality(RefsToPointer(u.body, anchor))
    PROVE  Keeps(u, AtSite(u, [anchor |-> anchor, sites |-> RefsToPointer(u.body, anchor), at |-> at]))
  <1>1. PICK refs : refs = [anchor |-> anchor, sites |-> RefsToPointer(u.body, anchor), at |-> at]
    OBVIOUS
  <1>2. PICK w : w = [u EXCEPT !.refs = refs]
    OBVIOUS
  <1>3. Keeps(u, w)
    BY <1>1, <1>2 DEF Keeps, HidesNothing, SourceIsHidden, Current, Typed, Guttered, Walks, FieldNames
  <1>4. PICK sites : sites = RefsToPointer(u.body, anchor)
    OBVIOUS
  <1>5. sites \in SUBSET (1..Len(u.body)) /\ Len(u.body) \in Nat
    BY <1>4, ReferencesAreLines, RenderLines DEF Current, Typed
  <1>6. Nth(sites, at) \in sites
    BY <1>4, <1>5, NthIsThere
  <1>7. Nth(sites, at) \in Int
    <2>1. \A i \in sites : i \in Int
      BY <1>5
    <2> QED BY <1>6, <2>1
  <1>8. Keeps(w, JumpTo(w, Nth(sites, at)))
    BY <1>3, <1>7, JumpKeepsRender DEF Keeps
  <1> QED BY <1>1, <1>2, <1>3, <1>4, <1>8, KeepsTwice DEF AtSite

LEMMA CycleKeeps ==
    ASSUME NEW u, Current(u), NEW dir
    PROVE  Keeps(u, CycleRefs(u, dir))
  <1>0. IsRender(u.body)
    BY DEF Current, Typed
  <1>1. PICK near : near = RefsNear(u.body, PointerAt(u.body, u.cursor))
    OBVIOUS
  <1>2. PICK sites : sites = RefsToPointer(u.body, near)
    OBVIOUS
  <1>3. CASE ParkedOn(u.refs, u.cursor)
    <2>1. u.refs # NoCycle
      BY <1>3 DEF ParkedOn, NoCycle
    <2>2. /\ DOMAIN u.refs = {"anchor", "sites", "at"} /\ u.refs.sites = RefsToPointer(u.body, u.refs.anchor)
          /\ u.refs.at \in 1..Cardinality(u.refs.sites)
      BY <2>1 DEF Current, Walks
    <2>3. PICK count \in Nat \ {0} : count = Cardinality(u.refs.sites)
      BY <1>0, <2>2, ReferencesAreLines
    <2>4. PICK at : at = Wrap(u.refs.at, dir, count)
      OBVIOUS
    <2>5. at \in 1..count
      BY <2>2, <2>3, <2>4, WrapIn
    <2>6. [u.refs EXCEPT !.at = at] = [anchor |-> u.refs.anchor, sites |-> RefsToPointer(u.body, u.refs.anchor), at |-> at]
      BY <2>2
    <2>7. CycleRefs(u, dir) = AtSite(u, [u.refs EXCEPT !.at = at])
      BY <1>3, <2>2, <2>3, <2>4 DEF CycleRefs
    <2> QED BY <2>2, <2>3, <2>5, <2>6, <2>7, SiteKeeps
  <1>4. CASE ~ParkedOn(u.refs, u.cursor) /\ near = Nowhere
    BY <1>1, <1>4, DropCycleKeeps DEF CycleRefs
  <1>5. CASE ~ParkedOn(u.refs, u.cursor) /\ near # Nowhere
    <2>1. PICK node \in Pointers : node = PointerAt(u.body, u.cursor)
      BY <1>0, PointerIsPointer
    <2>2. sites # {}
      BY <1>0, <1>1, <1>2, <1>5, <2>1, NearIsReferred
    <2>3. PICK count \in Nat \ {0} : count = Cardinality(sites)
      BY <1>0, <1>2, <2>2, ReferencesAreLines
    <2>4. PICK at : at = IF dir = "next" THEN 1 ELSE count
      OBVIOUS
    <2>5. at \in 1..count
      BY <2>3, <2>4
    <2>6. CycleRefs(u, dir) = AtSite(u, [anchor |-> near, sites |-> sites, at |-> at])
      BY <1>1, <1>2, <1>5, <2>3, <2>4 DEF CycleRefs
    <2> QED BY <1>2, <2>3, <2>5, <2>6, SiteKeeps
  <1> QED BY <1>3, <1>4, <1>5


LEMMA ReloadKeeps ==
    ASSUME NEW u, Current(u), u.file # NoFile
    PROVE  Keeps(u, ReloadFile(u))
  <1>1. u.file \in Files /\ CurrentLine(u) \in Int
    BY DEF Current, Typed, CurrentLine
  <1>2. PICK w : w = LoadFileQuietly(u, u.file)
    OBVIOUS
  <1>3. Keeps(u, w)
    BY <1>1, <1>2, LoadKeepsRender
  <1>4. Keeps(w, GotoLine(w, CurrentLine(u)))
    BY <1>1, <1>3, GotoKeepsRender DEF Keeps
  <1> QED BY <1>2, <1>3, <1>4, KeepsTwice DEF ReloadFile

LEMMA RequestKeeps ==
    ASSUME NEW u, Current(u)
    PROVE  Keeps(u, RequestReload(u))
  <1>1. CASE u.file = NoFile
    BY <1>1, SameKeeps DEF RequestReload
  <1>2. CASE u.file # NoFile /\ u.dirty
    <2>1. PICK w : w = [u EXCEPT !.overlay = "confirm"]
      OBVIOUS
    <2>2. Keeps(u, w)
      <3>1. u.file # NoFile
        BY <1>2
      <3> QED BY <2>1, <3>1 DEF Keeps, HidesNothing, SourceIsHidden, Current, Typed, Guttered, Walks, FieldNames
    <2> QED BY <1>2, <2>1, <2>2 DEF RequestReload
  <1>3. CASE u.file # NoFile /\ ~u.dirty
    BY <1>3, ReloadKeeps DEF RequestReload
  <1> QED BY <1>1, <1>2, <1>3

LEMMA ScanKeeps ==
    ASSUME NEW u, Current(u)
    PROVE  Keeps(u, StartScan(u))
  <1>1. CASE StartScan(u) = u
    BY <1>1, SameKeeps
  <1>2. CASE StartScan(u) # u
    <2>1. PICK w : w = [u EXCEPT !.started = u.started + 1, !.scanning = u.scanning + 1]
      OBVIOUS
    <2>2. StartScan(u) = w
      BY <1>2, <2>1 DEF StartScan, Current, Typed, FieldNames
    <2> QED BY <2>1, <2>2 DEF Keeps, HidesNothing, SourceIsHidden, Current, Typed, Guttered, Walks, FieldNames
  <1> QED BY <1>1, <1>2

LEMMA ValidationKeeps ==
    ASSUME NEW u, Current(u)
    PROVE  Keeps(u, StartValidation(u))
  <1>1. CASE u.doc.json = <<>>
    BY <1>1, SameKeeps DEF StartValidation
  <1>2. CASE u.doc.json # <<>>
    <2>1. u.doc.findings \in Seq(Pointers)
      BY DEF Current, Typed, IsDocument
    <2>2. PICK w : w = [u EXCEPT !.checking = u.checking \union {u.doc.findings}]
      OBVIOUS
    <2>3. StartValidation(u) = w
      BY <1>2, <2>2 DEF StartValidation, Current, Typed, FieldNames
    <2> QED BY <2>1, <2>2, <2>3 DEF Keeps, HidesNothing, SourceIsHidden, Current, Typed, Guttered, Walks, FieldNames
  <1> QED BY <1>1, <1>2

LEMMA SourceKeeps ==
    ASSUME NEW u, Current(u)
    PROVE  Keeps(u, RefreshSource(u)) /\ RefreshSource(u).cursor = u.cursor
  <1>1. CASE u.file = NoFile
    BY <1>1, SameKeeps DEF RefreshSource
  <1>2. CASE u.file # NoFile
    <2>1. PICK w : w = [u EXCEPT !.marks = AnchorLines(u.anchors, u.file)]
      OBVIOUS
    <2>2. Keeps(u, w) /\ w.cursor = u.cursor
      BY <2>1 DEF Keeps, HidesNothing, SourceIsHidden, Current, Typed, Guttered, Walks, FieldNames
    <2> QED BY <1>2, <2>1, <2>2 DEF RefreshSource
  <1> QED BY <1>1, <1>2

LEMMA TurnKeeps ==
    ASSUME NEW u, Current(u), NEW tab \in {"scan", "validation"}
    PROVE  Keeps(u, [u EXCEPT !.tab = tab])
  BY DEF Keeps, HidesNothing, SourceIsHidden, Current, Typed, Guttered, Walks, FieldNames

LEMMA TabKeeps ==
    ASSUME NEW u, Current(u)
    PROVE  Keeps(u, ToggleDiagTab(u))
  <1>1. CASE ~u.verdict.ran
    BY <1>1, SameKeeps DEF ToggleDiagTab
  <1>2. CASE u.verdict.ran
    <2>1. PICK w : w = ExitFollow(u)
      OBVIOUS
    <2>2. Keeps(u, w)
      BY <2>1, ExitKeeps
    <2>3. PICK tab \in {"scan", "validation"} : tab = IF w.tab = "scan" THEN "validation" ELSE "scan"
      OBVIOUS
    <2>4. PICK x : x = [w EXCEPT !.tab = tab]
      OBVIOUS
    <2>5. Keeps(w, x)
      <3>1. Current(w)
        BY <2>2 DEF Keeps
      <3> QED BY <2>4, <3>1, TurnKeeps
    <2>6. DOMAIN w = FieldNames
      BY <2>2 DEF Keeps, Current, Typed
    <2>7. ToggleDiagTab(u) = x
      BY <1>2, <2>1, <2>3, <2>4, <2>6 DEF ToggleDiagTab, FieldNames
    <2> QED BY <2>2, <2>5, <2>7, KeepsTwice
  <1> QED BY <1>1, <1>2

LEMMA OptionsKeep ==
    ASSUME NEW u, Current(u)
    PROVE  Keeps(u, ApplyOptions(u))
  <1>1. PICK w : w = [u EXCEPT !.overlay = "none", !.toggled = FALSE]
    OBVIOUS
  <1>2. Keeps(u, w)
    BY <1>1 DEF Keeps, HidesNothing, SourceIsHidden, Current, Typed, Guttered, Walks, FieldNames
  <1>3. Keeps(w, StartScan(w))
    BY <1>2, ScanKeeps DEF Keeps
  <1> QED BY <1>1, <1>2, <1>3, KeepsTwice DEF ApplyOptions

LEMMA MatchesAreLines ==
    ASSUME NEW u, IsRender(u.body)
    PROVE  /\ Matches(u) \in SUBSET (1..Len(u.body)) /\ Len(u.body) \in Nat
           /\ Matches(u) # {} => Cardinality(Matches(u)) \in Nat \ {0}
  <1>1. Matches(u) \in SUBSET (1..Len(u.body)) /\ Len(u.body) \in Nat
    BY RenderLines DEF Matches
  <1>2. IsFiniteSet(Matches(u))
    <2>1. IsFiniteSet(1..Len(u.body))
      BY <1>1, FS_Interval
    <2> QED BY <1>1, <2>1, FS_Subset
  <1> QED BY <1>1, <1>2, FS_CardinalityType, FS_EmptySet

LEMMA NthMatch ==
    ASSUME NEW u, IsRender(u.body), NEW at \in 1..Cardinality(Matches(u))
    PROVE  Nth(Matches(u), at) \in Int
  <1>1. PICK lines : lines = Matches(u)
    OBVIOUS
  <1>2. lines \in SUBSET (1..Len(u.body)) /\ Len(u.body) \in Nat
    BY <1>1, MatchesAreLines
  <1>3. Nth(lines, at) \in lines
    BY <1>1, <1>2, NthIsThere
  <1>4. \A i \in lines : i \in Int
    BY <1>2
  <1> QED BY <1>1, <1>3, <1>4

LEMMA SearchKeeps ==
    ASSUME NEW u, Current(u), NEW query \in Queries
    PROVE  Keeps(u, Search(u, query))
  <1>1. PICK w : w = [u EXCEPT !.query = query, !.match = 1]
    OBVIOUS
  <1>2. Keeps(u, w)
    BY <1>1 DEF Keeps, HidesNothing, SourceIsHidden, Current, Typed, Guttered, Walks, FieldNames
  <1>3. CASE Matches(w) = {}
    BY <1>1, <1>2, <1>3 DEF Search
  <1>4. CASE Matches(w) # {}
    <2>1. IsRender(w.body)
      BY <1>2 DEF Keeps, Current, Typed
    <2>2. PICK count \in Nat \ {0} : count = Cardinality(Matches(w))
      BY <1>4, <2>1, MatchesAreLines
    <2>3. 1 \in 1..count
      OBVIOUS
    <2>4. Nth(Matches(w), 1) \in Int
      BY <2>1, <2>2, <2>3, NthMatch
    <2>5. Keeps(w, JumpTo(w, Nth(Matches(w), 1)))
      BY <1>2, <2>4, JumpKeepsRender DEF Keeps
    <2> QED BY <1>1, <1>2, <1>4, <2>5, KeepsTwice DEF Search
  <1> QED BY <1>3, <1>4

LEMMA StepKeeps ==
    ASSUME NEW u, Current(u), Matches(u) # {}, NEW dir
    PROVE  Keeps(u, StepMatch(u, dir))
  <1>1. IsRender(u.body) /\ u.match \in Nat \ {0}
    BY DEF Current, Typed
  <1>2. PICK count \in Nat \ {0} : count = Cardinality(Matches(u))
    BY <1>1, MatchesAreLines
  <1>3. PICK at \in 1..count : at = Wrap(u.match, dir, count)
    BY <1>1, WrapIn
  <1>4. PICK w : w = [u EXCEPT !.match = at]
    OBVIOUS
  <1>5. Keeps(u, w)
    BY <1>3, <1>4 DEF Keeps, HidesNothing, SourceIsHidden, Current, Typed, Guttered, Walks, FieldNames
  <1>6. Nth(Matches(u), at) \in Int
    BY <1>1, <1>2, NthMatch
  <1>7. Keeps(w, JumpTo(w, Nth(Matches(u), at)))
    BY <1>5, <1>6, JumpKeepsRender DEF Keeps
  <1> QED BY <1>2, <1>3, <1>4, <1>5, <1>7, KeepsTwice DEF StepMatch

LEMMA ClearKeeps ==
    ASSUME NEW u, Current(u)
    PROVE  Keeps(u, ClearSearch(u))
  BY DEF Keeps, HidesNothing, SourceIsHidden, ClearSearch, Current, Typed, Guttered, Walks, FieldNames

\* The format is another, and the render of it takes the place of the other's.
LEMMA FormatKeeps ==
    ASSUME NEW u, Current(u), NEW format \in {"JSON", "YAML"}, u.format # format
    PROVE  Kept(u, SyncFollowIfActive(SetSpecFormat(u, format)))
  <1>1. PICK w : w = [u EXCEPT !.format = format]
    OBVIOUS
  <1>2. Typed(w) /\ w.body = u.body /\ w.cursor = u.cursor /\ SameSight(u, w)
    BY <1>1 DEF Current, Typed, SameSight, FieldNames
  <1>3. PICK x : x = EnsureYAML(w)
    OBVIOUS
  <1>4. Typed(x) /\ SameBut(w, x, {"yaml", "converting"})
    BY <1>2, <1>3, EnsureKeeps
  <1>5. x.body = u.body /\ x.cursor = u.cursor /\ SameSight(u, x)
    BY <1>2, <1>4 DEF SameBut, SameSight, FieldNames
  <1>6. SetSpecFormat(u, format) = RefreshSpec(x)
    BY <1>1, <1>3 DEF SetSpecFormat
  <1>7. Current(RefreshSpec(x)) /\ HidesNothing(u, RefreshSpec(x))
    BY <1>4, <1>5, RenderKeeps, RenderInSight
  <1> QED BY <1>4, <1>5, <1>6, <1>7, RenderIsMirrored

LEMMA ReplaceKeeps ==
    ASSUME NEW u, Current(u), u.scanning > 0, NEW doc, IsDocument(doc)
    PROVE  LET w == [ReplaceDocument(u, doc) EXCEPT !.scanning = @ - 1]
           IN  Typed(w) /\ w.body = u.body /\ w.cursor = u.cursor /\ SameSight(u, w)
  <1>0. DOMAIN u = FieldNames /\ u.diag \in Int
    <2>1. Len(u.doc.diags) \in Nat
      BY DEF Current, Typed, IsDocument
    <2>2. Max({1, Len(u.doc.diags)}) \in Int
      BY <2>1, OneAtLeast
    <2> QED BY <2>2 DEF Current, Typed
  <1>1. PICK diag : diag = ClampDiag(u.diag, doc.diags)
    OBVIOUS
  <1>2. diag \in 1..Max({1, Len(doc.diags)})
    <2>1. Len(doc.diags) \in Nat
      BY DEF IsDocument
    <2>2. Max({1, Len(doc.diags)}) \in Nat \ {0}
      BY <2>1, OneAtLeast
    <2> QED BY <1>0, <1>1, <2>2, ClampIn DEF ClampDiag
  <1>3. PICK w : w = [u EXCEPT !.doc = doc, !.anchors = doc.anchors, !.yaml = "none", !.gen = u.gen + 1, !.diag = diag,
                               !.verdict = NoVerdict, !.tab = "scan", !.scanning = u.scanning - 1]
    OBVIOUS
  <1>4. [ReplaceDocument(u, doc) EXCEPT !.scanning = @ - 1] = w
    BY <1>0, <1>1, <1>3 DEF ReplaceDocument, FieldNames
  <1>5. AreAnchors(doc.anchors) /\ u.scanning - 1 \in Nat
    BY DEF IsDocument, Current, Typed
  <1>6. /\ DOMAIN NoVerdict = {"findings", "ran", "cursor"}
        /\ NoVerdict.findings \in Seq(Pointers) /\ NoVerdict.ran \in BOOLEAN
        /\ NoVerdict.cursor \in 1..Max({1, Len(NoVerdict.findings)})
    <2>1. NoVerdict.findings = <<>> /\ NoVerdict.cursor = 1 /\ Len(<<>>) = 0
      BY DEF NoVerdict
    <2>2. Max({1, 0}) = 1
      BY OneAtLeast
    <2> QED BY <2>1, <2>2 DEF NoVerdict
  <1>7. Typed(w)
    BY <1>0, <1>2, <1>3, <1>5, <1>6 DEF Current, Typed, FieldNames
  <1>8. w.body = u.body /\ w.cursor = u.cursor /\ SameSight(u, w)
    BY <1>0, <1>3 DEF SameSight, FieldNames
  <1> QED BY <1>4, <1>7, <1>8


LEMMA KeptIsEnsured ==
    ASSUME NEW u, NEW v, Kept(u, v)
    PROVE  Kept(u, EnsureYAML(v))
  <1>1. PICK x : x = EnsureYAML(v)
    OBVIOUS
  <1>2. Current(x) /\ Mirrors(x) /\ SameBut(v, x, {"yaml", "converting"})
    BY <1>1, EnsureKeeps DEF Kept, Current
  <1>3. x.body = v.body /\ x.cursor = v.cursor /\ x.follow = v.follow
    BY <1>2 DEF SameBut, FieldNames
  <1>4. SameSight(v, x) /\ Followed(x) = Followed(v)
    BY <1>2 DEF SameBut, SameSight, Followed, SpecSource, SelectedDiag, FieldNames
  <1>5. StaysInSight(u, x)
    BY <1>4 DEF Kept, StaysInSight, SameSight, SourceIsHidden
  <1> QED BY <1>1, <1>2, <1>3, <1>5 DEF Kept, KeepsNode

LEMMA AbsorbScanKeeps ==
    ASSUME NEW u, Current(u), u.scanning > 0, NEW doc, IsDocument(doc)
    PROVE  Kept(u, AbsorbScan(u, doc))
  <1>1. PICK w : w = [ReplaceDocument(u, doc) EXCEPT !.scanning = @ - 1]
    OBVIOUS
  <1>2. Typed(w) /\ w.body = u.body /\ w.cursor = u.cursor /\ SameSight(u, w)
    BY <1>1, ReplaceKeeps
  <1>3. PICK x : x = RefreshSpec(w)
    OBVIOUS
  <1>4. Current(x) /\ HidesNothing(u, x)
    BY <1>2, <1>3, RenderKeeps, RenderInSight
  <1>5. PICK y : y = RefreshSource(x)
    OBVIOUS
  <1>6. Current(y) /\ y.body = x.body /\ y.cursor = x.cursor /\ HidesNothing(u, y)
    BY <1>4, <1>5, SourceKeeps DEF Keeps, HidesNothing
  <1>7. Kept(u, SyncFollowIfActive(y))
    BY <1>2, <1>3, <1>6, RenderIsMirrored
  <1> QED BY <1>1, <1>3, <1>5, <1>7, KeptIsEnsured DEF AbsorbScan

\* Nothing that is mirrored changes.
LEMMA MirrorsIsLeft ==
    ASSUME NEW u, NEW v, Mirrors(u), v.body = u.body, v.cursor = u.cursor, v.follow = u.follow, v.doc = u.doc,
           v.diag = u.diag, v.anchors = u.anchors, v.file = u.file, v.nav = u.nav, v.rows = u.rows,
           v.row = u.row, v.editing = u.editing
    PROVE  Mirrors(v)
  BY DEF Mirrors, Shows, ShowsLine, SpecSource, SpecLineFor, SelectedDiag, CurrentLine

LEMMA ConversionKeeps ==
    ASSUME NEW u, Current(u), NEW yaml \in {"none", "pending", "ready"}
    PROVE  Keeps(u, [u EXCEPT !.yaml = yaml])
  BY DEF Keeps, HidesNothing, SourceIsHidden, Current, Typed, Guttered, Walks, FieldNames

LEMMA AbsorbYAMLKeeps ==
    ASSUME NEW u, Current(u), Mirrors(u), NEW gen
    PROVE  Kept(u, AbsorbYAML(u, gen))
  <1>0. DOMAIN u = FieldNames
    BY DEF Current, Typed
  <1>1. PICK w : w = [u EXCEPT !.converting = u.converting \ {gen}]
    OBVIOUS
  <1>2. Current(w)
    BY <1>1 DEF Current, Typed, Guttered, Walks, FieldNames
  <1>3. SameBut(u, w, {"converting"})
    BY <1>0, <1>1 DEF SameBut, FieldNames
  <1>4. w = [u EXCEPT !.converting = @ \ {gen}]
    BY <1>0, <1>1 DEF FieldNames
  <1>5. CASE gen # u.gen
    <2>1. Mirrors(w) /\ w.body = u.body /\ HidesNothing(u, w)
      BY <1>3, MirrorsIsLeft, SightIsLeft DEF SameBut, FieldNames
    <2> QED BY <1>2, <1>4, <1>5, <2>1 DEF AbsorbYAML, Kept, KeepsNode, HidesNothing, StaysInSight
  <1>6. CASE gen = u.gen /\ u.doc.yaml = <<>>
    <2>1. PICK x : x = [w EXCEPT !.yaml = "none"]
      OBVIOUS
    <2>2. Current(x)
      BY <1>2, <2>1, ConversionKeeps DEF Keeps
    <2>3. SameBut(u, x, {"converting", "yaml"})
      BY <1>0, <1>3, <2>1 DEF SameBut, FieldNames
    <2>4. Mirrors(x) /\ x.body = u.body /\ HidesNothing(u, x)
      BY <2>3, MirrorsIsLeft, SightIsLeft DEF SameBut, FieldNames
    <2> QED BY <1>4, <1>6, <2>1, <2>2, <2>4 DEF AbsorbYAML, Kept, KeepsNode, HidesNothing, StaysInSight
  <1>7. CASE gen = u.gen /\ u.doc.yaml # <<>>
    <2>1. PICK x : x = [w EXCEPT !.yaml = "ready"]
      OBVIOUS
    <2>2. Typed(x)
      BY <1>2, <2>1 DEF Current, Typed, FieldNames
    <2>3. x.body = u.body /\ x.cursor = u.cursor /\ SameSight(u, x)
      BY <1>0, <1>3, <2>1 DEF SameBut, SameSight, FieldNames
    <2>4. Current(RefreshSpec(x)) /\ HidesNothing(u, RefreshSpec(x))
      BY <2>2, <2>3, RenderKeeps, RenderInSight
    <2> QED BY <1>4, <1>7, <2>1, <2>2, <2>3, <2>4, RenderIsMirrored DEF AbsorbYAML
  <1> QED BY <1>5, <1>6, <1>7

LEMMA AbsorbValidationKeeps ==
    ASSUME NEW u, Current(u), Mirrors(u), NEW findings \in u.checking
    PROVE  Kept(u, AbsorbValidation(u, findings))
  <1>0. DOMAIN u = FieldNames
    BY DEF Current, Typed
  <1>1. PICK verdict : verdict = [findings |-> findings, ran |-> TRUE, cursor |-> 1]
    OBVIOUS
  <1>2. /\ DOMAIN verdict = {"findings", "ran", "cursor"} /\ verdict.findings \in Seq(Pointers)
        /\ verdict.ran \in BOOLEAN /\ verdict.cursor \in 1..Max({1, Len(verdict.findings)})
    <2>1. findings \in Seq(Pointers)
      BY DEF Current, Typed
    <2>2. Max({1, Len(findings)}) \in Nat \ {0}
      BY <2>1, OneAtLeast
    <2> QED BY <1>1, <2>1, <2>2
  <1>3. PICK w : w = [u EXCEPT !.checking = u.checking \ {findings}, !.verdict = verdict,
                               !.tab = "validation", !.focused = "diag"]
    OBVIOUS
  <1>4. AbsorbValidation(u, findings) = w
    BY <1>0, <1>1, <1>3 DEF AbsorbValidation, FieldNames
  <1>5. Current(w)
    BY <1>2, <1>3 DEF Current, Typed, Guttered, Walks, FieldNames, Panes
  <1>6. SameBut(u, w, {"checking", "verdict", "tab", "focused"})
    BY <1>0, <1>3 DEF SameBut, FieldNames
  <1>7. Mirrors(w) /\ w.body = u.body /\ HidesNothing(u, w)
    BY <1>6, MirrorsIsLeft, SightIsLeft DEF SameBut, FieldNames
  <1> QED BY <1>4, <1>5, <1>7 DEF Kept, KeepsNode, HidesNothing, StaysInSight

-----------------------------------------------------------------------------
(* What a key changes by itself.                                            *)

LEMMA MovedIsIn ==
    ASSUME NEW last \in Nat \ {0}, NEW at \in 1..last, NEW to \in Moved(at, last)
    PROVE  to \in 1..last
  <1>1. at + 1 \in Int /\ at - 1 \in Int /\ 1 \in 1..last /\ last \in 1..last
    OBVIOUS
  <1> QED BY <1>1, ClampIn DEF Moved

LEMMA SelectionKeeps ==
    ASSUME NEW u, Current(u), NEW at \in 1..Max({1, Len(u.doc.diags)})
    PROVE  Keeps(u, [u EXCEPT !.diag = at])
  BY DEF Keeps, HidesNothing, SourceIsHidden, Current, Typed, Guttered, Walks, FieldNames

LEMMA VerdictKeeps ==
    ASSUME NEW u, Current(u), NEW verdict, DOMAIN verdict = {"findings", "ran", "cursor"},
           verdict.findings \in Seq(Pointers), verdict.ran \in BOOLEAN,
           verdict.cursor \in 1..Max({1, Len(verdict.findings)})
    PROVE  Keeps(u, [u EXCEPT !.verdict = verdict])
  BY DEF Keeps, HidesNothing, SourceIsHidden, Current, Typed, Guttered, Walks, FieldNames

LEMMA FindingKeeps ==
    ASSUME NEW u, Current(u), NEW at \in 1..Max({1, Len(u.verdict.findings)})
    PROVE  Keeps(u, [u EXCEPT !.verdict.cursor = at])
  <1>1. PICK verdict : verdict = [u.verdict EXCEPT !.cursor = at]
    OBVIOUS
  <1>2. /\ DOMAIN verdict = {"findings", "ran", "cursor"} /\ verdict.findings \in Seq(Pointers)
        /\ verdict.ran \in BOOLEAN /\ verdict.cursor \in 1..Max({1, Len(verdict.findings)})
    BY <1>1 DEF Current, Typed
  <1>3. [u EXCEPT !.verdict.cursor = at] = [u EXCEPT !.verdict = verdict]
    BY <1>1
  <1> QED BY <1>2, <1>3, VerdictKeeps

\* Nobody drives while the focus is in the editor.
LEMMA EditKeeps ==
    ASSUME NEW u, Current(u), u.focused = "tree"
    PROVE  LET v == [u EXCEPT !.editing = TRUE, !.row = u.nav]
           IN  Current(v) /\ v.body = u.body /\ v.focused = "tree" /\ v.editing
  BY DEF Current, Typed, Guttered, Walks, FieldNames

LEMMA TypeKeeps ==
    ASSUME NEW u, Current(u), NEW row \in 1..u.rows, NEW dirty \in BOOLEAN
    PROVE  Keeps(u, [u EXCEPT !.row = row, !.dirty = dirty])
  BY DEF Keeps, HidesNothing, SourceIsHidden, Current, Typed, Guttered, Walks, FieldNames

LEMMA SaveKeeps ==
    ASSUME NEW u, Current(u)
    PROVE  Keeps(u, [u EXCEPT !.dirty = FALSE])
  BY DEF Keeps, HidesNothing, SourceIsHidden, Current, Typed, Guttered, Walks, FieldNames

LEMMA AnswerKeeps ==
    ASSUME NEW u, Current(u)
    PROVE  Keeps(u, [u EXCEPT !.overlay = "none"]) /\ [u EXCEPT !.overlay = "none"].file = u.file
  BY DEF Keeps, HidesNothing, SourceIsHidden, Current, Typed, Guttered, Walks, FieldNames

LEMMA OptionsShownKeeps ==
    ASSUME NEW u, Current(u)
    PROVE  Keeps(u, [u EXCEPT !.refs = NoCycle, !.overlay = "options", !.toggled = FALSE])
  BY DEF Keeps, HidesNothing, SourceIsHidden, Current, Typed, Guttered, Walks, FieldNames, NoCycle

LEMMA OptionsOpenKeeps ==
    ASSUME NEW u, Current(u)
    PROVE  Keeps(u, [ExitFollow(u) EXCEPT !.refs = NoCycle, !.overlay = "options", !.toggled = FALSE])
  <1>1. PICK w : w = ExitFollow(u)
    OBVIOUS
  <1>2. Keeps(u, w)
    BY <1>1, ExitKeeps
  <1>3. Keeps(w, [w EXCEPT !.refs = NoCycle, !.overlay = "options", !.toggled = FALSE])
    BY <1>2, OptionsShownKeeps DEF Keeps
  <1> QED BY <1>1, <1>2, <1>3, KeepsTwice

LEMMA ToggledKeeps ==
    ASSUME NEW u, Current(u)
    PROVE  Keeps(u, [u EXCEPT !.toggled = TRUE])
  BY DEF Keeps, HidesNothing, SourceIsHidden, Current, Typed, Guttered, Walks, FieldNames

LEMMA LeaveEditKeeps ==
    ASSUME NEW u, Current(u)
    PROVE  Keeps(u, RefreshSource([u EXCEPT !.editing = FALSE, !.nav = u.row, !.row = 1]))
  <1>1. PICK w : w = [u EXCEPT !.editing = FALSE, !.nav = u.row, !.row = 1]
    OBVIOUS
  <1>2. Keeps(u, w)
    BY <1>1 DEF Keeps, HidesNothing, SourceIsHidden, Current, Typed, Guttered, Walks, FieldNames
  <1>3. Keeps(w, RefreshSource(w))
    BY <1>2, SourceKeeps DEF Keeps
  <1> QED BY <1>1, <1>2, <1>3, KeepsTwice

LEMMA BrowseKeeps ==
    ASSUME NEW u, Current(u)
    PROVE  LET v == [u EXCEPT !.left = "browse"]
           IN  Current(v) /\ v.body = u.body /\ v.follow = u.follow
  BY DEF Current, Typed, Guttered, Walks, FieldNames

LEMMA PromptShownKeeps ==
    ASSUME NEW u, Current(u)
    PROVE  Keeps(u, [u EXCEPT !.refs = NoCycle, !.focused = "spec", !.searching = TRUE])
  BY DEF Keeps, HidesNothing, SourceIsHidden, Current, Typed, Guttered, Walks, FieldNames, NoCycle, Panes

LEMMA PromptKeeps ==
    ASSUME NEW u, Current(u)
    PROVE  Keeps(u, [ExitFollow(u) EXCEPT !.refs = NoCycle, !.focused = "spec", !.searching = TRUE])
  <1>1. PICK w : w = ExitFollow(u)
    OBVIOUS
  <1>2. Keeps(u, w)
    BY <1>1, ExitKeeps
  <1>3. Keeps(w, [w EXCEPT !.refs = NoCycle, !.focused = "spec", !.searching = TRUE])
    BY <1>2, PromptShownKeeps DEF Keeps
  <1> QED BY <1>1, <1>2, <1>3, KeepsTwice

LEMMA PromptClosedKeeps ==
    ASSUME NEW u, Current(u)
    PROVE  Keeps(u, [u EXCEPT !.searching = FALSE])
  BY DEF Keeps, HidesNothing, SourceIsHidden, Current, Typed, Guttered, Walks, FieldNames

LEMMA LinkKeeps ==
    ASSUME NEW u, Current(u)
    PROVE  Keeps(u, [LinkSourceToSpec(u) EXCEPT !.focused = "spec"])
  <1>1. PICK line : line = SpecLineFor(u, u.file, CurrentLine(u))
    OBVIOUS
  <1>2. line \in Int
    BY <1>1, LineOfNode, RenderLines DEF SpecLineFor, Current, Typed
  <1>3. PICK w : w = LinkSourceToSpec(u)
    OBVIOUS
  <1>4. w = DriveTo(u, line)
    BY <1>1, <1>3 DEF LinkSourceToSpec
  <1>5. Keeps(u, w)
    BY <1>2, <1>4, JumpKeepsRender, SameKeeps DEF DriveTo
  <1>6. Keeps(w, [w EXCEPT !.focused = "spec"])
    BY <1>5, FocusKeeps DEF Keeps, Panes
  <1> QED BY <1>3, <1>5, <1>6, KeepsTwice

-----------------------------------------------------------------------------
(* The steps.                                                               *)

\* The followers are told last, whatever the handler did.
LEMMA BecomesKeeps ==
    ASSUME NEW u, Keeps(ui, u), Becomes(u)
    PROVE  Kept(ui, ui')
  <1>1. ui' = SyncFollowIfActive(u) /\ Current(u) /\ u.body = ui.body /\ HidesNothing(ui, u)
    BY DEF Becomes, Keeps
  <1>2. Current(ui') /\ Mirrors(ui') /\ ui'.body = ui.body /\ HidesNothing(u, ui')
    BY <1>1, SyncKeeps
  <1>3. StaysInSight(ui, ui')
    BY <1>1, <1>2 DEF HidesNothing, StaysInSight
  <1> QED BY <1>2, <1>3 DEF Kept, KeepsNode

\* The source pane may be hidden when nobody drives, or no longer does.
LEMMA BecomesUnfollowed ==
    ASSUME NEW u, Current(u), u.body = ui.body, Becomes(u),
           u.follow = "off" \/ (u.focused = "tree" /\ u.editing)
    PROVE  Kept(ui, ui')
  <1>1. ui' = SyncFollowIfActive(u)
    BY DEF Becomes
  <1>2. Current(ui') /\ Mirrors(ui') /\ ui'.body = ui.body
    BY <1>1, SyncKeeps
  <1>3. ui'.follow = "off"
    <2>1. DOMAIN u = FieldNames /\ u.follow \in {"off", "spec", "source", "diag", "validation"}
      BY DEF Current, Typed, Driven
    <2>2. CASE u.follow = "off"
      <3>1. ui' = u
        BY <1>1, <2>2, Zenon DEF SyncFollowIfActive, IsDriven
      <3> QED BY <2>2, <3>1
    <2>3. CASE u.follow # "off"
      <3>1. ~IsDriven(u)
        BY <2>1, <2>3 DEF IsDriven
      <3>2. ui' = [u EXCEPT !.follow = "off"]
        BY <1>1, <3>1 DEF SyncFollowIfActive, ExitFollow
      <3> QED BY <2>1, <3>2 DEF FieldNames
    <2> QED BY <2>2, <2>3
  <1>4. StaysInSight(ui, ui')
    BY <1>3 DEF StaysInSight, Followed
  <1> QED BY <1>2, <1>4 DEF Kept, KeepsNode

LEMMA SomeAreListed ==
    ASSUME NEW S, NEW list \in Seq(S), list # <<>>
    PROVE  Len(list) \in Nat \ {0} /\ Max({1, Len(list)}) = Len(list)
  <1>1. Len(list) \in Nat \ {0}
    OBVIOUS
  <1> QED BY <1>1, OneAtLeast

LEMMA Stays == Current(ui) => Keeps(ui, ui)
  BY SameKeeps

LEMMA MoveStep ==
    ASSUME NavInv, Focus \/ MoveSpecCursor \/ MoveNavLine \/ MoveDiagCursor \/ MoveValidationCursor \/ Click \/ Wheel
    PROVE  Kept(ui, ui')
  <1>0. Current(ui) /\ Typed(ui)
    BY DEF NavInv, Current
  <1>1. ASSUME NEW pane \in Panes, Becomes([ui EXCEPT !.focused = pane]) PROVE Kept(ui, ui')
    BY <1>0, <1>1, FocusKeeps, BecomesKeeps
  <1>2. ASSUME NEW line \in Int, Becomes(JumpTo(ui, line)) PROVE Kept(ui, ui')
    BY <1>0, <1>2, JumpKeepsRender, BecomesKeeps
  <1>3. ASSUME NEW line \in Int, Becomes(GotoLine(ui, line)) PROVE Kept(ui, ui')
    BY <1>0, <1>3, GotoKeepsRender, BecomesKeeps
  <1>4. ASSUME NEW at \in 1..Max({1, Len(ui.doc.diags)}), Becomes([ui EXCEPT !.diag = at]) PROVE Kept(ui, ui')
    BY <1>0, <1>4, SelectionKeeps, BecomesKeeps
  <1>5. ASSUME NEW at \in 1..Max({1, Len(ui.verdict.findings)}), Becomes([ui EXCEPT !.verdict.cursor = at])
        PROVE  Kept(ui, ui')
    BY <1>0, <1>5, FindingKeeps, BecomesKeeps
  <1>6. /\ Lines(ui.body) \in Nat \ {0} /\ ui.cursor \in 1..Lines(ui.body) /\ ui.cursor \in Int
        /\ ui.rows \in Nat \ {0} /\ ui.nav \in 1..ui.rows /\ ui.nav \in Int
    BY <1>0, RenderLines DEF Typed
  <1>7. ui.doc.diags # <<>> =>
          /\ Len(ui.doc.diags) \in Nat \ {0} /\ Max({1, Len(ui.doc.diags)}) = Len(ui.doc.diags)
          /\ ui.diag \in 1..Len(ui.doc.diags)
    <2>1. ui.doc.diags \in Seq([file : Files \union {NoFile}, line : Nat])
      BY <1>0 DEF Typed, IsDocument
    <2> QED BY <1>0, <2>1, SomeAreListed DEF Typed
  <1>8. ui.verdict.findings # <<>> =>
          /\ Len(ui.verdict.findings) \in Nat \ {0} /\ Max({1, Len(ui.verdict.findings)}) = Len(ui.verdict.findings)
          /\ ui.verdict.cursor \in 1..Len(ui.verdict.findings)
    <2>1. ui.verdict.findings \in Seq(Pointers)
      BY <1>0 DEF Typed
    <2> QED BY <1>0, <2>1, SomeAreListed DEF Typed
  <1>9. CASE Focus \/ Click
    BY <1>1, <1>9 DEF Focus, Click
  <1>10. CASE MoveSpecCursor
    <2>1. PICK line \in Moved(ui.cursor, Lines(ui.body)) : Becomes(JumpTo(ui, line))
      BY <1>10 DEF MoveSpecCursor
    <2>2. line \in 1..Lines(ui.body)
      BY <1>6, <2>1, MovedIsIn
    <2> QED BY <1>2, <1>6, <2>1, <2>2
  <1>11. CASE MoveNavLine
    <2>1. PICK line \in Moved(ui.nav, ui.rows) : Becomes(GotoLine(ui, line))
      BY <1>11 DEF MoveNavLine
    <2>2. line \in 1..ui.rows
      BY <1>6, <2>1, MovedIsIn
    <2> QED BY <1>3, <1>6, <2>1, <2>2
  <1>12. CASE MoveDiagCursor
    <2>1. PICK at \in Moved(ui.diag, Len(ui.doc.diags)) : Becomes([ui EXCEPT !.diag = at])
      BY <1>12 DEF MoveDiagCursor
    <2>2. at \in 1..Len(ui.doc.diags)
      BY <1>7, <1>12, <2>1, MovedIsIn DEF MoveDiagCursor
    <2> QED BY <1>4, <1>7, <1>12, <2>1, <2>2 DEF MoveDiagCursor
  <1>13. CASE MoveValidationCursor
    <2>1. PICK at \in Moved(ui.verdict.cursor, Len(ui.verdict.findings)) : Becomes([ui EXCEPT !.verdict.cursor = at])
      BY <1>13 DEF MoveValidationCursor
    <2>2. at \in 1..Len(ui.verdict.findings)
      BY <1>8, <1>13, <2>1, MovedIsIn DEF MoveValidationCursor
    <2> QED BY <1>5, <1>8, <1>13, <2>1, <2>2 DEF MoveValidationCursor
  <1>14. CASE Wheel
    <2>1. CASE \E line \in {ui.cursor - 1, ui.cursor + 1} : Becomes(JumpTo(ui, line))
      <3>1. PICK line \in {ui.cursor - 1, ui.cursor + 1} : Becomes(JumpTo(ui, line))
        BY <2>1
      <3>2. line \in Int
        BY <1>6
      <3> QED BY <1>2, <3>1, <3>2
    <2>2. CASE \E line \in {ui.nav - 1, ui.nav + 1} : Becomes(GotoLine(ui, line))
      <3>1. PICK line \in {ui.nav - 1, ui.nav + 1} : Becomes(GotoLine(ui, line))
        BY <2>2
      <3>2. line \in Int
        BY <1>6
      <3> QED BY <1>3, <3>1, <3>2
    <2>3. CASE /\ ui.doc.diags # <<>>
               /\ \E at \in {ui.diag - 1, ui.diag + 1} : Becomes([ui EXCEPT !.diag = Clamp(at, Len(ui.doc.diags))])
      <3>1. PICK at \in {ui.diag - 1, ui.diag + 1} : Becomes([ui EXCEPT !.diag = Clamp(at, Len(ui.doc.diags))])
        BY <2>3
      <3>2. at \in Int
        BY <1>7, <2>3
      <3>3. Clamp(at, Len(ui.doc.diags)) \in 1..Len(ui.doc.diags)
        BY <1>7, <2>3, <3>2, ClampIn
      <3> QED BY <1>4, <1>7, <2>3, <3>1, <3>3
    <2> QED BY <1>14, <2>1, <2>2, <2>3 DEF Wheel
  <1> QED BY <1>9, <1>10, <1>11, <1>12, <1>13, <1>14

LEMMA FollowStep == NavInv /\ Follow => Kept(ui, ui')
  <1> SUFFICES ASSUME NavInv, Follow PROVE Kept(ui, ui')
    OBVIOUS
  <1>1. PICK mode \in {"spec"} \union Driven : Becomes(ToggleFollow(ui, mode))
    BY DEF Follow, Driven
  <1> QED BY <1>1, ToggleKeeps, BecomesKeeps DEF NavInv

LEMMA EnterStep == NavInv /\ Enter => Kept(ui, ui')
  <1> SUFFICES ASSUME NavInv, Enter PROVE Kept(ui, ui')
    OBVIOUS
  <1>1. Current(ui)
    BY DEF NavInv
  <1>2. CASE Becomes(GotoDefinition(ui))
    BY <1>1, <1>2, DefinitionKeeps, BecomesKeeps
  <1>3. CASE \E file \in Files : Becomes(OpenFile(ui, file))
    BY <1>1, <1>3, OpenKeeps, BecomesKeeps
  <1>4. CASE Becomes(JumpDiagToSource(ui))
    BY <1>1, <1>4, JumpToSourceKeeps, BecomesKeeps
  <1>5. CASE Becomes(JumpValidationToSpec(ui))
    BY <1>1, <1>5, JumpValidationKeeps, BecomesKeeps
  <1> QED BY <1>2, <1>3, <1>4, <1>5 DEF Enter

LEMMA FormatStep == NavInv /\ SwitchFormat => Kept(ui, ui')
  <1> SUFFICES ASSUME NavInv, NEW format \in {"JSON", "YAML"}, Becomes(SetSpecFormat(ui, format))
               PROVE  Kept(ui, ui')
    BY DEF SwitchFormat
  <1>1. Current(ui)
    BY DEF NavInv
  <1>2. CASE ui.format = format
    BY <1>1, <1>2, Stays, BecomesKeeps DEF SetSpecFormat
  <1>3. CASE ui.format # format
    BY <1>1, <1>3, FormatKeeps DEF Becomes
  <1> QED BY <1>2, <1>3

LEMMA EditStep ==
    ASSUME NavInv, StartEdit \/ Type \/ Save \/ FollowOnce \/ Reload \/ Answer
    PROVE  Kept(ui, ui')
  <1>1. Current(ui) /\ Typed(ui)
    BY DEF NavInv, Current
  <1>2. CASE StartEdit
    BY <1>1, <1>2, EditKeeps, BecomesUnfollowed DEF StartEdit, Viewer
  <1>3. CASE Type
    <2>1. PICK row \in Moved(ui.row, ui.rows), dirty \in BOOLEAN : Becomes([ui EXCEPT !.row = row, !.dirty = dirty])
      BY <1>3 DEF Type
    <2>2. row \in 1..ui.rows
      BY <1>1, <2>1, MovedIsIn DEF Typed
    <2> QED BY <1>1, <2>1, <2>2, TypeKeeps, BecomesKeeps
  <1>4. CASE Save
    BY <1>1, <1>4, SaveKeeps, BecomesKeeps DEF Save
  <1>5. CASE FollowOnce
    BY <1>1, <1>5, LinkKeeps, BecomesKeeps DEF FollowOnce
  <1>6. CASE Reload
    BY <1>1, <1>6, RequestKeeps, BecomesKeeps DEF Reload
  <1>7. CASE Answer
    <2>1. PICK closed : closed = [ui EXCEPT !.overlay = "none"]
      OBVIOUS
    <2>2. Keeps(ui, closed) /\ closed.file = ui.file
      BY <1>1, <2>1, AnswerKeeps
    <2>3. ui.file # NoFile
      BY <1>1, <1>7 DEF Answer, Typed
    <2>4. Keeps(ui, ReloadFile(closed))
      <3>1. Keeps(closed, ReloadFile(closed))
        BY <2>2, <2>3, ReloadKeeps DEF Keeps
      <3> QED BY <2>2, <3>1, KeepsTwice
    <2>5. Becomes(closed) \/ Becomes(ReloadFile(closed))
      BY <1>7, <2>1 DEF Answer
    <2> QED BY <2>2, <2>4, <2>5, BecomesKeeps
  <1> QED BY <1>2, <1>3, <1>4, <1>5, <1>6, <1>7

LEMMA EscapeStep == NavInv /\ Escape => Kept(ui, ui')
  <1> SUFFICES ASSUME NavInv, Escape PROVE Kept(ui, ui')
    OBVIOUS
  <1>1. Current(ui)
    BY DEF NavInv
  <1>2. CASE Becomes(RefreshSource([ui EXCEPT !.editing = FALSE, !.nav = ui.row, !.row = 1]))
    BY <1>1, <1>2, LeaveEditKeeps, BecomesKeeps
  <1>3. CASE Becomes(ExitFollow(ui))
    BY <1>1, <1>3, ExitKeeps, BecomesKeeps
  <1>4. CASE ui.follow = "off" /\ Becomes([ui EXCEPT !.left = "browse"])
    BY <1>1, <1>4, BrowseKeeps, BecomesUnfollowed
  <1>5. CASE Becomes(ClearSearch([ui EXCEPT !.refs = NoCycle]))
    <2>1. PICK w : w = [ui EXCEPT !.refs = NoCycle]
      OBVIOUS
    <2>2. Keeps(ui, w)
      BY <1>1, <2>1, DropCycleKeeps
    <2>3. Keeps(w, ClearSearch(w))
      BY <2>2, ClearKeeps DEF Keeps
    <2> QED BY <1>5, <2>1, <2>2, <2>3, KeepsTwice, BecomesKeeps
  <1> QED BY <1>2, <1>3, <1>4, <1>5 DEF Escape

LEMMA OptionsStep ==
    ASSUME NavInv, OpenOptions \/ ToggleOption \/ CloseOptions \/ Rescan \/ Validate \/ SwitchTab
    PROVE  Kept(ui, ui')
  <1>1. Current(ui)
    BY DEF NavInv
  <1>2. CASE OpenOptions
    BY <1>1, <1>2, OptionsOpenKeeps, BecomesKeeps DEF OpenOptions
  <1>3. CASE ToggleOption
    BY <1>1, <1>3, ToggledKeeps, BecomesKeeps DEF ToggleOption
  <1>4. CASE CloseOptions
    BY <1>1, <1>4, OptionsKeep, BecomesKeeps DEF CloseOptions
  <1>5. CASE Rescan
    BY <1>1, <1>5, ScanKeeps, BecomesKeeps DEF Rescan
  <1>6. CASE Validate
    BY <1>1, <1>6, ValidationKeeps, BecomesKeeps DEF Validate
  <1>7. CASE SwitchTab
    BY <1>1, <1>7, TabKeeps, BecomesKeeps DEF SwitchTab
  <1> QED BY <1>2, <1>3, <1>4, <1>5, <1>6, <1>7

LEMMA LookStep ==
    ASSUME NavInv, References \/ Locate \/ EnterSearch \/ RunSearch \/ NextMatch
    PROVE  Kept(ui, ui')
  <1>1. Current(ui)
    BY DEF NavInv
  <1>2. CASE References
    BY <1>1, <1>2, CycleKeeps, BecomesKeeps DEF References
  <1>3. CASE Locate
    BY <1>1, <1>3, LocateKeeps, BecomesKeeps DEF Locate
  <1>4. CASE EnterSearch
    BY <1>1, <1>4, PromptKeeps, BecomesKeeps DEF EnterSearch
  <1>5. CASE RunSearch
    <2>1. PICK closed : closed = [ui EXCEPT !.searching = FALSE]
      OBVIOUS
    <2>2. Keeps(ui, closed)
      BY <1>1, <2>1, PromptClosedKeeps
    <2>3. CASE \E query \in Queries : Becomes(Search(closed, query))
      <3>1. PICK query \in Queries : Becomes(Search(closed, query))
        BY <2>3
      <3>2. Keeps(closed, Search(closed, query))
        BY <2>2, SearchKeeps DEF Keeps
      <3> QED BY <2>2, <3>1, <3>2, KeepsTwice, BecomesKeeps
    <2>4. CASE Becomes(ClearSearch(closed))
      <3>1. Keeps(closed, ClearSearch(closed))
        BY <2>2, ClearKeeps DEF Keeps
      <3> QED BY <2>2, <2>4, <3>1, KeepsTwice, BecomesKeeps
    <2> QED BY <1>5, <2>1, <2>3, <2>4 DEF RunSearch
  <1>6. CASE NextMatch
    BY <1>1, <1>6, StepKeeps, BecomesKeeps DEF NextMatch
  <1> QED BY <1>2, <1>3, <1>4, <1>5, <1>6

LEMMA ArrivalStep ==
    ASSUME NavInv, ScanArrives \/ YAMLArrives \/ ValidationArrives
    PROVE  Kept(ui, ui')
  <1>1. Current(ui) /\ Mirrors(ui)
    BY DEF NavInv
  <1>2. CASE ScanArrives
    <2>1. PICK doc \in Documents : ui' = AbsorbScan(ui, doc)
      BY <1>2 DEF ScanArrives
    <2>2. ui.scanning > 0 /\ IsDocument(doc)
      BY <1>2, NavigationAssumption DEF ScanArrives
    <2> QED BY <1>1, <2>1, <2>2, AbsorbScanKeeps
  <1>3. CASE YAMLArrives
    BY <1>1, <1>3, AbsorbYAMLKeeps DEF YAMLArrives
  <1>4. CASE ValidationArrives
    BY <1>1, <1>4, AbsorbValidationKeeps DEF ValidationArrives
  <1> QED BY <1>2, <1>3, <1>4

LEMMA NextKeeps == NavInv /\ Next => Kept(ui, ui')
  BY MoveStep, FollowStep, EnterStep, FormatStep, EditStep, EscapeStep, OptionsStep, LookStep, ArrivalStep DEF Next

-----------------------------------------------------------------------------
(* The invariant.                                                           *)

LEMMA NothingIsDocument == IsDocument(NoDocument)
  <1>1. AreAnchors(<<>>)
    <2>1. <<>> \in Seq([node : Pointers, file : Files, line : Nat]) /\ DOMAIN <<>> = {}
      OBVIOUS
    <2> QED BY <2>1 DEF AreAnchors
  <1>2. /\ <<>> \in Seq([file : Files \union {NoFile}, line : Nat])
        /\ <<>> \in Seq(Pointers)
    OBVIOUS
  <1> QED BY <1>1, <1>2, NothingIsRendered DEF IsDocument, NoDocument

LEMMA NavBegins == Init => NavInv
  <1> SUFFICES ASSUME Init PROVE NavInv
    OBVIOUS
  <1>1. /\ Len(NoDocument.diags) = 0 /\ Len(NoVerdict.findings) = 0 /\ NoVerdict.findings = <<>>
        /\ Lines(<<>>) = 1 /\ Len(<<>>) = 0 /\ DOMAIN <<>> = {}
    BY DEF NoDocument, NoVerdict, Lines
  <1>2. IsRender(<<>>) /\ AreAnchors(<<>>) /\ <<>> \in Seq(Pointers)
    BY NothingIsDocument, NothingIsRendered DEF IsDocument, NoDocument
  <1>3. Typed(ui)
    <2>1. /\ DOMAIN ui = FieldNames
          /\ ui.focused = "tree" /\ ui.left = "browse" /\ ui.file = NoFile /\ ui.rows = 1
          /\ ui.nav = 1 /\ ui.row = 1 /\ ~ui.editing /\ ~ui.dirty /\ ~ui.searching /\ ~ui.toggled
          /\ ui.editing \in BOOLEAN /\ ui.dirty \in BOOLEAN /\ ui.searching \in BOOLEAN /\ ui.toggled \in BOOLEAN
          /\ ui.format = "JSON" /\ ui.body = <<>> /\ ui.cursor = 1
      BY DEF Init, FieldNames
    <2>2. /\ ui.query = "none" /\ ui.match = 1 /\ ui.doc = NoDocument /\ ui.anchors = <<>>
          /\ ui.yaml = "none" /\ ui.gen = 0 /\ ui.diag = 1 /\ ui.tab = "scan" /\ ui.verdict = NoVerdict
          /\ ui.follow = "off" /\ ui.overlay = "none" /\ ui.started = 1 /\ ui.scanning = 1
          /\ ui.converting = {} /\ ui.checking = {}
      BY DEF Init
    <2>3. /\ DOMAIN NoVerdict = {"findings", "ran", "cursor"}
          /\ NoVerdict.ran \in BOOLEAN /\ NoVerdict.cursor = 1
      BY DEF NoVerdict
    <2>4. ui.diag \in 1..Max({1, Len(ui.doc.diags)}) /\ ui.verdict.cursor \in 1..Max({1, Len(ui.verdict.findings)})
      <3>1. Len(ui.doc.diags) = 0 /\ Len(ui.verdict.findings) = 0
        BY <1>1, <2>2
      <3>2. Max({1, Len(ui.doc.diags)}) = 1 /\ Max({1, Len(ui.verdict.findings)}) = 1
        BY <3>1, OneAtLeast
      <3> QED BY <2>2, <2>3, <3>2
    <2>5. IsRender(ui.body) /\ IsDocument(ui.doc) /\ AreAnchors(ui.anchors) /\ ui.verdict.findings \in Seq(Pointers)
      BY <1>1, <1>2, <2>1, <2>2, NothingIsDocument
    <2>6. ui.nav \in 1..ui.rows /\ ui.row \in 1..ui.rows /\ ui.cursor \in 1..Lines(ui.body)
      <3>1. Lines(ui.body) = 1
        BY <1>1, <2>1
      <3> QED BY <2>1, <3>1
    <2> QED BY <2>1, <2>2, <2>3, <2>4, <2>5, <2>6 DEF Typed, Panes
  <1>4. Guttered(ui)
    <2>1. LocalRefLines(<<>>) = {} /\ AnchoredPointers(<<>>) = {}
      BY <1>1 DEF LocalRefLines, AnchoredPointers
    <2> QED BY <2>1 DEF Init, Guttered
  <1>5. Walks(ui)
    BY DEF Init, Walks, NoCycle
  <1>6. Mirrors(ui)
    BY DEF Init, Mirrors
  <1> QED BY <1>3, <1>4, <1>5, <1>6 DEF NavInv, Current

LEMMA NavStep == NavInv /\ [Next]_vars => NavInv'
  <1> SUFFICES ASSUME NavInv, [Next]_vars PROVE NavInv'
    OBVIOUS
  <1>1. CASE Next
    BY <1>1, NextKeeps DEF Kept, NavInv
  <1>2. CASE UNCHANGED vars
    BY <1>2 DEF vars, NavInv
  <1> QED BY <1>1, <1>2

LEMMA Navigates == Spec => []NavInv
  BY NavBegins, NavStep, PTL DEF Spec

\* A node is on one line, so a line is dotted when it declares an anchored node.
LEMMA DotsAreAnchors ==
    ASSUME NEW u, Typed(u), Guttered(u), NEW line \in DOMAIN u.body
    PROVE  line \in u.dots <=> \E n \in AnchoredPointers(u.anchors) : Declares(u.body[line], n)
  <1>1. IsRender(u.body) /\ line # 0
    BY RenderLines DEF Typed
  <1>2. ASSUME NEW n, LineForPointer(u.body, n) = line PROVE Declares(u.body[line], n)
    BY <1>1, <1>2, LineOfNode
  <1>3. ASSUME NEW n, Declares(u.body[line], n) PROVE LineForPointer(u.body, n) = line
    BY <1>1, <1>3, LineOfNode
  <1> QED BY <1>1, <1>2, <1>3 DEF Guttered

\* Whatever scans, conversions and validations arrive, in whatever order, and
\* whatever the keys, the mouse and the overlays did before: no cursor and no
\* selection of genspec-tui is past the end of its list, the walk of F3 is over
\* the references of the render on screen, and the gutters mark it.
THEOREM PanesStayCurrent == Spec => []PanesAreCurrent
  <1>1. NavInv => PanesAreCurrent
    <2> SUFFICES ASSUME NavInv PROVE PanesAreCurrent
      OBVIOUS
    <2>1. Typed(ui) /\ Guttered(ui) /\ Walks(ui)
      BY DEF NavInv, Current
    <2>2. SelectionsAreListed
      <3>1. \A n : LineForPointer(ui.body, n) # 0 => LineForPointer(ui.body, n) \in DOMAIN ui.body
        BY <2>1, LineOfNode, RenderLines DEF Typed
      <3>2. ui.dots \union ui.arrows \subseteq DOMAIN ui.body
        BY <2>1, <3>1 DEF Guttered, LocalRefLines
      <3> QED BY <2>1, <3>2 DEF Typed, SelectionsAreListed
    <2>3. CyclesAreCurrent
      BY <2>1 DEF Walks, CyclesAreCurrent
    <2>4. GuttersAreCurrent
      BY <2>1, DotsAreAnchors DEF Guttered, GuttersAreCurrent
    <2> QED BY <2>2, <2>3, <2>4 DEF PanesAreCurrent
  <1> QED BY <1>1, Navigates, PTL

\* While a pane drives, the viewer is at the position and the cursor at the node
\* it selects: every way the driver, the render, the anchors or the diagnostics
\* can change ends with the followers told, or with the mode left.  And no step
\* hides that position, by the tree or the editor, unless they hid that very file
\* before (syncFollowIfActive, driveSpecToSource).
THEOREM FollowersAlwaysMirror == Spec => FollowersMirror
  <1>1. ASSUME NEW u, Mirrors(u) PROVE FollowersHold(u)
    <2>1. CASE u.follow = "spec"
      BY <1>1, <2>1, Zenon DEF Mirrors, Shows, Followed, FollowersHold
    <2>2. CASE u.follow = "diag"
      BY <1>1, <2>2 DEF Mirrors, Shows, ShowsLine, Followed, FollowersHold
    <2>3. CASE u.follow \notin {"spec", "diag"}
      BY <1>1, <2>3 DEF Mirrors, ShowsLine, Followed, FollowersHold
    <2> QED BY <2>1, <2>2, <2>3
  <1>2. NavInv /\ NavInv' /\ [Next]_vars => [FollowersHold(ui') /\ StaysInSight(ui, ui')]_ui
    <2>1. NavInv' => FollowersHold(ui')
      BY <1>1 DEF NavInv
    <2> QED BY <2>1, NextKeeps DEF Kept, vars
  <1> QED BY <1>2, Navigates, PTL DEF Spec, FollowersMirror

\* Unless a follower moves it, a new render - of a scan, a conversion or the
\* other format - leaves the cursor on the node it was on, or on the nearest
\* ancestor that is left, whatever the two renders are (restoreCursorTo).
THEOREM CursorStaysOnNode == Spec => CursorKeepsNode
  <1> DEFINE Kind ==
        ui.body # <<>> /\ ui'.body \notin {<<>>, ui.body} /\ ~SpecIsDriven
          => LET kept == Nearest(PointerAt(ui.body, ui.cursor), Rendered(ui'.body))
             IN kept # Nowhere => ui'.cursor = LineForPointer(ui'.body, kept)
  <1>1. NavInv /\ [Next]_vars => [Kind]_ui
    <2> SUFFICES ASSUME NavInv, Next PROVE Kind
      BY DEF vars
    <2>1. KeepsNode(ui, ui')
      BY NextKeeps DEF Kept
    <2> QED BY <2>1 DEF KeepsNode, KeptNode, SpecIsDriven, Driven
  <1> QED BY <1>1, Navigates, PTL DEF Spec, CursorKeepsNode
=============================================================================
