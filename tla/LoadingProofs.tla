--------------------------- MODULE LoadingProofs ---------------------------
(***************************************************************************)
(* What is scanned is indexed with its source, for every scan.  The        *)
(* argument: a package under scan is never made from types alone, so       *)
(* whichever object of its path the index met first has its source.        *)
(***************************************************************************)
EXTENDS Genspec, SequenceTheorems, WellFoundedInduction, TLAPS

\* The paths that only ever come with their source.
Scanned(p) == IF Strategy # "go/packages" THEN InMainModule(scan.layout, p) ELSE p \in TargetPaths

PackageOK(id) ==
    /\ packages[id] = [dir |-> packages[id].dir, syntax |-> packages[id].syntax, typed |-> packages[id].typed,
                       bodies |-> packages[id].bodies, imports |-> packages[id].imports, listError |-> packages[id].listError]
    /\ packages[id].syntax = TRUE \/ ~Scanned(PathOf(id))
    /\ packages[id].syntax \in BOOLEAN
    /\ packages[id].syntax = TRUE => packages[id].dir # None
    /\ packages[id].syntax = FALSE => id = Types(PathOf(id))
    /\ \A q \in DOMAIN packages[id].imports : packages[id].imports[q] \in DOMAIN packages

CallOK(c) ==
    /\ c = [path |-> c.path, dir |-> c.dir, todo |-> c.todo, root |-> c.root, for |-> c.for]
    /\ Source(c.path) \in DOMAIN packages
    /\ c.root = TRUE => Scanned(c.path)

ScanOK == IsScan(scan)
StagesOK ==
    /\ stage = "source" => Strategy # "go/packages"
    /\ stage = "list" => Strategy = "go/packages" /\ stack = <<>>
    /\ stage \in {"start", "source", "list", "attach", "check"} => index = NoMap
PackagesOK == packages = [id \in DOMAIN packages |-> packages[id]] /\ \A id \in DOMAIN packages : PackageOK(id)
CallsOK == \E S : stack \in Seq(S) /\ \A c \in S : CallOK(c)
RootsOK == \A id \in Loaded : id \in DOMAIN packages /\ Scanned(PathOf(id))
IndexOK == \A p \in DOMAIN index : index[p] \in DOMAIN packages /\ PathOf(index[p]) = p
IndexedOK == stage = "lookups" => \A id \in Loaded : PathOf(id) \in DOMAIN index

IInv == ScanOK /\ StagesOK /\ PackagesOK /\ CallsOK /\ RootsOK /\ IndexOK /\ IndexedOK

\* The lookups rest on two more: a package without its source is known as one once the sources are
\* attached, and what was given up has no files.
NotedOK == stage # "attach" => \A id \in DOMAIN packages : packages[id].syntax = FALSE => PathOf(id) \in DOMAIN exportOnly
GivenUpOK == \A p \in failed : p \in DOMAIN index /\ ~HasFiles(index[p])
NotAsked == failed = {} /\ \A p \in DOMAIN answers : answers[p] = <<>>
AnswersOK ==
    /\ stage # "lookups" => NotAsked
    /\ \A p \in DOMAIN answers : answers[p] \in Seq({"found", "sourceless", "missing"})

AInv == IInv /\ NotedOK /\ GivenUpOK /\ AnswersOK /\ DeclarationsAreFound

-----------------------------------------------------------------------------

\* A target is in the main module.
LEMMA TargetInMain == ASSUME ScanOK, NEW d \in Targets PROVE InMainModule(scan.layout, TargetPath(d))
<1>1. /\ scan.layout.main # None
      /\ scan.layout.main \in Seq(Segments)
      /\ d \in Seq(Segments)
  BY DEF ScanOK, IsScan, Targets
<1>2. /\ Len(scan.layout.main) <= Len(scan.layout.main \o d)
      /\ SubSeq(scan.layout.main \o d, 1, Len(scan.layout.main)) = scan.layout.main
  BY <1>1
<1> QED BY <1>1, <1>2 DEF InMainModule, IsPrefixOf, TargetPath

\* What is found first is found in one of the places looked at.
LEMMA FirstIsFound ==
    ASSUME NEW a, NEW b, NEW c, NEW d, NEW e
    PROVE  /\ FirstFound(<<a, b, c, d, e>>) \subseteq a \cup b \cup c \cup d \cup e
           /\ a \cup b \cup c \cup d \cup e # {} => FirstFound(<<a, b, c, d, e>>) # {}
<1> DEFINE s == <<a, b, c, d, e>>
           Is(i) == i \in DOMAIN s /\ s[i] # {} /\ \A j \in 1..(i - 1) : s[j] = {}
<1>1. s[1] = a /\ s[2] = b /\ s[3] = c /\ s[4] = d /\ s[5] = e /\ DOMAIN s = 1..5
  OBVIOUS
<1>2. CASE \A i \in DOMAIN s : s[i] = {}
  BY <1>1, <1>2 DEF FirstFound
<1>3. CASE \E i \in DOMAIN s : s[i] # {}
  <2>1. \E i \in DOMAIN s : Is(i)
    <3>1. s[1] # {} => Is(1)
      BY <1>1
    <3>2. s[1] = {} /\ s[2] # {} => Is(2)
      BY <1>1
    <3>3. s[1] = {} /\ s[2] = {} /\ s[3] # {} => Is(3)
      BY <1>1
    <3>4. s[1] = {} /\ s[2] = {} /\ s[3] = {} /\ s[4] # {} => Is(4)
      BY <1>1
    <3>5. s[1] = {} /\ s[2] = {} /\ s[3] = {} /\ s[4] = {} /\ s[5] # {} => Is(5)
      BY <1>1
    <3> HIDE DEF s, Is
    <3> QED BY <1>1, <1>3, <3>1, <3>2, <3>3, <3>4, <3>5
  <2>2. PICK k \in DOMAIN s : k = (CHOOSE i \in DOMAIN s : s[i] # {} /\ \A j \in 1..(i - 1) : s[j] = {}) /\ s[k] # {}
    BY <2>1
  <2>3. FirstFound(s) = s[k]
    BY <1>3, <2>2 DEF FirstFound
  <2> HIDE DEF s, Is
  <2>4. s[k] \subseteq a \cup b \cup c \cup d \cup e
    BY <1>1, <2>2
  <2> QED BY <2>2, <2>3, <2>4 DEF s
<1> QED BY <1>2, <1>3

\* An import leads to a directory.
LEMMA PlacesAreDirectories ==
    ASSUME ScanOK, NEW p
    PROVE  /\ None \notin StdDirs(scan.layout, p)
           /\ \A m, root : None \notin DirIn(scan.layout, m, root, p)
           /\ None \notin WorkspaceDirs(scan.layout, p) \cup MainDirs(scan.layout, p) \cup VendorDirs(scan.layout, p)
           /\ None \notin RequiredDirs(scan.layout, p)
<1>1. None \notin StdDirs(scan.layout, p)
  BY DEF ScanOK, IsScan, Directories, StdDirs
<1>2. ASSUME NEW m, NEW root PROVE None \notin DirIn(scan.layout, m, root, p)
  BY DEF ScanOK, IsScan, Directories, DirIn
<1> QED BY <1>1, <1>2, Zenon DEF WorkspaceDirs, MainDirs, VendorDirs, RequiredDirs

LEMMA ResolvedIsDirectory ==
    ASSUME ScanOK, NEW p, NEW from, NEW r \in ResolveImportFrom(scan.layout, p, from) PROVE r.dir # None
<1>1. CASE UnderGoroot(from) /\ p \in scan.layout.stdVendor
  BY <1>1 DEF ResolveImportFrom, ScanOK, IsScan, Directories
<1>2. CASE ~(UnderGoroot(from) /\ p \in scan.layout.stdVendor)
  <2>1. r.dir \in ResolveImport(scan.layout, p)
    BY <1>2 DEF ResolveImportFrom
  <2>2. ResolveImport(scan.layout, p)
            \subseteq StdDirs(scan.layout, p) \cup WorkspaceDirs(scan.layout, p) \cup MainDirs(scan.layout, p)
                      \cup VendorDirs(scan.layout, p) \cup RequiredDirs(scan.layout, p)
    BY FirstIsFound DEF ResolveImport
  <2> QED BY <2>1, <2>2, PlacesAreDirectories
<1> QED BY <1>1, <1>2

\* So does a path the go command finds, as it does every target's and all it follows.
LEMMA ListedIsDirectory == ASSUME ScanOK, NEW p \in Reachable PROVE GoDir(p) # None
<1> DEFINE L == scan.layout
           mods == ModDirs(L)
           required == UNION {DirIn(L, m, mods[m], p) : m \in LongestModuleMatch(mods, p)}
<1>1. GoDirs(p) = FirstFound(<<StdDirs(L, p), WorkspaceDirs(L, p), MainDirs(L, p), VendorDirs(L, p), required>>)
  BY DEF GoDirs
<1>2. None \notin required
  BY PlacesAreDirectories, Zenon
<1> HIDE DEF required, L
<1>3. None \notin GoDirs(p)
  <2>1. GoDirs(p) \subseteq StdDirs(L, p) \cup WorkspaceDirs(L, p) \cup MainDirs(L, p) \cup VendorDirs(L, p) \cup required
    BY <1>1, FirstIsFound
  <2> QED BY <1>2, <2>1, PlacesAreDirectories DEF L
<1>4. GoDirs(p) # {}
  <2>1. CASE p \in TargetPaths
    <3>1. PICK d \in Targets : p = TargetPath(d)
      BY <2>1 DEF TargetPaths, ListedTargets
    <3>2. /\ L.main \in Seq(Segments) /\ L.main # None /\ d \in Seq(Segments)
          /\ d \in L.tree[MainRoot] /\ MainRoot \in DOMAIN L.tree
      BY DEF L, Targets, ScanOK, IsScan
    <3>3. p = L.main \o d
      BY <3>1 DEF TargetPath, L
    <3>4. /\ Len(L.main) <= Len(p) /\ SubSeq(p, 1, Len(L.main)) = L.main
          /\ SubSeq(p, Len(L.main) + 1, Len(p)) = d
      <4> DEFINE m == L.main
      <4>1. m \in Seq(Segments) /\ p = m \o d
        BY <3>2, <3>3
      <4> HIDE DEF m
      <4>2. Len(p) = Len(m) + Len(d) /\ Len(m) \in Nat /\ Len(d) \in Nat
        BY <3>2, <4>1
      <4>3. SubSeq(p, 1, Len(m)) = m
        BY <3>2, <4>1
      <4>4. SubSeq(p, Len(m) + 1, Len(p)) = d
        <5> DEFINE rest == SubSeq(p, Len(m) + 1, Len(p))
        <5>1. \A i \in 1..Len(d) : p[Len(m) + i] = d[i]
          BY <3>2, <4>1, <4>2
        <5>2. p \in Seq(Segments)
          BY <3>2, <4>1
        <5>3. \A i \in (Len(m) + 1)..Len(p) : p[i] \in Segments
          BY <4>2, <5>2
        <5>4. /\ rest \in Seq(Segments) /\ Len(rest) = Len(d)
              /\ \A i \in 1..Len(d) : rest[i] = p[Len(m) + i]
          BY <4>2, <5>3, SubSeqProperties
        <5> HIDE DEF rest
        <5>5. rest = d
          BY <3>2, <5>1, <5>4
        <5> QED BY <5>5 DEF rest
      <4>5. Len(m) <= Len(p)
        BY <4>2
      <4> QED BY <4>3, <4>4, <4>5, Zenon DEF m
    <3>5. MainDirs(L, p) = {<<MainRoot, d>>}
      BY <3>2, <3>4 DEF MainDirs, DirIn, IsPrefixOf, Below
    <3>6. MainDirs(L, p) # {}
      BY <3>5
    <3> QED BY <1>1, <3>6, FirstIsFound
  <2>2. CASE IsListed(p)
    BY <2>2 DEF IsListed
  <2> QED BY <2>1, <2>2 DEF Reachable
<1> QED BY <1>3, <1>4 DEF GoDir

LEMMA StartOK == Init => IInv
<1> SUFFICES ASSUME Init PROVE IInv
  OBVIOUS
<1>1. stack \in Seq({})
  BY DEF Init, InitWith
<1>2. DOMAIN NoMap = {} /\ NoMap = [x \in {} |-> NoMap[x]]
  BY DEF NoMap
<1>3. ScanOK /\ StagesOK /\ IndexOK /\ IndexedOK
  BY <1>2, ScansAssumption DEF Init, InitWith, ScanOK, StagesOK, IndexOK, IndexedOK
<1>4. PackagesOK
  BY <1>2, Zenon DEF Init, InitWith, PackagesOK
<1>5. CallsOK
  BY <1>1 DEF CallsOK
<1>6. RootsOK
  BY <1>2 DEF Init, InitWith, RootsOK, Loaded
<1> QED
  BY <1>3, <1>4, <1>5, <1>6 DEF IInv

\* What is scanned is given by the scan.
LEMMA ScannedKept == ASSUME UNCHANGED scan PROVE \A p : Scanned(p)' <=> Scanned(p)
<1>1. \A d : Content(d)' = Content(d)
  BY DEF Content
<1>2. Targets' = Targets
  BY Zenon DEF Targets
<1>3. ListedTargets' = ListedTargets
  BY <1>1, <1>2, Zenon DEF ListedTargets
<1>4. TargetPaths' = TargetPaths
  BY <1>3, Zenon DEF TargetPaths, TargetPath
<1>5. Strategy' = Strategy
  BY DEF Strategy
<1> QED BY <1>4, <1>5, Zenon DEF Scanned

LEMMA CallKept ==
    ASSUME UNCHANGED scan, DOMAIN packages \subseteq DOMAIN packages', NEW c, CallOK(c) PROVE CallOK(c)'
  BY ScannedKept DEF CallOK

\* A call with an import less is the same call.
LEMMA LessToDo ==
    ASSUME NEW c, NEW X, c = [path |-> c.path, dir |-> c.dir, todo |-> c.todo, root |-> c.root, for |-> c.for]
    PROVE  [c EXCEPT !.todo = X] = [path |-> c.path, dir |-> c.dir, todo |-> X, root |-> c.root, for |-> c.for]
  OBVIOUS

\* The calls stay sound while packages are added and none loses its source.
LEMMA CallsKept ==
    ASSUME CallsOK, UNCHANGED scan, DOMAIN packages \subseteq DOMAIN packages', stack' = stack
    PROVE  CallsOK'
<1>1. PICK S : stack \in Seq(S) /\ \A c \in S : CallOK(c)
  BY DEF CallsOK
<1>2. \A c \in S : CallOK(c)'
  BY <1>1, CallKept
<1> QED BY <1>1, <1>2 DEF CallsOK

\* The same when a call is over, another is opened, or one has an import less.
LEMMA CallsChanged ==
    ASSUME CallsOK, UNCHANGED scan, DOMAIN packages \subseteq DOMAIN packages',
           stack # <<>>,
           \/ stack' = Callers
           \/ \E p : stack' = Done(p)
           \/ \E p, c : stack' = Append(Done(p), c) /\ CallOK(c)'
    PROVE  CallsOK'
<1>1. PICK S : stack \in Seq(S) /\ \A c \in S : CallOK(c)
  BY DEF CallsOK
<1>2. \A c \in S : CallOK(c)'
  BY <1>1, CallKept
<1>3. Callers \in Seq(S) /\ Top \in S
  BY <1>1 DEF Callers, Top
<1>4. CASE stack' = Callers
  BY <1>2, <1>3, <1>4 DEF CallsOK
<1>5. ASSUME NEW p PROVE \E T : Done(p) \in Seq(T) /\ \A c \in T : CallOK(c)'
  <2>0. PICK t : t = Top
    OBVIOUS
  <2>1. CallOK(t) /\ CallOK(t)'
    BY <2>0, <1>1, <1>2, <1>3
  <2>2. PICK e : e = [path |-> t.path, dir |-> t.dir, todo |-> t.todo \ {p}, root |-> t.root, for |-> t.for]
    OBVIOUS
  <2>3. [t EXCEPT !.todo = @ \ {p}] = e
    <3>1. t = [path |-> t.path, dir |-> t.dir, todo |-> t.todo, root |-> t.root, for |-> t.for]
      BY <2>1, Zenon DEF CallOK
    <3> QED BY <3>1, <2>2, LessToDo, Zenon
  <2>4. CallOK(e)'
    BY <2>1, <2>2 DEF CallOK
  <2>5. Append(Callers, e) \in Seq(S \cup {e})
    BY <1>3
  <2>6. Done(p) = Append(Callers, e)
    BY <2>0, <2>3, Zenon DEF Done
  <2>7. \A c \in S \cup {e} : CallOK(c)'
    BY <1>2, <2>4
  <2> QED BY <2>5, <2>6, <2>7, Zenon
<1>6. CASE \E p : stack' = Done(p)
  BY <1>5, <1>6 DEF CallsOK
<1>7. CASE \E p, c : stack' = Append(Done(p), c) /\ CallOK(c)'
  <2>1. PICK p, c : stack' = Append(Done(p), c) /\ CallOK(c)'
    BY <1>7
  <2>2. PICK T : Done(p) \in Seq(T) /\ \A d \in T : CallOK(d)'
    BY <1>5
  <2>3. stack' \in Seq(T \cup {c})
    <3>1. Done(p) \in Seq(T \cup {c})
      BY <2>2
    <3> HIDE DEF Done
    <3> QED BY <3>1, <2>1
  <2> QED BY <2>1, <2>2, <2>3 DEF CallsOK
<1> QED BY <1>4, <1>6, <1>7

-----------------------------------------------------------------------------

\* A package of a load, as it is made.
LEMMA NewPackage ==
    ASSUME NEW dir, NEW syntax, NEW known
    PROVE  Package(dir, syntax, known) = [dir |-> dir, syntax |-> syntax, typed |-> known, bodies |-> FALSE,
                                          imports |-> NoMap, listError |-> FALSE]
  BY DEF Package

\* Nothing but the packages changed, by one that is sound, or that has an import more.
LEMMA OthersKept ==
    ASSUME IInv, UNCHANGED <<scan, index>>, DOMAIN packages \subseteq DOMAIN packages',
           stage' = stage, roots' = roots, stage = "source", PackagesOK', CallsOK'
    PROVE  IInv'
<1>1. ScanOK' /\ StagesOK'
  BY DEF IInv, ScanOK, StagesOK, Strategy
<1>2. RootsOK'
  BY ScannedKept DEF IInv, RootsOK, Loaded
<1>3. IndexOK' /\ IndexedOK'
  BY DEF IInv, IndexOK, IndexedOK
<1> QED BY <1>1, <1>2, <1>3 DEF IInv

LEMMA OpenKeeps ==
    ASSUME PackagesOK, UNCHANGED scan, NEW p, NEW dir, NEW isRoot, NEW for, NEW callers, Open(p, dir, isRoot, for, callers),
           dir # None
    PROVE  PackagesOK' /\ DOMAIN packages' = DOMAIN packages \cup {Source(p)}
<1>1. PICK b : b = [Package(dir, TRUE, FALSE) EXCEPT !.listError = (Content(dir) = "broken")]
  OBVIOUS
<1>2. b = [dir |-> dir, syntax |-> TRUE, typed |-> FALSE, bodies |-> FALSE, imports |-> NoMap, listError |-> (Content(dir) = "broken")]
  BY <1>1 DEF Package
<1>3. packages' = [id \in DOMAIN packages \cup {Source(p)} |-> IF id = Source(p) THEN b ELSE packages[id]]
  BY <1>1, Zenon DEF Open, With
<1>4. DOMAIN packages' = DOMAIN packages \cup {Source(p)}
  BY <1>3
<1>5. ASSUME NEW id \in DOMAIN packages' PROVE PackageOK(id)'
  <2>1. CASE id = Source(p)
    <3>1. packages'[id] = b
      BY <1>3, <1>4, <2>1
    <3>2. DOMAIN NoMap = {}
      BY DEF NoMap
    <3> QED BY <3>1, <3>2, <1>2 DEF PackageOK
  <2>2. CASE id # Source(p)
    <3>1. packages'[id] = packages[id] /\ id \in DOMAIN packages
      BY <1>3, <1>4, <2>2
    <3> QED BY <3>1, <1>4, ScannedKept DEF PackagesOK, PackageOK
  <2> QED BY <2>1, <2>2
<1> QED BY <1>3, <1>4, <1>5 DEF PackagesOK

\* A package with an import more.
Importing(pkg, p, to) ==
    [dir |-> pkg.dir, syntax |-> pkg.syntax, typed |-> pkg.typed, bodies |-> pkg.bodies,
     imports |-> With(pkg.imports, p, to), listError |-> pkg.listError]

LEMMA ImportAdded ==
    ASSUME NEW P, P = [o \in DOMAIN P |-> P[o]], NEW id \in DOMAIN P, NEW p, NEW to,
           P[id] = [dir |-> P[id].dir, syntax |-> P[id].syntax, typed |-> P[id].typed, bodies |-> P[id].bodies,
                    imports |-> P[id].imports, listError |-> P[id].listError]
    PROVE  [P EXCEPT ![id].imports = With(@, p, to)] = [o \in DOMAIN P |-> IF o = id THEN Importing(P[id], p, to) ELSE P[o]]
<1>1. ASSUME NEW X
      PROVE  [P EXCEPT ![id].imports = X] = [o \in DOMAIN P |-> IF o = id THEN [P[id] EXCEPT !.imports = X] ELSE P[o]]
  OBVIOUS
<1>2. ASSUME NEW r, NEW X, r = [dir |-> r.dir, syntax |-> r.syntax, typed |-> r.typed, bodies |-> r.bodies,
                                imports |-> r.imports, listError |-> r.listError]
      PROVE  [r EXCEPT !.imports = X] = [dir |-> r.dir, syntax |-> r.syntax, typed |-> r.typed, bodies |-> r.bodies,
                                         imports |-> X, listError |-> r.listError]
  BY <1>2
<1>3. [P[id] EXCEPT !.imports = With(@, p, to)] = Importing(P[id], p, to)
  BY <1>2, Zenon DEF Importing
<1> QED BY <1>1, <1>3, Zenon

LEMMA ImportAddedTo ==
    ASSUME PackagesOK, NEW id \in DOMAIN packages, NEW p, NEW to
    PROVE  [packages EXCEPT ![id].imports = With(@, p, to)]
               = [o \in DOMAIN packages |-> IF o = id THEN Importing(packages[id], p, to) ELSE packages[o]]
<1>1. packages = [o \in DOMAIN packages |-> packages[o]]
  BY DEF PackagesOK
<1>2. packages[id] = [dir |-> packages[id].dir, syntax |-> packages[id].syntax, typed |-> packages[id].typed,
                      bodies |-> packages[id].bodies, imports |-> packages[id].imports, listError |-> packages[id].listError]
  BY Zenon DEF PackagesOK, PackageOK
<1> QED BY <1>1, <1>2, ImportAdded

\* The packages stay sound when one imports another of them.
LEMMA ImportingOK ==
    ASSUME PackagesOK, UNCHANGED scan, NEW id \in DOMAIN packages, NEW p, NEW to,
           DOMAIN packages \subseteq DOMAIN packages', to \in DOMAIN packages',
           packages'[id] = Importing(packages[id], p, to)
    PROVE  PackageOK(id)'
<1>1. PackageOK(id)
  BY DEF PackagesOK
<1>2. \A q \in DOMAIN packages'[id].imports : packages'[id].imports[q] \in DOMAIN packages'
  BY <1>1 DEF PackageOK, Importing, With
<1>3. Scanned(PathOf(id))' <=> Scanned(PathOf(id))
  BY ScannedKept DEF PathOf
<1> QED BY <1>1, <1>2, <1>3 DEF PackageOK, Importing

LEMMA PackageKept ==
    ASSUME PackagesOK, UNCHANGED scan, NEW id \in DOMAIN packages,
           DOMAIN packages \subseteq DOMAIN packages', packages'[id] = packages[id]
    PROVE  PackageOK(id)'
<1>1. PackageOK(id)
  BY DEF PackagesOK
<1>2. Scanned(PathOf(id))' <=> Scanned(PathOf(id))
  BY ScannedKept DEF PathOf
<1> QED BY <1>1, <1>2 DEF PackageOK

\* Or when it changes in nothing but its types and its imports.
LEMMA SourceKept ==
    ASSUME PackagesOK, UNCHANGED scan, NEW id \in DOMAIN packages, NEW pkg, packages'[id] = pkg,
           pkg = [dir |-> pkg.dir, syntax |-> pkg.syntax, typed |-> pkg.typed, bodies |-> pkg.bodies,
                  imports |-> pkg.imports, listError |-> pkg.listError],
           pkg.syntax = packages[id].syntax, pkg.dir = packages[id].dir,
           \A q \in DOMAIN pkg.imports : pkg.imports[q] \in DOMAIN packages'
    PROVE  PackageOK(id)'
<1>1. PackageOK(id)
  BY DEF PackagesOK
<1>2. Scanned(PathOf(id))' <=> Scanned(PathOf(id))
  BY ScannedKept DEF PathOf
<1> QED BY <1>1, <1>2 DEF PackageOK

LEMMA ImportExportedKeeps == ASSUME IInv, ImportExported PROVE IInv'
<1>0. PICK p \in Top.todo : MayBeExported(p) /\ \E l \in Located(p) :
          packages' = With([packages EXCEPT ![Source(Top.path)].imports = With(@, p, Types(p))],
                           Types(p), Package(l.dir, FALSE, TRUE)) /\ stack' = Done(p)
  BY DEF ImportExported
<1>1. PICK l \in Located(p) :
          /\ MayBeExported(p)
          /\ packages' = With([packages EXCEPT ![Source(Top.path)].imports = With(@, p, Types(p))],
                              Types(p), Package(l.dir, FALSE, TRUE))
          /\ stack' = Done(p)
  BY <1>0
<1>2. PICK t : t = Top
  OBVIOUS
<1>3. CallOK(t)
  BY <1>2 DEF IInv, CallsOK, ImportExported, Top
<1>4. PICK P : P = [packages EXCEPT ![Source(t.path)].imports = With(@, p, Types(p))]
  OBVIOUS
<1>5. P = [o \in DOMAIN packages |-> IF o = Source(t.path) THEN Importing(packages[Source(t.path)], p, Types(p)) ELSE packages[o]]
  <2>1. PICK id : id = Source(t.path)
    OBVIOUS
  <2>2. id \in DOMAIN packages /\ PackagesOK
    BY <1>3, <2>1, Zenon DEF IInv, CallOK
  <2>3. [packages EXCEPT ![id].imports = With(@, p, Types(p))]
            = [o \in DOMAIN packages |-> IF o = id THEN Importing(packages[id], p, Types(p)) ELSE packages[o]]
    BY <2>2, ImportAddedTo
  <2> QED BY <1>4, <2>1, <2>3, Zenon
<1>6. packages' = [o \in DOMAIN packages \cup {Types(p)} |-> IF o = Types(p) THEN Package(l.dir, FALSE, TRUE) ELSE P[o]]
  BY <1>1, <1>2, <1>4, <1>5 DEF With
<1>7. DOMAIN packages' = DOMAIN packages \cup {Types(p)}
  BY <1>6
<1>8. ASSUME NEW id \in DOMAIN packages' PROVE PackageOK(id)'
  <2>1. CASE id = Types(p)
    <3>0. PICK b : b = [dir |-> l.dir, syntax |-> FALSE, typed |-> TRUE, bodies |-> FALSE,
                        imports |-> NoMap, listError |-> FALSE]
      OBVIOUS
    <3>1. packages'[id] = b
      BY <1>6, <1>7, <2>1, <3>0, NewPackage
    <3>2. ~Scanned(PathOf(id))
      BY <1>1, <2>1 DEF IInv, StagesOK, ImportExported, MayBeExported, Scanned, PathOf, Types
    <3>3. ~Scanned(PathOf(id))'
      BY <3>2, ScannedKept DEF ImportExported, PathOf
    <3>4. DOMAIN NoMap = {}
      BY DEF NoMap
    <3>5. id = Types(PathOf(id))
      BY <2>1 DEF Types, PathOf
    <3> QED BY <3>0, <3>1, <3>3, <3>4, <3>5 DEF PackageOK
  <2>2. CASE id # Types(p) /\ id = Source(t.path)
    <3>1. packages'[id] = Importing(packages[id], p, Types(p)) /\ id \in DOMAIN packages
      BY <1>3, <1>5, <1>6, <1>7, <2>2 DEF CallOK
    <3> QED BY <3>1, <1>7, ImportingOK DEF IInv, ImportExported
  <2>3. CASE id # Types(p) /\ id # Source(t.path)
    <3>1. packages'[id] = packages[id] /\ id \in DOMAIN packages
      BY <1>5, <1>6, <1>7, <2>3
    <3> QED BY <3>1, <1>7, PackageKept DEF IInv, ImportExported
  <2> QED BY <2>1, <2>2, <2>3
<1>9. PackagesOK'
  BY <1>6, <1>7, <1>8 DEF PackagesOK
<1>10. CallsOK'
  BY <1>1, <1>7, CallsChanged DEF IInv, ImportExported
<1> QED BY <1>7, <1>9, <1>10, OthersKept DEF ImportExported, looking

LEMMA LoadRootKeeps == ASSUME IInv, LoadRoot PROVE IInv'
<1>1. PICK d \in Targets :
          \/ Known(TargetPath(d)) /\ roots' = With(roots, d, Source(TargetPath(d))) /\ UNCHANGED <<packages, stack>>
          \/ roots' = With(roots, d, None) /\ UNCHANGED <<packages, stack>>
          \/ Open(TargetPath(d), <<MainRoot, d>>, TRUE, None, <<>>) /\ UNCHANGED roots
  BY DEF LoadRoot
<1>2. Scanned(TargetPath(d)) /\ stage = "source"
  BY TargetInMain DEF IInv, StagesOK, LoadRoot, Scanned
<1>3. UNCHANGED <<scan, stage, index>>
  BY DEF LoadRoot, looking
<1>4. CASE Open(TargetPath(d), <<MainRoot, d>>, TRUE, None, <<>>) /\ UNCHANGED roots
  <2>1. PackagesOK' /\ DOMAIN packages' = DOMAIN packages \cup {Source(TargetPath(d))}
    <3>1. <<MainRoot, d>> # None
      BY DEF IInv, ScanOK, IsScan, Directories, Targets
    <3> QED BY <1>3, <1>4, <3>1, OpenKeeps DEF IInv
  <2>2. PICK e : e = [path |-> TargetPath(d), dir |-> <<MainRoot, d>>, todo |-> Imported(<<MainRoot, d>>), root |-> TRUE, for |-> None]
    OBVIOUS
  <2>3. stack' \in Seq({e})
    BY <1>4, <2>2 DEF Open
  <2>4. CallOK(e)'
    <3>1. Scanned(e.path)'
      BY <1>2, <1>3, <2>2, ScannedKept
    <3> QED BY <2>1, <2>2, <3>1 DEF CallOK
  <2>5. CallsOK'
    BY <2>3, <2>4 DEF CallsOK
  <2> QED BY <1>2, <1>3, <1>4, <2>1, <2>5, OthersKept
<1>5. CASE UNCHANGED <<packages, stack>> /\ ((Known(TargetPath(d)) /\ roots' = With(roots, d, Source(TargetPath(d)))) \/ roots' = With(roots, d, None))
  <2>1. PackagesOK'
    BY <1>3, <1>5, ScannedKept DEF IInv, PackagesOK, PackageOK
  <2>2. CallsOK'
    BY <1>3, <1>5, CallsKept DEF IInv
  <2>3. RootsOK'
    <3>1. Loaded' \subseteq Loaded \cup {Source(TargetPath(d))}
      BY <1>5 DEF Loaded, With
    <3>2. PathOf(Source(TargetPath(d))) = TargetPath(d)
      BY DEF PathOf, Source
    <3>3. Known(TargetPath(d)) \/ Loaded' \subseteq Loaded
      BY <1>5 DEF Loaded, With
    <3> QED BY <1>2, <1>3, <1>5, <3>1, <3>2, <3>3, ScannedKept DEF IInv, RootsOK, Known
  <2>4. ScanOK' /\ StagesOK' /\ IndexOK' /\ IndexedOK'
    BY <1>2, <1>3, <1>5 DEF IInv, ScanOK, StagesOK, IndexOK, IndexedOK, Strategy
  <2> QED BY <2>1, <2>2, <2>3, <2>4 DEF IInv
<1> QED BY <1>1, <1>4, <1>5

LEMMA ImportSourceKeeps == ASSUME IInv, ImportSource PROVE IInv'
<1>1. PICK p \in Top.todo : \E r \in ResolveImportFrom(scan.layout, p, Top.dir) :
          \/ /\ Known(r.path)
             /\ packages' = [packages EXCEPT ![Source(Top.path)].imports = With(@, p, Source(r.path))]
             /\ stack' = Done(p)
          \/ Open(r.path, r.dir, FALSE, p, Done(p))
  BY DEF ImportSource
<1>2. PICK r \in ResolveImportFrom(scan.layout, p, Top.dir) :
          \/ /\ Known(r.path)
             /\ packages' = [packages EXCEPT ![Source(Top.path)].imports = With(@, p, Source(r.path))]
             /\ stack' = Done(p)
          \/ Open(r.path, r.dir, FALSE, p, Done(p))
  BY <1>1
<1>3. UNCHANGED <<scan, stage, index, roots>> /\ stage = "source" /\ stack # <<>>
  BY DEF ImportSource, looking
<1>4. CASE Open(r.path, r.dir, FALSE, p, Done(p))
  <2>1. PackagesOK' /\ DOMAIN packages' = DOMAIN packages \cup {Source(r.path)}
    <3>1. r.dir # None
      BY ResolvedIsDirectory DEF IInv
    <3> QED BY <1>3, <1>4, <3>1, OpenKeeps DEF IInv
  <2>2. PICK e : e = [path |-> r.path, dir |-> r.dir, todo |-> Imported(r.dir), root |-> FALSE, for |-> p]
    OBVIOUS
  <2>3. stack' = Append(Done(p), e)
    BY <1>4, <2>2 DEF Open
  <2>5. CallOK(e)'
    BY <2>1, <2>2 DEF CallOK
  <2>6. CallsOK'
    BY <1>3, <2>1, <2>3, <2>5, CallsChanged DEF IInv
  <2> QED BY <1>3, <2>1, <2>6, OthersKept
<1>5. CASE /\ Known(r.path)
           /\ packages' = [packages EXCEPT ![Source(Top.path)].imports = With(@, p, Source(r.path))]
           /\ stack' = Done(p)
  <2>1. PICK id : id = Source(Top.path)
    OBVIOUS
  <2>2. id \in DOMAIN packages /\ PackagesOK
    BY <1>3, <2>1 DEF IInv, CallsOK, CallOK, Top
  <2>3. [packages EXCEPT ![id].imports = With(@, p, Source(r.path))]
            = [o \in DOMAIN packages |-> IF o = id THEN Importing(packages[id], p, Source(r.path)) ELSE packages[o]]
    BY <2>2, ImportAddedTo
  <2>4. packages' = [o \in DOMAIN packages |-> IF o = id THEN Importing(packages[id], p, Source(r.path)) ELSE packages[o]]
    BY <1>5, <2>1, <2>3, Zenon
  <2>5. PackagesOK' /\ DOMAIN packages' = DOMAIN packages
    <3>1. DOMAIN packages' = DOMAIN packages
      BY <2>4
    <3>2. ASSUME NEW o \in DOMAIN packages' PROVE PackageOK(o)'
      <4>1. CASE o = id
        <5>1. packages'[o] = Importing(packages[o], p, Source(r.path))
          BY <2>2, <2>4, <4>1
        <5> QED BY <5>1, <3>1, <1>3, <1>5, <2>2, ImportingOK DEF Known
      <4>2. CASE o # id
        <5>1. packages'[o] = packages[o]
          BY <2>4, <3>1, <4>2
        <5> QED BY <5>1, <3>1, <1>3, <2>2, PackageKept
      <4> QED BY <4>1, <4>2
    <3> QED BY <2>4, <3>1, <3>2 DEF PackagesOK
  <2>6. CallsOK'
    BY <1>3, <1>5, <2>5, CallsChanged DEF IInv
  <2> QED BY <1>3, <2>5, <2>6, OthersKept
<1> QED BY <1>2, <1>4, <1>5

\* A package whose types are known.
Checked(pkg, y, x) ==
    [dir |-> pkg.dir, syntax |-> pkg.syntax, typed |-> y, bodies |-> x, imports |-> pkg.imports, listError |-> pkg.listError]

LEMMA TypesChecked ==
    ASSUME NEW r, NEW y, NEW x, r = [dir |-> r.dir, syntax |-> r.syntax, typed |-> r.typed, bodies |-> r.bodies,
                                     imports |-> r.imports, listError |-> r.listError]
    PROVE  [r EXCEPT !.typed = y, !.bodies = x] = Checked(r, y, x)
<1>1. [r EXCEPT !.typed = y, !.bodies = x] = [[r EXCEPT !.typed = y] EXCEPT !.bodies = x]
  OBVIOUS
<1>2. PICK e : e = [dir |-> r.dir, syntax |-> r.syntax, typed |-> y, bodies |-> r.bodies, imports |-> r.imports, listError |-> r.listError]
  OBVIOUS
<1>3. [r EXCEPT !.typed = y] = e
  BY <1>2
<1>4. [e EXCEPT !.bodies = x]
          = [dir |-> r.dir, syntax |-> r.syntax, typed |-> y, bodies |-> x, imports |-> r.imports, listError |-> r.listError]
  BY <1>2
<1> QED BY <1>1, <1>3, <1>4, Zenon DEF Checked

LEMMA CheckTypesKeeps == ASSUME IInv, CheckTypes PROVE IInv'
<1>1. PICK t : t = Top
  OBVIOUS
<1>2. CallOK(t) /\ stack # <<>> /\ stage = "source" /\ UNCHANGED <<scan, stage, index>> /\ stack' = Callers
  BY <1>1 DEF IInv, CallsOK, CheckTypes, Top, looking
<1>3. PICK id : id = Source(t.path)
  OBVIOUS
<1>4. id \in DOMAIN packages /\ PackagesOK
  BY <1>2, <1>3 DEF IInv, CallOK
<1>5. PICK P : P = [packages EXCEPT ![id] = [@ EXCEPT !.typed = TRUE, !.bodies = t.root]]
  OBVIOUS
<1>6. P = [o \in DOMAIN packages |-> IF o = id THEN Checked(packages[id], TRUE, t.root) ELSE packages[o]]
  <2>1. PICK y : y = TRUE
    OBVIOUS
  <2>2. PICK x : x = t.root
    OBVIOUS
  <2>3. [packages[id] EXCEPT !.typed = y, !.bodies = x] = Checked(packages[id], y, x)
    <3>1. packages[id] = [dir |-> packages[id].dir, syntax |-> packages[id].syntax, typed |-> packages[id].typed,
                          bodies |-> packages[id].bodies, imports |-> packages[id].imports, listError |-> packages[id].listError]
      BY <1>4, Zenon DEF PackagesOK, PackageOK
    <3> QED BY <3>1, TypesChecked, Zenon
  <2>4. ASSUME NEW z PROVE [packages EXCEPT ![id] = z] = [o \in DOMAIN packages |-> IF o = id THEN z ELSE packages[o]]
    <3>1. packages = [o \in DOMAIN packages |-> packages[o]]
      BY <1>4 DEF PackagesOK
    <3> QED BY <3>1
  <2>5. P = [packages EXCEPT ![id] = Checked(packages[id], y, x)]
    BY <1>5, <2>1, <2>2, <2>3, Zenon
  <2> QED BY <2>1, <2>2, <2>4, <2>5, Zenon
<1>7. ASSUME NEW o \in DOMAIN packages
      PROVE  /\ P[o] = [dir |-> P[o].dir, syntax |-> P[o].syntax, typed |-> P[o].typed, bodies |-> P[o].bodies,
                        imports |-> P[o].imports, listError |-> P[o].listError]
             /\ P[o].syntax = packages[o].syntax
             /\ P[o].dir = packages[o].dir
             /\ P[o].imports = packages[o].imports
  BY <1>4, <1>6 DEF PackagesOK, PackageOK, Checked
<1>8. CASE t.root /\ packages' = P /\ roots' = With(roots, t.dir[2], Source(t.path))
  <2>1. DOMAIN packages' = DOMAIN packages /\ packages' = [o \in DOMAIN packages' |-> packages'[o]]
    BY <1>6, <1>8
  <2>2. PackagesOK'
    <3>1. ASSUME NEW o \in DOMAIN packages' PROVE PackageOK(o)'
      <4>1. packages'[o] = P[o]
        BY <1>8
      <4>2. \A q \in DOMAIN P[o].imports : P[o].imports[q] \in DOMAIN packages'
        BY <1>4, <1>7, <2>1 DEF PackagesOK, PackageOK
      <4> QED BY <4>1, <4>2, <1>2, <1>4, <1>7, <2>1, SourceKept
    <3> QED BY <2>1, <3>1 DEF PackagesOK
  <2>3. CallsOK'
    BY <1>2, <2>1, CallsChanged DEF IInv
  <2>4. RootsOK'
    <3>1. Loaded' \subseteq Loaded \cup {id}
      BY <1>3, <1>8 DEF Loaded, With
    <3>2. PathOf(id) = t.path
      BY <1>3 DEF PathOf, Source
    <3> QED BY <1>2, <1>4, <1>8, <2>1, <3>1, <3>2, ScannedKept DEF IInv, RootsOK, CallOK
  <2>5. ScanOK' /\ StagesOK' /\ IndexOK' /\ IndexedOK'
    BY <1>2, <2>1 DEF IInv, ScanOK, StagesOK, IndexOK, IndexedOK, Strategy
  <2> QED BY <2>2, <2>3, <2>4, <2>5 DEF IInv
<1>9. CASE \E c : UNCHANGED roots /\ packages' = [P EXCEPT ![c].imports = With(@, t.for, id)]
  <2>1. PICK c : UNCHANGED roots /\ packages' = [P EXCEPT ![c].imports = With(@, t.for, id)]
    BY <1>9
  <2>2. DOMAIN packages' = DOMAIN packages /\ packages' = [o \in DOMAIN packages' |-> packages'[o]]
    BY <1>6, <2>1
  <2>3. ASSUME NEW o \in DOMAIN packages' PROVE PackageOK(o)'
    <3>1. CASE o # c
      <4>1. packages'[o] = P[o]
        BY <1>6, <2>1, <2>2, <3>1
      <4>2. \A q \in DOMAIN P[o].imports : P[o].imports[q] \in DOMAIN packages'
        BY <1>4, <1>7, <2>2 DEF PackagesOK, PackageOK
      <4> QED BY <4>1, <4>2, <1>2, <1>4, <1>7, <2>2, SourceKept
    <3>2. CASE o = c
      <4>1. P = [q \in DOMAIN P |-> P[q]] /\ o \in DOMAIN P
        BY <1>6, <2>2
      <4>2. packages' = [q \in DOMAIN P |-> IF q = o THEN Importing(P[o], t.for, id) ELSE P[q]]
        BY <1>7, <2>1, <2>2, <3>2, <4>1, ImportAdded
      <4>3. packages'[o] = Importing(P[o], t.for, id)
        BY <4>1, <4>2
      <4>4. PICK pkg : pkg = Importing(P[o], t.for, id)
        OBVIOUS
      <4>5. \A q \in DOMAIN P[o].imports : P[o].imports[q] \in DOMAIN packages'
        BY <1>4, <1>7, <2>2 DEF PackagesOK, PackageOK
      <4>6. pkg.imports = With(P[o].imports, t.for, id) /\ pkg.syntax = P[o].syntax /\ pkg.dir = P[o].dir
            /\ pkg = [dir |-> pkg.dir, syntax |-> pkg.syntax, typed |-> pkg.typed, bodies |-> pkg.bodies,
                      imports |-> pkg.imports, listError |-> pkg.listError]
        BY <4>4 DEF Importing
      <4>7. \A q \in DOMAIN pkg.imports : pkg.imports[q] \in DOMAIN packages'
        BY <1>4, <2>2, <4>5, <4>6 DEF With
      <4> QED BY <4>3, <4>4, <4>6, <4>7, <1>2, <1>4, <1>7, <2>2, SourceKept
    <3> QED BY <3>1, <3>2
  <2>4. PackagesOK'
    BY <2>2, <2>3 DEF PackagesOK
  <2>5. CallsOK'
    BY <1>2, <2>2, CallsChanged DEF IInv
  <2> QED BY <1>2, <2>1, <2>2, <2>4, <2>5, OthersKept
<1> QED BY <1>1, <1>3, <1>5, <1>8, <1>9 DEF CheckTypes

\* The steps that load nothing.
LEMMA NothingLoaded ==
    ASSUME IInv, UNCHANGED <<scan, packages, roots, index>>, StagesOK', CallsOK', IndexedOK' PROVE IInv'
<1>1. ScanOK' /\ IndexOK'
  BY DEF IInv, ScanOK, IndexOK
<1>2. PackagesOK'
  <2>1. ASSUME NEW id \in DOMAIN packages' PROVE PackageOK(id)'
    BY PackageKept DEF IInv
  <2> QED BY <2>1 DEF IInv, PackagesOK
<1>3. RootsOK'
  BY ScannedKept DEF IInv, RootsOK, Loaded
<1> QED BY <1>1, <1>2, <1>3 DEF IInv

LEMMA StartKeeps == ASSUME IInv, Start PROVE IInv'
<1>1. UNCHANGED <<scan, index>> /\ packages' = NoMap /\ roots' = NoMap /\ stack' = <<>> /\ index = NoMap
  BY DEF IInv, StagesOK, Start, looking
<1>2. DOMAIN NoMap = {} /\ NoMap = [x \in {} |-> NoMap[x]]
  BY DEF NoMap
<1>3. stage' \in {"list", "source", "aborted"} /\ (stage' = "list" <=> Strategy = "go/packages")
  BY DEF Start
<1>4. ScanOK' /\ StagesOK' /\ IndexOK' /\ IndexedOK'
  BY <1>1, <1>2, <1>3 DEF IInv, ScanOK, StagesOK, IndexOK, IndexedOK, Strategy
<1>5. PackagesOK'
  BY <1>1, <1>2, Zenon DEF PackagesOK
<1>6. CallsOK'
  <2>1. stack' \in Seq({})
    BY <1>1
  <2> QED BY <2>1 DEF CallsOK
<1>7. RootsOK'
  BY <1>1, <1>2 DEF RootsOK, Loaded
<1> QED BY <1>4, <1>5, <1>6, <1>7 DEF IInv

LEMMA ImportStubKeeps == ASSUME IInv, ImportStub PROVE IInv'
<1>1. PICK p \in Top.todo : stack' = Done(p)
  BY DEF ImportStub
<1>2. UNCHANGED <<scan, stage, packages, roots, index>> /\ stack # <<>>
  BY DEF ImportStub, looking
<1>3. CallsOK'
  BY <1>1, <1>2, CallsChanged DEF IInv
<1>4. StagesOK' /\ IndexedOK'
  BY <1>2 DEF IInv, StagesOK, IndexedOK, ImportStub, Strategy
<1> QED BY <1>2, <1>3, <1>4, NothingLoaded

LEMMA StageStepsKeep ==
    ASSUME IInv, \/ EndSource \/ Fallback \/ DetectDegradedLoad \/ EndIndex \/ UNCHANGED vars PROVE IInv'
<1>1. UNCHANGED <<scan, packages, stack, roots, index>>
  BY DEF EndSource, Fallback, DetectDegradedLoad, EndIndex, vars, loading, looking
<1>2. CallsOK'
  BY <1>1, CallsKept DEF IInv
<1>3. StagesOK'
  BY <1>1 DEF IInv, StagesOK, EndSource, Fallback, DetectDegradedLoad, EndIndex, vars, Strategy
<1>4. IndexedOK'
  BY <1>1 DEF IInv, IndexedOK, EndSource, Fallback, DetectDegradedLoad, EndIndex, vars, Unindexed, Loaded
<1> QED BY <1>1, <1>2, <1>3, <1>4, NothingLoaded

LEMMA ListPackagesKeeps == ASSUME IInv, ListPackages PROVE IInv'
<1>1. /\ packages' = GoList
      /\ roots' = [d \in ListedTargets |-> Source(TargetPath(d))]
      /\ UNCHANGED <<scan, stack, index>>
      /\ stage' \in {"attach", "check"} /\ index = NoMap
      /\ Strategy = "go/packages"
  BY DEF IInv, StagesOK, ListPackages, looking
<1>2. PICK W : W = Reachable
  OBVIOUS
<1>3. packages' = [id \in {Way(p) : p \in W} |->
                      [Package(GoDir(PathOf(id)), id = Source(PathOf(id)), TRUE) EXCEPT
                          !.bodies = PathOf(id) \in TargetPaths,
                          !.imports = [q \in W \cap Imported(GoDir(PathOf(id))) |-> Way(q)],
                          !.listError = Content(GoDir(PathOf(id))) = "broken"
                                        \/ (PathOf(id) \in TargetPaths /\ compiled /\ GoDir(PathOf(id)) \in scan.failing)]]
  BY <1>1, <1>2, Zenon DEF GoList
<1>4. DOMAIN packages' = {Way(p) : p \in W}
  BY <1>3
<1>5. ASSUME NEW id \in DOMAIN packages' PROVE PackageOK(id)'
  <2>1. PICK p \in W : id = Way(p)
    BY <1>4
  <2>2. PICK dir, s, t, b, m, e :
            /\ t = TRUE /\ dir = GoDir(PathOf(id)) /\ s = (id = Source(PathOf(id))) /\ b = (PathOf(id) \in TargetPaths)
            /\ m = [q \in W \cap Imported(GoDir(PathOf(id))) |-> Way(q)]
            /\ e = (Content(GoDir(PathOf(id))) = "broken"
                       \/ (PathOf(id) \in TargetPaths /\ compiled /\ GoDir(PathOf(id)) \in scan.failing))
    OBVIOUS
  <2>3. packages'[id] = [Package(dir, s, t) EXCEPT !.bodies = b, !.imports = m, !.listError = e]
    BY <1>3, <1>4, <2>2, Zenon
  <2>4. packages'[id] = [dir |-> dir, syntax |-> s, typed |-> t, bodies |-> b, imports |-> m, listError |-> e]
    <3>1. PICK f : f = FALSE
      OBVIOUS
    <3>2. PICK r : r = [dir |-> dir, syntax |-> s, typed |-> t, bodies |-> f, imports |-> NoMap, listError |-> f]
      OBVIOUS
    <3>3. Package(dir, s, t) = r
      BY <3>1, <3>2 DEF Package
    <3>4. PICK r1 : r1 = [dir |-> dir, syntax |-> s, typed |-> t, bodies |-> b, imports |-> NoMap, listError |-> f]
      OBVIOUS
    <3>5. [r EXCEPT !.bodies = b] = r1
      BY <3>2, <3>4
    <3>6. PICK r2 : r2 = [dir |-> dir, syntax |-> s, typed |-> t, bodies |-> b, imports |-> m, listError |-> f]
      OBVIOUS
    <3>7. [r1 EXCEPT !.imports = m] = r2
      BY <3>4, <3>6
    <3>8. [r2 EXCEPT !.listError = e]
              = [dir |-> dir, syntax |-> s, typed |-> t, bodies |-> b, imports |-> m, listError |-> e]
      BY <3>6
    <3>9. [r EXCEPT !.bodies = b, !.imports = m, !.listError = e]
              = [[[r EXCEPT !.bodies = b] EXCEPT !.imports = m] EXCEPT !.listError = e]
      OBVIOUS
    <3> QED BY <2>3, <3>3, <3>5, <3>7, <3>8, <3>9, Zenon
  <2>5. PICK pkg : pkg = [dir |-> dir, syntax |-> s, typed |-> t, bodies |-> b, imports |-> m, listError |-> e]
    OBVIOUS
  <2>6. \A q \in DOMAIN pkg.imports : pkg.imports[q] \in DOMAIN packages'
    BY <1>4, <2>2, <2>5
  <2>7. s = TRUE \/ ~Scanned(PathOf(id))
    BY <1>1, <2>1, <2>2 DEF Way, Source, Types, PathOf, Scanned
  <2>8. s \in BOOLEAN
    BY <2>2
  <2>9. Scanned(PathOf(id))' <=> Scanned(PathOf(id))
    BY <1>1, ScannedKept DEF PathOf
  <2>10. packages'[id] = pkg
    BY <2>4, <2>5
  <2>11. PathOf(id) = p /\ (id = Source(PathOf(id)) \/ id = Types(PathOf(id)))
    BY <2>1 DEF Way, Source, Types, PathOf
  <2>12. dir # None
    BY <1>2, <2>2, <2>11, ListedIsDirectory DEF IInv
  <2>13. s = FALSE => id = Types(PathOf(id))
    BY <2>2, <2>11
  <2> QED BY <2>5, <2>6, <2>7, <2>8, <2>9, <2>10, <2>12, <2>13 DEF PackageOK
<1>6. PackagesOK'
  BY <1>3, <1>5 DEF PackagesOK
<1>7. RootsOK'
  <2>1. ASSUME NEW id \in Loaded' PROVE id \in DOMAIN packages' /\ Scanned(PathOf(id))'
    <3>1. PICK d \in ListedTargets : id = Source(TargetPath(d))
      BY <1>1, <2>1 DEF Loaded
    <3>2. TargetPath(d) \in TargetPaths /\ TargetPath(d) \in W /\ PathOf(id) = TargetPath(d)
      BY <1>2, <3>1 DEF TargetPaths, Reachable, PathOf, Source
    <3>3. id = Way(TargetPath(d))
      BY <3>1, <3>2 DEF Way
    <3>4. Scanned(PathOf(id))
      BY <1>1, <3>2 DEF Scanned
    <3> QED BY <1>1, <1>4, <3>2, <3>3, <3>4, ScannedKept DEF PathOf
  <2> QED BY <2>1 DEF RootsOK
<1>8. CallsOK'
  <2>1. stack' \in Seq({})
    BY <1>1 DEF IInv, StagesOK, ListPackages
  <2> QED BY <2>1 DEF CallsOK
<1>9. ScanOK' /\ StagesOK' /\ IndexedOK'
  BY <1>1 DEF IInv, ScanOK, StagesOK, IndexedOK, Strategy
<1>10. IndexOK'
  <2>1. DOMAIN NoMap = {}
    BY DEF NoMap
  <2> QED BY <1>1, <2>1 DEF IndexOK
<1> QED BY <1>6, <1>7, <1>8, <1>9, <1>10 DEF IInv

\* Some packages get their source.
LEMMA SourcesGiven ==
    ASSUME PackagesOK, UNCHANGED scan, DOMAIN packages' = DOMAIN packages,
           packages' = [id \in DOMAIN packages' |-> packages'[id]],
           \A id \in DOMAIN packages : \E s \in BOOLEAN :
               /\ packages[id].syntax = TRUE => s = TRUE
               /\ s = TRUE => packages[id].dir # None
               /\ packages'[id] = [packages[id] EXCEPT !.syntax = s]
    PROVE  PackagesOK'
<1>1. ASSUME NEW id \in DOMAIN packages' PROVE PackageOK(id)'
  <2>1. PICK s \in BOOLEAN :
            /\ packages[id].syntax = TRUE => s = TRUE
            /\ s = TRUE => packages[id].dir # None
            /\ packages'[id] = [packages[id] EXCEPT !.syntax = s]
    OBVIOUS
  <2>2. PackageOK(id)
    BY DEF PackagesOK
  <2>3. ASSUME NEW r, NEW x, r = [dir |-> r.dir, syntax |-> r.syntax, typed |-> r.typed, bodies |-> r.bodies,
                                  imports |-> r.imports, listError |-> r.listError]
        PROVE  [r EXCEPT !.syntax = x] = [dir |-> r.dir, syntax |-> x, typed |-> r.typed, bodies |-> r.bodies,
                                          imports |-> r.imports, listError |-> r.listError]
    BY <2>3
  <2>4. packages'[id] = [dir |-> packages[id].dir, syntax |-> s, typed |-> packages[id].typed,
                         bodies |-> packages[id].bodies, imports |-> packages[id].imports, listError |-> packages[id].listError]
    BY <2>1, <2>2, <2>3, Zenon DEF PackageOK
  <2>5. Scanned(PathOf(id))' <=> Scanned(PathOf(id))
    BY ScannedKept DEF PathOf
  <2>6. PICK pkg : pkg = packages'[id]
    OBVIOUS
  <2>7. /\ pkg = [dir |-> pkg.dir, syntax |-> pkg.syntax, typed |-> pkg.typed, bodies |-> pkg.bodies,
                  imports |-> pkg.imports, listError |-> pkg.listError]
        /\ pkg.syntax = s /\ pkg.imports = packages[id].imports /\ pkg.dir = packages[id].dir
    BY <2>4, <2>6
  <2> QED BY <2>1, <2>2, <2>5, <2>6, <2>7 DEF PackageOK
<1> QED BY <1>1 DEF PackagesOK

LEMMA AttachSourcesKeeps == ASSUME IInv, AttachSources PROVE IInv'
<1>1. /\ packages' = [id \in DOMAIN packages |-> [packages[id] EXCEPT !.syntax = @ \/ CarriesMarker(packages[id].dir)]]
      /\ UNCHANGED <<scan, stack, roots, index>> /\ stage' = "check" /\ stage = "attach"
  BY DEF AttachSources, loading, looking
<1>2. DOMAIN packages' = DOMAIN packages /\ packages' = [id \in DOMAIN packages' |-> packages'[id]]
  BY <1>1
<1>3. ASSUME NEW id \in DOMAIN packages
      PROVE  \E s \in BOOLEAN : /\ packages[id].syntax = TRUE => s = TRUE
                                /\ s = TRUE => packages[id].dir # None
                                /\ packages'[id] = [packages[id] EXCEPT !.syntax = s]
  <2>1. PICK s : s = (packages[id].syntax \/ CarriesMarker(packages[id].dir))
    OBVIOUS
  <2>2. packages'[id] = [packages[id] EXCEPT !.syntax = s]
    BY <1>1, <2>1, Zenon
  <2>3. s \in BOOLEAN /\ (packages[id].syntax = TRUE => s = TRUE)
    BY <2>1
  <2>4. s = TRUE => packages[id].dir # None
    BY <2>1 DEF IInv, PackagesOK, PackageOK, ScanOK, IsScan, CarriesMarker
  <2> QED BY <2>2, <2>3, <2>4
<1>4. PackagesOK'
  BY <1>1, <1>2, <1>3, SourcesGiven DEF IInv
<1>5. CallsOK'
  BY <1>1, <1>2, CallsKept DEF IInv
<1>6. RootsOK'
  BY <1>1, <1>2, ScannedKept DEF IInv, RootsOK, Loaded
<1>7. ScanOK' /\ StagesOK' /\ IndexOK' /\ IndexedOK'
  BY <1>1, <1>2 DEF IInv, ScanOK, StagesOK, IndexOK, IndexedOK, Strategy
<1> QED BY <1>4, <1>5, <1>6, <1>7 DEF IInv

LEMMA ProcessKeeps == ASSUME IInv, NEW id \in DOMAIN packages, stage = "index", Process(id) PROVE IInv'
<1>1. /\ index' = With(index, PathOf(id), id)
      /\ UNCHANGED <<scan, packages, stack, roots>> /\ stage' \in {"index", "aborted"}
  BY DEF Process, loading
<1>2. IndexOK'
  BY <1>1 DEF IInv, IndexOK, With, PathOf
<1>3. CallsOK'
  BY <1>1, CallsKept DEF IInv
<1>4. PackagesOK'
  <2>1. ASSUME NEW o \in DOMAIN packages' PROVE PackageOK(o)'
    BY <1>1, PackageKept DEF IInv
  <2> QED BY <1>1, <2>1 DEF IInv, PackagesOK
<1>5. RootsOK'
  BY <1>1, ScannedKept DEF IInv, RootsOK, Loaded
<1>6. ScanOK' /\ StagesOK' /\ IndexedOK'
  BY <1>1 DEF IInv, ScanOK, StagesOK, IndexedOK
<1> QED BY <1>2, <1>3, <1>4, <1>5, <1>6 DEF IInv

LEMMA IndexingKeeps == ASSUME IInv, IndexImport \/ IndexRoot PROVE IInv'
<1>1. CASE IndexImport
  <2>1. PICK id \in Pending : Process(id)
    BY <1>1 DEF IndexImport
  <2>2. id \in DOMAIN packages
    BY <2>1 DEF Pending, ImportsOf, IInv, IndexOK, PackagesOK, PackageOK
  <2> QED BY <1>1, <2>1, <2>2, ProcessKeeps DEF IndexImport
<1>2. CASE IndexRoot
  <2>1. PICK id \in Unindexed : Process(id)
    BY <1>2 DEF IndexRoot
  <2>2. id \in DOMAIN packages
    BY <2>1 DEF Unindexed, IInv, RootsOK
  <2> QED BY <1>2, <2>1, <2>2, ProcessKeeps DEF IndexRoot
<1> QED BY <1>1, <1>2

LEMMA LookupsKeep == ASSUME IInv, NEW p, FindDecl(p) \/ FileForPos(p) PROVE IInv'
<1>1. /\ UNCHANGED <<scan, stack, roots, index, stage>> /\ stage = "lookups"
      /\ \/ packages' = packages
         \/ p \in DOMAIN index /\ packages[index[p]].dir # None /\ packages' = [packages EXCEPT ![index[p]].syntax = TRUE]
  BY DEF FindDecl, FileForPos, ReadBackOnDemand, HasFiles, loading
<1>2. packages = [id \in DOMAIN packages |-> packages[id]]
  BY DEF IInv, PackagesOK
<1>3. DOMAIN packages' = DOMAIN packages /\ packages' = [id \in DOMAIN packages' |-> packages'[id]]
  BY <1>1, <1>2
<1>4. PackagesOK'
  <2>1. CASE packages' = packages
    <3>1. ASSUME NEW o \in DOMAIN packages' PROVE PackageOK(o)'
      BY <1>1, <2>1, PackageKept DEF IInv
    <3> QED BY <1>3, <3>1 DEF PackagesOK
  <2>2. CASE p \in DOMAIN index /\ packages[index[p]].dir # None /\ packages' = [packages EXCEPT ![index[p]].syntax = TRUE]
    <3>1. ASSUME NEW id \in DOMAIN packages
          PROVE  \E s \in BOOLEAN : /\ packages[id].syntax = TRUE => s = TRUE
                                    /\ s = TRUE => packages[id].dir # None
                                    /\ packages'[id] = [packages[id] EXCEPT !.syntax = s]
      <4>1. PICK t : t = TRUE
        OBVIOUS
      <4>2. PICK u : u = packages[id].syntax
        OBVIOUS
      <4>3. PackageOK(id)
        BY DEF IInv, PackagesOK
      <4>4. CASE id = index[p]
        <5>1. packages'[id] = [packages[id] EXCEPT !.syntax = t]
          BY <1>2, <2>2, <4>1, <4>4
        <5> QED BY <2>2, <4>1, <4>4, <5>1
      <4>5. CASE id # index[p]
        <5>1. packages'[id] = packages[id]
          BY <1>2, <2>2, <4>5
        <5>2. [packages[id] EXCEPT !.syntax = u] = packages[id]
          <6>1. ASSUME NEW r, r = [dir |-> r.dir, syntax |-> r.syntax, typed |-> r.typed, bodies |-> r.bodies,
                                   imports |-> r.imports, listError |-> r.listError]
                PROVE  [r EXCEPT !.syntax = r.syntax] = r
            BY <6>1
          <6> QED BY <4>2, <4>3, <6>1, Zenon DEF PackageOK
        <5>3. u \in BOOLEAN /\ (u = TRUE => packages[id].dir # None)
          BY <4>2, <4>3 DEF PackageOK
        <5> QED BY <4>2, <5>1, <5>2, <5>3
      <4> QED BY <4>4, <4>5
    <3> QED BY <1>1, <1>3, <3>1, SourcesGiven DEF IInv
  <2> QED BY <1>1, <2>1, <2>2
<1>5. CallsOK'
  BY <1>1, <1>3, CallsKept DEF IInv
<1>6. RootsOK'
  BY <1>1, <1>3, ScannedKept DEF IInv, RootsOK, Loaded
<1>7. ScanOK' /\ StagesOK' /\ IndexOK' /\ IndexedOK'
  BY <1>1, <1>3 DEF IInv, ScanOK, StagesOK, IndexOK, IndexedOK, Loaded
<1> QED BY <1>4, <1>5, <1>6, <1>7 DEF IInv

LEMMA NextKeeps == ASSUME IInv, [Next]_vars PROVE IInv'
<1>1. CASE Start
  BY <1>1, StartKeeps
<1>2. CASE LoadRoot
  BY <1>2, LoadRootKeeps
<1>3. CASE ImportExported
  BY <1>3, ImportExportedKeeps
<1>4. CASE ImportSource
  BY <1>4, ImportSourceKeeps
<1>5. CASE ImportStub
  BY <1>5, ImportStubKeeps
<1>6. CASE CheckTypes
  BY <1>6, CheckTypesKeeps
<1>7. CASE EndSource \/ Fallback \/ DetectDegradedLoad \/ EndIndex \/ UNCHANGED vars
  BY <1>7, StageStepsKeep
<1>8. CASE ListPackages
  BY <1>8, ListPackagesKeeps
<1>9. CASE AttachSources
  BY <1>9, AttachSourcesKeeps
<1>10. CASE IndexImport \/ IndexRoot
  BY <1>10, IndexingKeeps
<1>11. CASE \E p \in scan.wants : FindDecl(p) \/ FileForPos(p)
  BY <1>11, LookupsKeep
<1> QED BY <1>1, <1>2, <1>3, <1>4, <1>5, <1>6, <1>7, <1>8, <1>9, <1>10, <1>11 DEF Next

LEMMA SoundIsRead == IInv => ScannedIsRead
<1> SUFFICES ASSUME IInv, stage = "lookups", NEW id \in Loaded
             PROVE  PathOf(id) \in DOMAIN index /\ packages[index[PathOf(id)]].syntax
  BY DEF ScannedIsRead
<1>1. PathOf(id) \in DOMAIN index /\ Scanned(PathOf(id))
  BY DEF IInv, IndexedOK, RootsOK
<1>2. index[PathOf(id)] \in DOMAIN packages /\ PathOf(index[PathOf(id)]) = PathOf(id)
  BY <1>1 DEF IInv, IndexOK
<1>3. PackageOK(index[PathOf(id)])
  BY <1>2 DEF IInv, PackagesOK
<1> QED BY <1>1, <1>2, <1>3 DEF PackageOK

\* What is scanned is in the index with its source, whichever strategy loaded it and whatever was
\* imported before it (loadDir, importer.Import, golist.go, processPackage).
THEOREM ScannedAlwaysRead == Spec => []ScannedIsRead
<1>1. Init => IInv
  BY StartOK
<1>2. IInv /\ [Next]_vars => IInv'
  BY NextKeeps
<1>3. IInv => ScannedIsRead
  BY SoundIsRead
<1> QED BY <1>1, <1>2, <1>3, PTL DEF Spec
-----------------------------------------------------------------------------
(* The lookups *)

LEMMA SourceIsNotTypes == ASSUME NEW p PROVE Source(p) # Types(PathOf(Source(p))) /\ Types(p) = Types(PathOf(Types(p)))
  BY DEF Source, Types, PathOf

\* Until the index is there, nothing is asked.
LEMMA NothingAsked ==
    ASSUME AInv, stage # "lookups", UNCHANGED <<failed, answers>> PROVE GivenUpOK' /\ AnswersOK' /\ DeclarationsAreFound'
<1>1. NotAsked /\ NotAsked'
  BY DEF AInv, AnswersOK, NotAsked
<1>2. GivenUpOK' /\ AnswersOK'
  BY <1>1 DEF AInv, GivenUpOK, AnswersOK, NotAsked
<1>3. DOMAIN <<>> = {}
  OBVIOUS
<1> QED BY <1>1, <1>2, <1>3 DEF NotAsked, DeclarationsAreFound

\* A load only adds packages made from types, with a reason.
LEMMA NotedKept ==
    ASSUME AInv, IInv', stage # "attach", DOMAIN exportOnly \subseteq DOMAIN exportOnly',
           \A id \in DOMAIN packages' : id = Types(PathOf(id)) =>
               (id \in DOMAIN packages /\ packages'[id] = packages[id]) \/ PathOf(id) \in DOMAIN exportOnly'
    PROVE  NotedOK'
<1> SUFFICES ASSUME NEW id \in DOMAIN packages', packages'[id].syntax = FALSE PROVE PathOf(id) \in DOMAIN exportOnly'
  BY DEF NotedOK, PathOf
<1>1. id = Types(PathOf(id))
  BY DEF IInv, PackagesOK, PackageOK, PathOf, Types
<1> QED BY <1>1 DEF AInv, NotedOK

\* Those of the main module's packages, and of what is read from source, are not made from types.
LEMMA SourceStepsNote ==
    ASSUME AInv, IInv', LoadRoot \/ ImportSource \/ ImportStub \/ CheckTypes PROVE NotedOK'
<1>1. stage # "attach" /\ exportOnly' = exportOnly
  BY DEF LoadRoot, ImportSource, ImportStub, CheckTypes
<1>2. packages = [o \in DOMAIN packages |-> packages[o]]
  BY DEF AInv, IInv, PackagesOK
<1>3. ASSUME NEW p, NEW dir, NEW isRoot, NEW for, NEW callers, Open(p, dir, isRoot, for, callers)
      PROVE  NotedOK'
  <2>1. PICK b : packages' = With(packages, Source(p), b)
    BY <1>3 DEF Open
  <2>2. \A id \in DOMAIN packages' : id = Types(PathOf(id)) => id \in DOMAIN packages /\ packages'[id] = packages[id]
    BY <2>1, SourceIsNotTypes DEF With
  <2> QED BY <1>1, <2>2, NotedKept
<1>4. ASSUME NEW p, NEW to, packages' = [packages EXCEPT ![Source(Top.path)].imports = With(@, p, to)]
      PROVE  NotedOK'
  <2>1. PICK b : packages' = [packages EXCEPT ![Source(Top.path)] = b]
    BY <1>4
  <2>2. \A id \in DOMAIN packages' : id = Types(PathOf(id)) => id \in DOMAIN packages /\ packages'[id] = packages[id]
    BY <1>2, <2>1, SourceIsNotTypes
  <2> QED BY <1>1, <2>2, NotedKept
<1>5. CASE packages' = packages
  BY <1>1, <1>5, NotedKept
<1>6. CASE LoadRoot
  BY <1>3, <1>5, <1>6 DEF LoadRoot
<1>7. CASE ImportSource
  BY <1>3, <1>4, <1>7 DEF ImportSource
<1>8. CASE ImportStub
  BY <1>5, <1>8 DEF ImportStub
<1>9. CASE CheckTypes
  <2>1. PICK P : P = [packages EXCEPT ![Source(Top.path)] = [@ EXCEPT !.typed = TRUE, !.bodies = Top.root]]
    OBVIOUS
  <2>2. PICK b : P = [packages EXCEPT ![Source(Top.path)] = b]
    BY <2>1
  <2>3. \/ packages' = P
        \/ packages' = [P EXCEPT ![Source(Callers[Len(Callers)].path)].imports = With(@, Top.for, Source(Top.path))]
    BY <1>9, <2>1, Zenon DEF CheckTypes
  <2>4. packages' = P \/ \E c, y : packages' = [P EXCEPT ![Source(c)] = y]
    BY <2>3
  <2>5. DOMAIN P = DOMAIN packages /\ \A id \in DOMAIN packages : id # Source(Top.path) => P[id] = packages[id]
    BY <1>2, <2>2
  <2>6. P = [o \in DOMAIN P |-> P[o]]
    BY <1>2, <2>2
  <2>7. \A id \in DOMAIN packages' : id = Types(PathOf(id)) => id \in DOMAIN packages /\ packages'[id] = packages[id]
    BY <2>4, <2>5, <2>6, SourceIsNotTypes
  <2> QED BY <1>1, <2>7, NotedKept
<1> QED BY <1>6, <1>7, <1>8, <1>9

LEMMA ImportExportedNotes == ASSUME AInv, IInv', ImportExported PROVE NotedOK'
<1>1. PICK p \in Top.todo : \E l \in Located(p) :
          /\ Note({p}, l.why)
          /\ packages' = With([packages EXCEPT ![Source(Top.path)].imports = With(@, p, Types(p))],
                              Types(p), Package(l.dir, FALSE, TRUE))
  BY DEF ImportExported
<1>2. PICK l \in Located(p) :
          /\ Note({p}, l.why)
          /\ packages' = With([packages EXCEPT ![Source(Top.path)].imports = With(@, p, Types(p))],
                              Types(p), Package(l.dir, FALSE, TRUE))
  BY <1>1
<1>3. PICK b, t : packages' = With([packages EXCEPT ![Source(t)] = b], Types(p), Package(l.dir, FALSE, TRUE))
  BY <1>2
<1>4. packages = [o \in DOMAIN packages |-> packages[o]]
  BY DEF AInv, IInv, PackagesOK
<1>5. DOMAIN exportOnly' = DOMAIN exportOnly \cup {p}
  BY <1>2 DEF Note
<1>6. \A id \in DOMAIN packages' : id = Types(PathOf(id)) =>
          (id \in DOMAIN packages /\ packages'[id] = packages[id]) \/ PathOf(id) \in DOMAIN exportOnly'
  <2>1. \A id \in DOMAIN packages' : id = Types(p) \/ id \in DOMAIN packages
    BY <1>3, <1>4 DEF With
  <2>2. PathOf(Types(p)) = p
    BY DEF PathOf, Types
  <2>3. \A id \in DOMAIN packages : id = Types(p) \/ id = Source(t) \/ packages'[id] = packages[id]
    BY <1>3, <1>4 DEF With
  <2> QED BY <1>5, <2>1, <2>2, <2>3, SourceIsNotTypes
<1> QED BY <1>5, <1>6, NotedKept DEF ImportExported

LEMMA ListingNotes == ASSUME AInv, IInv', Start \/ ListPackages \/ AttachSources PROVE NotedOK'
<1>1. CASE Start
  <2>1. DOMAIN packages' = {}
    BY <1>1 DEF Start, NoMap
  <2> QED BY <2>1 DEF NotedOK
<1>2. CASE ListPackages /\ compiled
  BY <1>2 DEF ListPackages, NotedOK
<1>3. CASE ListPackages /\ ~compiled
  <2>1. \A id \in DOMAIN packages' : \E p : id = Way(p)
    BY <1>3 DEF ListPackages, GoList
  <2>2. \A id \in DOMAIN packages' : \E p : id = Source(p)
    BY <1>3, <2>1 DEF Way
  <2>3. stage # "attach" /\ exportOnly' = exportOnly
    BY <1>3 DEF ListPackages
  <2> QED BY <2>2, <2>3, NotedKept, SourceIsNotTypes
<1>4. CASE AttachSources
  <2> SUFFICES ASSUME NEW id \in DOMAIN packages', packages'[id].syntax = FALSE PROVE PathOf(id) \in DOMAIN exportOnly'
    BY DEF NotedOK, PathOf
  <2>1. packages' = [o \in DOMAIN packages |-> [packages[o] EXCEPT !.syntax = @ \/ CarriesMarker(packages[o].dir)]]
    BY <1>4 DEF AttachSources
  <2>2. id \in DOMAIN packages
    BY <2>1
  <2>3. PackageOK(id)
    BY <2>2 DEF AInv, IInv, PackagesOK
  <2>4. PICK x : x = (packages[id].syntax \/ CarriesMarker(packages[id].dir))
    OBVIOUS
  <2>5. packages'[id] = [packages[id] EXCEPT !.syntax = x]
    BY <2>1, <2>2, <2>4, Zenon
  <2>6. ASSUME NEW r, NEW y, r = [dir |-> r.dir, syntax |-> r.syntax, typed |-> r.typed, bodies |-> r.bodies,
                                  imports |-> r.imports, listError |-> r.listError]
        PROVE  [r EXCEPT !.syntax = y].syntax = y
    BY <2>6
  <2>7. packages'[id].syntax = x
    BY <2>3, <2>5, <2>6, Zenon DEF PackageOK
  <2>8. StaysExportOnly(packages[id])
    BY <2>4, <2>7 DEF StaysExportOnly
  <2>9. DOMAIN exportOnly' = DOMAIN exportOnly \cup {PathOf(o) : o \in {q \in DOMAIN packages : StaysExportOnly(packages[q])}}
    BY <1>4 DEF AttachSources, Note
  <2> QED BY <2>2, <2>8, <2>9
<1> QED BY <1>1, <1>2, <1>3, <1>4

LEMMA StageStepsNote ==
    ASSUME AInv, IInv', EndSource \/ Fallback \/ DetectDegradedLoad \/ IndexImport \/ IndexRoot \/ EndIndex PROVE NotedOK'
<1>1. stage # "attach" /\ UNCHANGED <<packages, exportOnly>>
  BY DEF EndSource, Fallback, DetectDegradedLoad, IndexImport, IndexRoot, EndIndex, Process
<1> QED BY <1>1, NotedKept

\* Asking for the source of a package of the index.
LEMMA ReadBackKeeps ==
    ASSUME AInv, NEW p \in DOMAIN index, stage = "lookups", UNCHANGED <<stage, index>>, ReadBackOnDemand(p)
    PROVE  /\ NotedOK' /\ GivenUpOK'
           /\ \A q \in DOMAIN index : HasFiles(index[q])' <=> HasFiles(index[q])
           /\ IF HasFiles(index[p]) THEN packages'[index[p]].syntax = TRUE
              ELSE packages'[index[p]].syntax = FALSE /\ p \in DOMAIN exportOnly'
<1>1. /\ packages = [o \in DOMAIN packages |-> packages[o]]
      /\ index[p] \in DOMAIN packages /\ PathOf(index[p]) = p
      /\ \A q \in DOMAIN index : index[q] \in DOMAIN packages
  BY DEF AInv, IInv, PackagesOK, IndexOK
<1>2. \A id \in DOMAIN packages : PackageOK(id)
  BY DEF AInv, IInv, PackagesOK
<1>3. \A id \in DOMAIN packages : packages[id].syntax = FALSE => PathOf(id) \in DOMAIN exportOnly
  BY DEF AInv, NotedOK
<1>4. ASSUME NEW r, NEW y, r = [dir |-> r.dir, syntax |-> r.syntax, typed |-> r.typed, bodies |-> r.bodies,
                                imports |-> r.imports, listError |-> r.listError]
      PROVE  [r EXCEPT !.syntax = y].syntax = y /\ [r EXCEPT !.syntax = y].dir = r.dir
  BY <1>4
<1>5. CASE Wanting(p) /\ HasFiles(index[p])
  <2>1. /\ packages' = [packages EXCEPT ![index[p]].syntax = TRUE]
        /\ DOMAIN exportOnly' = DOMAIN exportOnly \ {p} /\ failed' = failed
    BY <1>5 DEF ReadBackOnDemand
  <2>2. PICK y : y = TRUE
    OBVIOUS
  <2>3. packages'[index[p]] = [packages[index[p]] EXCEPT !.syntax = y]
    BY <1>1, <2>1, <2>2
  <2>4. packages'[index[p]].syntax = y /\ packages'[index[p]].dir = packages[index[p]].dir
    <3>1. PICK r : r = packages[index[p]]
      OBVIOUS
    <3>2. r = [dir |-> r.dir, syntax |-> r.syntax, typed |-> r.typed, bodies |-> r.bodies,
               imports |-> r.imports, listError |-> r.listError]
      BY <1>1, <1>2, <3>1, Zenon DEF PackageOK
    <3>3. [r EXCEPT !.syntax = y].syntax = y /\ [r EXCEPT !.syntax = y].dir = r.dir
      BY <1>4, <3>2
    <3> QED BY <2>3, <3>1, <3>3, Zenon
  <2>5. DOMAIN packages' = DOMAIN packages /\ \A id \in DOMAIN packages : id # index[p] => packages'[id] = packages[id]
    BY <1>1, <2>1
  <2>6. \A id \in DOMAIN packages : packages'[id].dir = packages[id].dir
    BY <2>4, <2>5
  <2>7. NotedOK'
    <3> SUFFICES ASSUME NEW id \in DOMAIN packages', packages'[id].syntax = FALSE PROVE PathOf(id) \in DOMAIN exportOnly'
      BY DEF NotedOK, PathOf
    <3>1. id # index[p] /\ id \in DOMAIN packages /\ packages[id].syntax = FALSE
      BY <2>2, <2>4, <2>5
    <3>2. id = Types(PathOf(id)) /\ index[p] = Types(p)
      BY <1>1, <1>2, <1>5, <3>1 DEF PackageOK, Wanting
    <3>3. PathOf(id) # p
      BY <3>1, <3>2
    <3> QED BY <1>3, <2>1, <3>1, <3>3
  <2>8. GivenUpOK'
    BY <1>1, <2>1, <2>6 DEF AInv, GivenUpOK, HasFiles
  <2> QED BY <1>1, <1>5, <2>2, <2>4, <2>6, <2>7, <2>8 DEF HasFiles
<1>6. CASE ~(Wanting(p) /\ HasFiles(index[p]))
  <2>1. /\ packages' = packages /\ exportOnly' = exportOnly
        /\ failed' = IF Wanting(p) THEN failed \cup {p} ELSE failed
    BY <1>6 DEF ReadBackOnDemand
  <2>2. NotedOK'
    BY <2>1 DEF AInv, NotedOK
  <2>3. GivenUpOK'
    BY <1>6, <2>1 DEF AInv, GivenUpOK, HasFiles
  <2>4. CASE HasFiles(index[p])
    <3>1. packages[index[p]].syntax \in BOOLEAN /\ p \notin failed
      BY <1>1, <1>2, <2>4 DEF PackageOK, AInv, GivenUpOK
    <3>2. packages[index[p]].syntax = TRUE
      BY <1>1, <1>3, <1>6, <2>4, <3>1 DEF Wanting
    <3> QED BY <2>1, <2>2, <2>3, <2>4, <3>2 DEF HasFiles
  <2>5. CASE ~HasFiles(index[p])
    <3>1. packages[index[p]].syntax = FALSE
      BY <1>1, <1>2, <2>5 DEF PackageOK, HasFiles
    <3> QED BY <1>1, <1>3, <2>1, <2>2, <2>3, <2>5, <3>1 DEF HasFiles
  <2> QED BY <2>4, <2>5
<1> QED BY <1>5, <1>6

LEMMA FindDeclAnswers == ASSUME AInv, IInv', NEW p, FindDecl(p) PROVE AInv'
<1>1. /\ stage = "lookups" /\ UNCHANGED <<stage, index>>
      /\ answers' = [answers EXCEPT ![p] = Append(@, Answer(p))]
  BY DEF FindDecl
<1>2. \A q \in DOMAIN answers : answers[q] \in Seq({"found", "sourceless", "missing"})
  BY DEF AInv, AnswersOK
<1>3. Answer(p) \in {"found", "sourceless", "missing"}
  BY DEF Answer
<1>4. DOMAIN answers' = DOMAIN answers
  BY <1>1
<1>5. \A q \in DOMAIN answers : answers'[q] = IF q = p THEN Append(answers[p], Answer(p)) ELSE answers[q]
  BY <1>1
<1>6. AnswersOK'
  <2> HIDE DEF Answer
  <2>1. \A q \in DOMAIN answers' : answers'[q] \in Seq({"found", "sourceless", "missing"})
    BY <1>2, <1>3, <1>4, <1>5
  <2> QED BY <1>1, <2>1 DEF AnswersOK
<1>7. /\ NotedOK' /\ GivenUpOK'
      /\ \A q \in DOMAIN index : HasFiles(index[q])' <=> HasFiles(index[q])
      /\ p \in DOMAIN index => Answer(p) = IF HasFiles(index[p]) THEN "found" ELSE "sourceless"
  <2>1. CASE p \in DOMAIN index
    <3>1. ReadBackOnDemand(p)
      BY <2>1 DEF FindDecl
    <3>2. /\ NotedOK' /\ GivenUpOK'
          /\ \A q \in DOMAIN index : HasFiles(index[q])' <=> HasFiles(index[q])
          /\ IF HasFiles(index[p]) THEN packages'[index[p]].syntax = TRUE
             ELSE packages'[index[p]].syntax = FALSE /\ p \in DOMAIN exportOnly'
      BY <1>1, <2>1, <3>1, ReadBackKeeps
    <3> QED BY <2>1, <3>2 DEF Answer
  <2>2. CASE p \notin DOMAIN index
    BY <1>1, <2>2 DEF FindDecl, AInv, NotedOK, GivenUpOK, HasFiles
  <2> QED BY <2>1, <2>2
<1>8. ASSUME NEW q \in DOMAIN answers, NEW x, NEW k \in DOMAIN Append(answers[q], x)
      PROVE  Append(answers[q], x)[k] = IF k \in DOMAIN answers[q] THEN answers[q][k] ELSE x
  <2>1. PICK a \in Seq({"found", "sourceless", "missing"}) : a = answers[q]
    BY <1>2
  <2>2. k \in 1..(Len(a) + 1) /\ DOMAIN a = 1..Len(a)
    BY <2>1
  <2>3. Append(a, x)[k] = IF k \in DOMAIN a THEN a[k] ELSE x
    BY <2>1, <2>2
  <2> QED BY <2>1, <2>3, Zenon
<1>9. DeclarationsAreFound'
  <2> SUFFICES ASSUME NEW q \in DOMAIN answers \cap DOMAIN index, NEW k \in DOMAIN answers'[q]
               PROVE  answers'[q][k] = IF HasFiles(index[q]) THEN "found" ELSE "sourceless"
    BY <1>1, <1>4, <1>7 DEF DeclarationsAreFound, HasFiles
  <2> HIDE DEF Answer
  <2>0. q = p => answers'[q][k] = IF k \in DOMAIN answers[q] THEN answers[q][k] ELSE Answer(p)
    <3> SUFFICES ASSUME q = p PROVE answers'[q][k] = IF k \in DOMAIN answers[q] THEN answers[q][k] ELSE Answer(p)
      OBVIOUS
    <3>0. PICK x : x = Answer(p)
      OBVIOUS
    <3>1. answers'[q] = Append(answers[q], x)
      BY <1>5, <3>0
    <3>2. q \in DOMAIN answers /\ k \in DOMAIN Append(answers[q], x)
      BY <3>1, Zenon
    <3>3. Append(answers[q], x)[k] = IF k \in DOMAIN answers[q] THEN answers[q][k] ELSE x
      BY <1>8, <3>2
    <3> QED BY <3>0, <3>1, <3>3, Zenon
  <2>1. CASE q # p \/ k \in DOMAIN answers[q]
    <3>1. k \in DOMAIN answers[q] /\ answers'[q][k] = answers[q][k]
      <4>1. CASE q # p
        <5>1. answers'[q] = answers[q]
          BY <1>5, <4>1
        <5>2. DOMAIN answers'[q] = DOMAIN answers[q] /\ answers'[q][k] = answers[q][k]
          BY <5>1
        <5> QED BY <5>2
      <4>2. CASE q = p
        BY <2>0, <2>1, <4>2
      <4> QED BY <4>1, <4>2
    <3> QED BY <3>1 DEF AInv, DeclarationsAreFound
  <2>2. CASE q = p /\ k \notin DOMAIN answers[q]
    <3>1. answers'[q][k] = Answer(p)
      BY <2>0, <2>2
    <3> QED BY <1>7, <2>2, <3>1
  <2> QED BY <2>1, <2>2
<1> QED BY <1>6, <1>7, <1>9 DEF AInv

LEMMA FileForPosAnswers == ASSUME AInv, IInv', NEW p, FileForPos(p) PROVE AInv'
<1>1. /\ stage = "lookups" /\ UNCHANGED <<stage, index, answers>> /\ p \in DOMAIN index /\ ReadBackOnDemand(p)
  BY DEF FileForPos
<1>2. /\ NotedOK' /\ GivenUpOK'
      /\ \A q \in DOMAIN index : HasFiles(index[q])' <=> HasFiles(index[q])
  BY <1>1, ReadBackKeeps
<1>3. AnswersOK' /\ DeclarationsAreFound'
  BY <1>1, <1>2 DEF AInv, AnswersOK, DeclarationsAreFound, HasFiles
<1> QED BY <1>2, <1>3 DEF AInv

LEMMA NextAnswers == ASSUME AInv, [Next]_vars PROVE AInv'
<1>1. IInv'
  BY NextKeeps DEF AInv
<1>2. CASE \/ Start \/ LoadRoot \/ ImportExported \/ ImportSource \/ ImportStub \/ CheckTypes \/ EndSource
           \/ ListPackages \/ AttachSources \/ Fallback \/ DetectDegradedLoad
           \/ IndexImport \/ IndexRoot \/ EndIndex
  <2>1. stage # "lookups" /\ UNCHANGED <<failed, answers>>
    BY <1>2 DEF Start, LoadRoot, ImportExported, ImportSource, ImportStub, CheckTypes, EndSource, ListPackages, AttachSources,
                Fallback, DetectDegradedLoad, IndexImport, IndexRoot, EndIndex, Process, looking
  <2>2. NotedOK'
    BY <1>1, <1>2, SourceStepsNote, ImportExportedNotes, ListingNotes, StageStepsNote
  <2> QED BY <1>1, <2>1, <2>2, NothingAsked DEF AInv
<1>3. CASE \E p \in scan.wants : FindDecl(p) \/ FileForPos(p)
  BY <1>1, <1>3, FindDeclAnswers, FileForPosAnswers
<1>4. CASE UNCHANGED vars
  BY <1>1, <1>4 DEF vars, looking, AInv, NotedOK, GivenUpOK, AnswersOK, NotAsked, DeclarationsAreFound, HasFiles
<1> QED BY <1>2, <1>3, <1>4 DEF Next

LEMMA StartAnswers == Init => AInv
<1> SUFFICES ASSUME Init PROVE AInv
  OBVIOUS
<1>1. DOMAIN NoMap = {} /\ DOMAIN <<>> = {} /\ <<>> \in Seq({"found", "sourceless", "missing"})
  BY DEF NoMap
<1>2. /\ packages = NoMap /\ failed = {} /\ answers = [p \in scan.wants |-> <<>>] /\ index = NoMap
  BY DEF Init, InitWith
<1>3. NotedOK /\ GivenUpOK /\ AnswersOK /\ DeclarationsAreFound
  BY <1>1, <1>2 DEF NotedOK, GivenUpOK, AnswersOK, NotAsked, DeclarationsAreFound
<1> QED BY <1>3, StartOK DEF AInv

\* A lookup finds the declaration in any package of the index whose files exist, the first time and the
\* second, and says each time when there are none (readBackOnDemand, FindDecl, FileForPos).
THEOREM LookupsFind == Spec => []DeclarationsAreFound
<1>1. AInv => DeclarationsAreFound
  BY DEF AInv
<1> QED BY <1>1, StartAnswers, NextAnswers, PTL DEF Spec
-----------------------------------------------------------------------------
(* The commands: what a configuration file said, and what the exit status says *)

Early == {"parse", "config", "apply", "settle"}
Running == {"scan", "write", "validate", "summarize"}
Documents == {"valid", "warned", "invalid", "unreadable"}

\* Nothing is loaded before the options are settled.
Unloaded == stage = "start" /\ stack = <<>> /\ packages = NoMap /\ roots = NoMap /\ index = NoMap
EarlyOK == step \in Early => Unloaded

CommandOK ==
    /\ line = Cmd!Idle \/ line \in Lines
    /\ line = Cmd!Idle => step = "exited" /\ options = None
    /\ step \in Early => options = None
    /\ line = Cmd!Idle \/ step # "exited" => status = None
    /\ step \in {"config", "apply"} => line.program # "genspec-wasi"
    /\ step \in {"validate", "summarize"} => line.program = "genspec"
    /\ line # Cmd!Idle => flags = [f \in Cmd!FlagsOf(line.program) |-> flags[f]]
    /\ step = "parse" => flags = [f \in Cmd!FlagsOf(line.program) |-> Cmd!DefaultOf(line.program, f)]

\* The keys that are done with.
Answered(key) ==
    \/ key \in ignored /\ key[1] \notin Cmd!Sections
    \/ /\ key[2] \in DOMAIN Cmd!schema /\ Cmd!schema[key[2]] = key[1]
       /\ Cmd!Said(key[2]) # {} \/ flags[key[2]] = Cmd!Stringify(Cmd!ValueAt(key))
KeysOK ==
    /\ step \in {"parse", "config"} => path = None /\ \A f \in actual : Cmd!Said(f) # {}
    /\ \A f \in typed : Cmd!Said(f) # {}
    /\ step = "apply" =>
        /\ path \in DOMAIN line.disk /\ line.disk[path].kind = "keys"
        /\ todo \subseteq DOMAIN line.disk[path].values
        /\ \A key \in DOMAIN line.disk[path].values \ todo : Answered(key)
    /\ (step = "settle" \/ options # None) /\ path # None => \A key \in DOMAIN line.disk[path].values : Answered(key)

\* The threshold is passed when something that counts was seen.
StatusOK ==
    line.program = "genspec" =>
        /\ seen \in [{"error", "warning", "hint"} -> Nat] /\ tripped \in BOOLEAN
        /\ step \in Early => tripped = FALSE /\ \A s \in DOMAIN seen : seen[s] = 0
        /\ step \in Running =>
            /\ Cmd!FormatIsKnown /\ Cmd!FailOnIsKnown
            /\ tripped <=> \E s \in Cmd!Failing : seen[s] > 0
        /\ step \in Early \cup {"scan"} => document = None
        /\ step \in Early \cup {"scan", "write"} => written = None
        /\ step \in {"write", "validate", "summarize"} => document \in Documents
        /\ step \in {"validate", "summarize"} => written # None
        /\ step = "summarize" =>
              invalid = IF Cmd!Given("validate") /\ document \in {"invalid", "unreadable"} THEN document ELSE None
        /\ StatusTells

ComInv == CommandOK /\ KeysOK /\ StatusOK

LEMMA FirstOf == ASSUME NEW I \in SUBSET Nat, I # {} PROVE Cmd!Min(I) \in I
<1> DEFINE R == {ss \in Nat \X Nat : ss[1] < ss[2]}
<1>1. IsWellFoundedOn(R, Nat)
  BY NatLessThanWellFounded DEF OpToRel
<1> HIDE DEF R
<1>2. PICK x \in I : \A y \in I : <<y, x>> \notin R
  BY <1>1, WFMin
<1>3. ASSUME NEW y \in I PROVE x <= y
  <2>1. y < x => <<y, x>> \in R
    BY DEF R
  <2> QED BY <1>2, <2>1
<1> QED BY <1>2, <1>3 DEF Cmd!Min

\* The flags, once they are parsed: what is set was typed, and a command ends well only with -h or -version.
LEMMA ParseDoes ==
    ASSUME CommandOK, line # Cmd!Idle, Cmd!Parse
    PROVE  /\ flags' = [f \in DOMAIN flags |-> flags'[f]] /\ DOMAIN flags' = DOMAIN flags
           /\ \A f \in actual' : Cmd!Said(f) # {}
           /\ \/ step' = "exited" /\ status' = 0 /\ Cmd!Said("h") \cup Cmd!Said("version") # {}
              \/ step' = "exited" /\ status' = Cmd!StatusOf("usage")
              \/ step' = (IF line.program = "genspec-wasi" THEN "settle" ELSE "config") /\ status' = status
<1> DEFINE said == line.typed
           refused == {i \in DOMAIN said : said[i].flag \notin Cmd!FlagsOf(line.program) \/ ~Cmd!Parses(said[i].flag, said[i].text)}
           taken == {i \in DOMAIN said : \A j \in refused : i < j}
           named == {said[i].flag : i \in taken}
<1>1. /\ \E v : flags' = [f \in DOMAIN flags |-> IF f \in named THEN v[f] ELSE flags[f]]
      /\ actual' = named
      /\ IF refused # {} THEN (IF said[Cmd!Min(refused)].flag = "h" THEN Cmd!Exit(0) ELSE Cmd!Refuse)
         ELSE IF "version" \in DOMAIN flags /\ flags'["version"] = <<"true">> THEN Cmd!Exit(0)
         ELSE Cmd!Go(IF line.program = "genspec-wasi" THEN "settle" ELSE "config")
  <2> DEFINE v == [f \in DOMAIN flags |-> said[Cmd!Max({i \in taken : said[i].flag = f})].text]
  <2>1. flags' = [f \in DOMAIN flags |-> IF f \in named THEN said[Cmd!Max({i \in taken : said[i].flag = f})].text ELSE flags[f]]
    BY DEF Cmd!Parse
  <2>2. flags' = [f \in DOMAIN flags |-> IF f \in named THEN v[f] ELSE flags[f]]
    <3> HIDE DEF taken, named
    <3> QED BY <2>1
  <2>3. actual' = named
    BY DEF Cmd!Parse
  <2>4. IF refused # {} THEN (IF said[Cmd!Min(refused)].flag = "h" THEN Cmd!Exit(0) ELSE Cmd!Refuse)
        ELSE IF "version" \in DOMAIN flags /\ flags'["version"] = <<"true">> THEN Cmd!Exit(0)
        ELSE Cmd!Go(IF line.program = "genspec-wasi" THEN "settle" ELSE "config")
    BY DEF Cmd!Parse
  <2> HIDE DEF v, taken, named, refused
  <2> QED BY <2>2, <2>3, <2>4
<1>2. DOMAIN said \subseteq Nat
  BY CommandsAssumption DEF CommandOK
<1>3. refused # {} => Cmd!Min(refused) \in refused
  BY <1>2, FirstOf
<1>4. \A f \in named : Cmd!Said(f) # {}
  BY DEF Cmd!Said
<1>5. step = "parse" /\ flags = [f \in Cmd!FlagsOf(line.program) |-> Cmd!DefaultOf(line.program, f)]
  BY DEF Cmd!Parse, CommandOK
<1>6. refused # {} /\ said[Cmd!Min(refused)].flag = "h" => Cmd!Said("h") # {}
  BY <1>3 DEF Cmd!Said
<1> HIDE DEF refused, taken, named
<1>7. flags' = [f \in DOMAIN flags |-> flags'[f]] /\ DOMAIN flags' = DOMAIN flags
  BY <1>1
<1>8. "version" \in DOMAIN flags /\ flags'["version"] = <<"true">> => Cmd!Said("version") # {}
  <2>1. "version" \in Cmd!Bools \ {"scan-models"} /\ "version" \notin Cmd!Numbers
    BY DEF Cmd!Bools, Cmd!Numbers, Cmd!floatOptions
  <2>2. Cmd!DefaultOf(line.program, "version") = <<"false">>
    BY <2>1, Zenon DEF Cmd!DefaultOf
  <2>3. <<"false">> # <<"true">>
    OBVIOUS
  <2> QED BY <1>1, <1>4, <1>5, <2>2, <2>3
<1> QED BY <1>1, <1>4, <1>6, <1>7, <1>8 DEF Cmd!Exit, Cmd!Refuse, Cmd!Go

\* What is asked of the flags and of the file stays while they do.
LEMMA SameFlags ==
    ASSUME UNCHANGED <<line, flags>>
    PROVE  /\ Cmd!FormatIsKnown' <=> Cmd!FormatIsKnown
           /\ Cmd!FailOnIsKnown' <=> Cmd!FailOnIsKnown
           /\ Cmd!Failing' = Cmd!Failing
           /\ \A f : Cmd!Given(f)' <=> Cmd!Given(f)
<1>1. \A f, V : Cmd!OneOf(f, V)' <=> Cmd!OneOf(f, V)
  BY DEF Cmd!OneOf
<1>2. \A f : Cmd!Given(f)' <=> Cmd!Given(f)
  BY DEF Cmd!Given
<1> QED BY <1>1, <1>2, Zenon DEF Cmd!FormatIsKnown, Cmd!FailOnIsKnown, Cmd!Failing
LEMMA SameLine ==
    ASSUME UNCHANGED line
    PROVE  /\ Cmd!schema' = Cmd!schema /\ Cmd!Sections' = Cmd!Sections
           /\ \A f : Cmd!Said(f)' = Cmd!Said(f)
           /\ Cmd!FlagsOf(line.program)' = Cmd!FlagsOf(line.program)
<1>1. Cmd!schema' = Cmd!schema
  BY DEF Cmd!schema
<1>2. \A f : Cmd!Said(f)' = Cmd!Said(f)
  BY DEF Cmd!Said
<1> QED BY <1>1, <1>2, Zenon DEF Cmd!Sections
LEMMA SameAnswers ==
    ASSUME UNCHANGED <<line, path, ignored, flags>>, NEW key, Answered(key) PROVE Answered(key)'
<1>1. Cmd!ValueAt(key)' = Cmd!ValueAt(key)
  BY DEF Cmd!ValueAt
<1> QED BY <1>1, SameLine, Zenon DEF Answered

\* A step that leaves the flags and the file alone leaves what was answered.
LEMMA KeysKept ==
    ASSUME KeysOK, UNCHANGED <<line, path, ignored, flags, actual, typed, todo>>,
           step' \in {"parse", "config"} => step \in {"parse", "config"},
           step' = "apply" => step = "apply",
           step' = "settle" \/ options' # None => step = "settle" \/ options # None
    PROVE  KeysOK'
<1>1. \A key : Answered(key) => Answered(key)'
  BY SameAnswers
<1>2. \A f : Cmd!Said(f)' = Cmd!Said(f)
  BY SameLine
<1> HIDE DEF Answered
<1> QED BY <1>1, <1>2 DEF KeysOK

\* Every key that a file can set is a flag of the command.
LEMMA SchemaIsOfFlags ==
    ASSUME CommandOK, line # Cmd!Idle, line.program # "genspec-wasi" PROVE DOMAIN Cmd!schema \subseteq Cmd!FlagsOf(line.program)
<1>1. line.program = "genspec" \/ line.program = "genspec-tui"
  BY CommandsAssumption DEF CommandOK
<1>2. DOMAIN Cmd!librarySections = Cmd!Library \ {"workdir"}
  BY DEF Cmd!librarySections
<1>3. DOMAIN Cmd!schema = DOMAIN Cmd!librarySections \cup DOMAIN Cmd!commandSections(line.program)
  BY DEF Cmd!schema, Cmd!Merge
<1>4. CASE line.program = "genspec"
  <2>1. DOMAIN Cmd!commandSections(line.program) = {"input", "format"} \cup {"validate", "quiet", "verbose", "fail-on"}
    BY <1>4 DEF Cmd!commandSections, Cmd!Merge, Cmd!documentSections, Cmd!diagnosticsSections
  <2>2. Cmd!FlagsOf(line.program) = Cmd!GenspecFlags
    BY <1>4, Zenon DEF Cmd!FlagsOf
  <2> QED BY <1>2, <1>3, <2>1, <2>2 DEF Cmd!GenspecFlags
<1>5. CASE line.program = "genspec-tui"
  <2>1. DOMAIN Cmd!commandSections(line.program) = {"profile", "mem-profile-rate"}
    BY <1>5 DEF Cmd!commandSections, Cmd!profileSections
  <2>2. Cmd!FlagsOf(line.program) = Cmd!SessionFlags
    BY <1>5, Zenon DEF Cmd!FlagsOf
  <2> QED BY <1>2, <1>3, <2>1, <2>2 DEF Cmd!SessionFlags
<1> QED BY <1>1, <1>4, <1>5

\* The next key is one that is left.
LEMMA NextKeyIsLeft ==
    ASSUME CommandOK, KeysOK, line # Cmd!Idle, step = "apply", todo # {} PROVE Cmd!NextKey \in todo
<1> DEFINE I == {i \in DOMAIN KeyOrder : KeyOrder[i] \in todo}
<1>1. I \in SUBSET Nat
  BY CommandsAssumption
<1>2. I # {}
  <2>1. PICK key : key \in todo
    OBVIOUS
  <2>2. path \in DOMAIN line.disk /\ line.disk[path].kind = "keys" /\ key \in DOMAIN line.disk[path].values /\ line \in Lines
    BY <2>1 DEF CommandOK, KeysOK
  <2>3. \E i \in DOMAIN KeyOrder : KeyOrder[i] = key
    BY <2>2, CommandsAssumption
  <2> QED BY <2>1, <2>3
<1>3. Cmd!Min(I) \in I
  BY <1>1, <1>2, FirstOf
<1> QED BY <1>3 DEF Cmd!NextKey

\* A key is a section with a name.
LEMMA KeysArePairs ==
    ASSUME CommandOK, line # Cmd!Idle, path \in DOMAIN line.disk, line.disk[path].kind = "keys",
           NEW k \in DOMAIN line.disk[path].values, NEW l \in DOMAIN line.disk[path].values, k[1] = l[1], k[2] = l[2]
    PROVE  k = l
<1>1. line \in Lines
  BY DEF CommandOK
<1>2. k \in STRING \X STRING /\ l \in STRING \X STRING
  BY <1>1, CommandsAssumption
<1> QED BY <1>2

LEMMA ApplyKeyAnswers ==
    ASSUME CommandOK, KeysOK, line # Cmd!Idle, Cmd!ApplyKey
    PROVE  /\ flags' = [f \in DOMAIN flags |-> flags'[f]] /\ DOMAIN flags' = DOMAIN flags
           /\ step' \in Early => \A key \in DOMAIN line.disk[path].values \ todo' : Answered(key)'
<1>0. PICK next, value : next = Cmd!NextKey /\ value = Cmd!ValueAt(next)
  OBVIOUS
<1> DEFINE name == next[2]
           skipped == next[1] # "" /\ next[1] \notin Cmd!Sections
           placed == ~skipped /\ Cmd!IsPlaced(next)
           outranked == placed /\ name \in typed
           taken == placed /\ ~outranked /\ Cmd!Stringifies(value) /\ Cmd!Parses(name, Cmd!Stringify(value))
<1>1. /\ step = "apply" /\ todo # {} /\ todo' = todo \ {next}
      /\ ignored' = IF skipped THEN ignored \cup {next} ELSE ignored
      /\ flags' = IF taken THEN [flags EXCEPT ![name] = Cmd!Stringify(value)] ELSE flags
      /\ IF skipped \/ outranked \/ taken THEN Cmd!Go(step) ELSE Cmd!Refuse
      /\ UNCHANGED <<line, typed, path>>
  BY <1>0, Zenon DEF Cmd!ApplyKey
<1>2. next \in todo /\ path \in DOMAIN line.disk /\ line.disk[path].kind = "keys" /\ todo \subseteq DOMAIN line.disk[path].values
  BY <1>0, <1>1, NextKeyIsLeft DEF KeysOK
<1>3. line.program # "genspec-wasi" /\ flags = [f \in Cmd!FlagsOf(line.program) |-> flags[f]]
  BY <1>1 DEF CommandOK
<1>4. taken => name \in DOMAIN flags
  BY <1>3, SchemaIsOfFlags DEF Cmd!IsPlaced
<1>5. \A f \in typed : Cmd!Said(f) # {}
  BY DEF KeysOK
<1>6. /\ Cmd!schema' = Cmd!schema /\ Cmd!Sections' = Cmd!Sections
      /\ \A f : Cmd!Said(f)' = Cmd!Said(f)
      /\ \A key : Cmd!ValueAt(key)' = Cmd!ValueAt(key)
  BY <1>1, SameLine DEF Cmd!ValueAt
<1>7. step' \in Early => skipped \/ outranked \/ taken
  BY <1>1 DEF Cmd!Refuse, Cmd!Exit, Early
<1>8. flags' = [f \in DOMAIN flags |-> flags'[f]] /\ DOMAIN flags' = DOMAIN flags
  <2> HIDE DEF taken, name
  <2> QED BY <1>1, <1>3
<1>9. skipped => Answered(next)'
  BY <1>1, <1>6, Zenon DEF Answered
<1>10. outranked => Answered(next)'
  <2>1. outranked => name \in DOMAIN Cmd!schema /\ Cmd!schema[name] = next[1] /\ Cmd!Said(name) # {}
    BY <1>5 DEF Cmd!IsPlaced
  <2> QED BY <2>1, <1>6, Zenon DEF Answered
<1>11. taken => Answered(next)'
  <2>1. taken => name \in DOMAIN Cmd!schema /\ Cmd!schema[name] = next[1]
    BY DEF Cmd!IsPlaced
  <2>2. taken => flags'[name] = Cmd!Stringify(value)
    <3> HIDE DEF taken, name
    <3> QED BY <1>1, <1>4
  <2> HIDE DEF taken, name
  <2>3. Cmd!ValueAt(next)' = value
    BY <1>0, <1>6
  <2> QED BY <2>1, <2>2, <2>3, <1>6, Zenon DEF Answered, name
<1>12. ASSUME step' \in Early, NEW key \in DOMAIN line.disk[path].values \ todo', key # next
       PROVE  Answered(key)'
  <2>1. Answered(key)
    BY <1>1, <1>12 DEF KeysOK
  <2>2. taken /\ key[2] = name => ~(key[2] \in DOMAIN Cmd!schema /\ Cmd!schema[key[2]] = key[1])
    BY <1>2, <1>12, KeysArePairs DEF Cmd!IsPlaced
  <2>3. ignored \subseteq ignored'
    BY <1>1
  <2>4. key[2] \in DOMAIN Cmd!schema => flags'[key[2]] = flags[key[2]] \/ (taken /\ key[2] = name)
    <3>1. key[2] \in DOMAIN Cmd!schema => key[2] \in DOMAIN flags
      BY <1>3, SchemaIsOfFlags
    <3> HIDE DEF taken, name
    <3> QED BY <1>1, <1>3, <3>1
  <2> HIDE DEF taken, name
  <2> QED BY <2>1, <2>2, <2>3, <2>4, <1>6, Zenon DEF Answered
<1> HIDE DEF skipped, outranked, taken
<1> QED BY <1>7, <1>8, <1>9, <1>10, <1>11, <1>12

\* A command that has begun keeps its flags, whatever their values.
LEMMA CommandKept ==
    ASSUME CommandOK, line # Cmd!Idle, UNCHANGED line, flags' = [f \in DOMAIN flags |-> flags'[f]], step' # "parse",
           step' \in Early => options' = None,
           step' # "exited" => status' = None,
           step' \in {"config", "apply"} => line.program # "genspec-wasi",
           step' \in {"validate", "summarize"} => line.program = "genspec"
    PROVE  CommandOK'
<1>1. DOMAIN flags' = Cmd!FlagsOf(line.program)
  BY DEF CommandOK
<1>2. flags' = [f \in Cmd!FlagsOf(line.program) |-> flags'[f]]
  BY DEF CommandOK
<1>3. Cmd!FlagsOf(line.program)' = Cmd!FlagsOf(line.program) /\ Cmd!Idle' = Cmd!Idle
  BY SameLine DEF Cmd!Idle
<1> QED BY <1>2, <1>3 DEF CommandOK, Early

\* Until a scan starts there is nothing to report, and a command that stops there says why.
LEMMA EarlyStatus ==
    ASSUME CommandOK, StatusOK, line # Cmd!Idle, step \in Early, UNCHANGED <<line, seen, tripped, document, written, invalid>>,
           \/ step' \in Early /\ status' = status
           \/ /\ step' = "exited" /\ options' = None
              /\ status' \in {1, 2} \/ (status' = 0 /\ Cmd!Said("h") \cup Cmd!Said("version") # {})
    PROVE  StatusOK'
<1> SUFFICES ASSUME line.program = "genspec" PROVE StatusOK'
  BY DEF StatusOK
<1>1. /\ seen \in [{"error", "warning", "hint"} -> Nat] /\ tripped = FALSE /\ \A s \in DOMAIN seen : seen[s] = 0
      /\ document = None /\ written = None
  BY DEF StatusOK
<1>2. step' \notin Running \cup {"scan", "write", "validate", "summarize"}
  BY DEF Early, Running
<1>3. StatusTells'
  <2>1. CASE step' \in Early
    BY <2>1, <1>1 DEF CommandOK, StatusTells, Cmd!StatusTells, Early
  <2>2. CASE step' = "exited"
    <3>1. status' = 0 => \E i \in Cmd!Said("h")' \cup Cmd!Said("version")' : TRUE
      BY <2>2, SameLine DEF Early
    <3> QED BY <2>2, <3>1, <1>1 DEF StatusTells, Cmd!StatusTells, Early
  <2> QED BY <2>1, <2>2
<1> QED BY <1>1, <1>2, <1>3 DEF StatusOK

\* What a failure exits with.
LEMMA Statuses ==
    /\ Cmd!StatusOf("usage") \in {1, 2} /\ Cmd!StatusOf("failed") = 1
    /\ Cmd!StatusOf("ok") = 0
<1>1. Cmd!StatusOf("usage") = IF line.program = "genspec" THEN 2 ELSE 1
  BY Zenon DEF Cmd!StatusOf
<1>2. Cmd!StatusOf("failed") = 1 /\ Cmd!StatusOf("ok") = 0
  BY Zenon DEF Cmd!StatusOf
<1> QED BY <1>1, <1>2

LEMMA ParseKeeps == ASSUME ComInv, line # Cmd!Idle, Cmd!Parse PROVE ComInv'
<1>1. CommandOK /\ KeysOK /\ StatusOK /\ step = "parse" /\ UNCHANGED <<line, typed, path, todo, ignored, options, seen, tripped, document, written, invalid>>
  BY DEF ComInv, Cmd!Parse, Cmd!configuring, Cmd!reporting, Cmd!writing
<1>2. options = None /\ status = None /\ path = None
  BY <1>1 DEF CommandOK, KeysOK, Early
<1>3. CommandOK'
  BY <1>1, <1>2, ParseDoes, CommandKept
<1>4. KeysOK'
  <2>1. \A f : Cmd!Said(f)' = Cmd!Said(f)
    BY <1>1, SameLine
  <2>2. \A f \in typed : Cmd!Said(f) # {}
    BY <1>1 DEF KeysOK
  <2>3. \A f \in actual' : Cmd!Said(f) # {}
    BY <1>1, ParseDoes
  <2>4. step' # "apply"
    BY <1>1, ParseDoes
  <2> QED BY <1>1, <1>2, <2>1, <2>2, <2>3, <2>4 DEF KeysOK
<1>5. StatusOK'
  BY <1>1, <1>2, ParseDoes, Statuses, EarlyStatus DEF Early
<1> QED BY <1>3, <1>4, <1>5 DEF ComInv

LEMMA ReadConfigurationKeeps == ASSUME ComInv, line # Cmd!Idle, Cmd!ReadConfiguration PROVE ComInv'
<1>1. /\ CommandOK /\ KeysOK /\ StatusOK /\ step = "config" /\ typed' = actual
      /\ UNCHANGED <<line, flags, actual, ignored, options, seen, tripped, document, written, invalid>>
  BY DEF ComInv, Cmd!ReadConfiguration, Cmd!reporting, Cmd!writing
<1>2. options = None /\ status = None /\ path = None /\ line.program # "genspec-wasi" /\ flags = [f \in DOMAIN flags |-> flags[f]]
  BY <1>1 DEF CommandOK, KeysOK, Early
<1>3. \/ step' = "exited" /\ status' = Cmd!StatusOf("usage") /\ UNCHANGED <<path, todo>>
      \/ step' = "settle" /\ status' = status /\ UNCHANGED <<path, todo>>
      \/ /\ step' = "apply" /\ status' = status
         /\ path' \in DOMAIN line.disk /\ line.disk[path'].kind = "keys" /\ todo' = DOMAIN line.disk[path'].values
  <2> DEFINE D == Cmd!Discover
  <2>1. CASE Cmd!Contradicts \/ (D # None /\ ~(Cmd!Exists(D) /\ line.disk[D].kind = "keys"))
    BY <2>1, Zenon DEF Cmd!ReadConfiguration, Cmd!Refuse, Cmd!Exit
  <2>2. CASE ~(Cmd!Contradicts \/ (D # None /\ ~(Cmd!Exists(D) /\ line.disk[D].kind = "keys")))
    BY <2>2, Zenon DEF Cmd!ReadConfiguration, Cmd!Go, Cmd!Exists
  <2> QED BY <2>1, <2>2
<1>4. CommandOK'
  BY <1>1, <1>2, <1>3, CommandKept
<1>5. KeysOK'
  <2>1. \A f : Cmd!Said(f)' = Cmd!Said(f)
    BY <1>1, SameLine
  <2>2. \A f \in actual : Cmd!Said(f) # {}
    BY <1>1 DEF KeysOK
  <2>3. step' = "apply" => DOMAIN line'.disk[path'].values \ todo' = {}
    BY <1>1, <1>3
  <2>4. step' = "apply" \/ path' = None
    BY <1>2, <1>3
  <2>5. step' \notin {"parse", "config"}
    BY <1>3
  <2>6. step' = "apply" => path' \in DOMAIN line'.disk /\ line'.disk[path'].kind = "keys" /\ todo' = DOMAIN line'.disk[path'].values
    BY <1>1, <1>3
  <2>7. options' = None
    BY <1>1, <1>2
  <2> HIDE DEF Answered
  <2> QED BY <1>1, <2>1, <2>2, <2>3, <2>4, <2>5, <2>6, <2>7 DEF KeysOK
<1>6. StatusOK'
  BY <1>1, <1>2, <1>3, Statuses, EarlyStatus DEF Early
<1> QED BY <1>4, <1>5, <1>6 DEF ComInv

LEMMA ApplyKeyKeeps == ASSUME ComInv, line # Cmd!Idle, Cmd!ApplyKey PROVE ComInv'
<1>1. /\ CommandOK /\ KeysOK /\ StatusOK /\ step = "apply"
      /\ UNCHANGED <<line, typed, path, options, seen, tripped, document, written, invalid>>
      /\ \/ step' = step /\ status' = status
         \/ step' = "exited" /\ status' = Cmd!StatusOf("usage")
      /\ todo' \subseteq todo
  BY DEF ComInv, Cmd!ApplyKey, Cmd!reporting, Cmd!writing, Cmd!Go, Cmd!Refuse, Cmd!Exit
<1>2. options = None /\ status = None /\ line.program # "genspec-wasi"
  BY <1>1 DEF CommandOK, Early
<1>3. CommandOK'
  BY <1>1, <1>2, ApplyKeyAnswers, CommandKept
<1>4. KeysOK'
  <2>1. \A f : Cmd!Said(f)' = Cmd!Said(f)
    BY <1>1, SameLine
  <2>2. \A f \in typed : Cmd!Said(f) # {}
    BY <1>1 DEF KeysOK
  <2>3. step' = "apply" => \A key \in DOMAIN line'.disk[path'].values \ todo' : Answered(key)'
    <3> HIDE DEF Answered
    <3> QED BY <1>1, ApplyKeyAnswers DEF Early
  <2>4. path' \in DOMAIN line'.disk /\ line'.disk[path'].kind = "keys" /\ todo' \subseteq DOMAIN line'.disk[path'].values
    BY <1>1 DEF KeysOK
  <2> HIDE DEF Answered
  <2> QED BY <1>1, <1>2, <2>1, <2>2, <2>3, <2>4 DEF KeysOK
<1>5. StatusOK'
  BY <1>1, <1>2, Statuses, EarlyStatus DEF Early
<1> QED BY <1>3, <1>4, <1>5 DEF ComInv

LEMMA EndConfigurationKeeps == ASSUME ComInv, line # Cmd!Idle, Cmd!EndConfiguration PROVE ComInv'
<1>1. /\ CommandOK /\ KeysOK /\ StatusOK /\ step = "apply" /\ step' = "settle" /\ todo = {} /\ status' = status
      /\ UNCHANGED <<line, flags, actual, typed, path, todo, ignored, options, seen, tripped, document, written, invalid>>
  BY DEF ComInv, Cmd!EndConfiguration, Cmd!configuring, Cmd!reporting, Cmd!writing, Cmd!Go
<1>2. options = None /\ status = None /\ flags = [f \in DOMAIN flags |-> flags[f]]
  BY <1>1 DEF CommandOK, Early
<1>3. CommandOK'
  BY <1>1, <1>2, CommandKept
<1>4. KeysOK'
  <2>1. \A f : Cmd!Said(f)' = Cmd!Said(f)
    BY <1>1, SameLine
  <2>2. \A key \in DOMAIN line.disk[path].values : Answered(key)'
    <3>1. \A key \in DOMAIN line.disk[path].values : Answered(key)
      BY <1>1 DEF KeysOK
    <3> QED BY <1>1, <3>1, SameAnswers
  <2> HIDE DEF Answered
  <2> QED BY <1>1, <2>1, <2>2 DEF KeysOK
<1>5. StatusOK'
  BY <1>1, <1>2, EarlyStatus DEF Early
<1> QED BY <1>3, <1>4, <1>5 DEF ComInv

\* What counts for -fail-on is what reaches its threshold.
LEMMA FailingCounts ==
    ASSUME Cmd!FailOnIsKnown, NEW severity \in {"error", "warning", "hint"}
    PROVE  Cmd!Reaches(severity) <=> severity \in Cmd!Failing
<1>1. Cmd!Rank("error") = 0 /\ Cmd!Rank("warning") = 1 /\ Cmd!Rank("hint") = 2
  BY Zenon DEF Cmd!Rank
<1>2. PICK word \in {"never", "error", "warning"} : flags["fail-on"] = <<word>>
  BY DEF Cmd!FailOnIsKnown, Cmd!OneOf
<1>3. flags["fail-on"][1] = word /\ \A v : Cmd!OneOf("fail-on", {v}) <=> v = word
  <2>1. \A v : <<v>> = <<word>> <=> v = word
    OBVIOUS
  <2> QED BY <1>2, <2>1 DEF Cmd!OneOf
<1> QED BY <1>1, <1>3 DEF Cmd!Reaches, Cmd!Failing

\* The options are settled: the scan can run, with nothing reported yet.
LEMMA PrepareKeeps == ASSUME ComInv, line # Cmd!Idle, Cmd!Prepare PROVE ComInv'
<1>1. /\ CommandOK /\ KeysOK /\ StatusOK /\ step = "settle"
      /\ UNCHANGED <<line, flags, actual, typed, path, todo, ignored, seen, tripped, document, written, invalid>>
  BY DEF ComInv, Cmd!Prepare, Cmd!PrepareScan, Cmd!PrepareSession, Cmd!PrepareWasi, Cmd!configuring, Cmd!reporting, Cmd!writing
<1>2. options = None /\ status = None /\ flags = [f \in DOMAIN flags |-> flags[f]]
  BY <1>1 DEF CommandOK, Early
<1>3. \/ step' = "exited" /\ status' \in {1, 2} /\ options' = None
      \/ /\ step' \in {"scan", "session"} /\ status' = status
         /\ line.program = "genspec" => step' = "scan" /\ Cmd!FormatIsKnown /\ Cmd!FailOnIsKnown
  <2>1. CASE Cmd!PrepareScan
    <3>1. PICK kind \in {"usage", "ok", "failed"} :
             /\ Cmd!Settle(kind, "scan")
             /\ kind = "ok" => Cmd!FormatIsKnown /\ Cmd!FailOnIsKnown
      BY <2>1 DEF Cmd!PrepareScan
    <3> QED BY <1>2, <3>1, Statuses DEF Cmd!Settle, Cmd!Go, Cmd!Exit
  <2>2. CASE Cmd!PrepareSession
    <3>1. PICK kind \in {"ok", "failed"} : Cmd!Settle(kind, "session") /\ line.program # "genspec"
      BY <2>2 DEF Cmd!PrepareSession
    <3> QED BY <1>2, <3>1, Statuses DEF Cmd!Settle, Cmd!Go, Cmd!Exit
  <2>3. CASE Cmd!PrepareWasi
    <3>1. PICK kind \in {"ok", "failed"} : Cmd!Settle(kind, "scan") /\ line.program # "genspec"
      BY <2>3 DEF Cmd!PrepareWasi
    <3> QED BY <1>2, <3>1, Statuses DEF Cmd!Settle, Cmd!Go, Cmd!Exit
  <2> QED BY <2>1, <2>2, <2>3 DEF Cmd!Prepare
<1>4. CommandOK'
  BY <1>1, <1>2, <1>3, CommandKept DEF Early
<1>5. KeysOK'
  BY <1>1, <1>3, KeysKept
<1>6. StatusOK'
  <2>1. CASE step' = "exited"
    BY <2>1, <1>1, <1>3, EarlyStatus DEF Early
  <2>2. CASE step' # "exited" /\ line.program = "genspec"
    <3>1. /\ seen \in [{"error", "warning", "hint"} -> Nat] /\ tripped = FALSE /\ \A s \in DOMAIN seen : seen[s] = 0
          /\ document = None /\ written = None
      BY <1>1, <2>2 DEF StatusOK, Early
    <3>2. Cmd!FormatIsKnown' /\ Cmd!FailOnIsKnown' /\ Cmd!Failing' = Cmd!Failing
      BY <1>1, <1>3, <2>2, SameFlags
    <3>3. ~\E s \in Cmd!Failing : seen[s] > 0
      BY <3>1 DEF Cmd!Failing
    <3>4. step' = "scan" /\ status' = None
      BY <1>2, <1>3, <2>2
    <3>5. StatusTells'
      BY <3>4 DEF StatusTells, Cmd!StatusTells
    <3> QED BY <1>1, <3>1, <3>2, <3>3, <3>4, <3>5 DEF StatusOK, Early, Running
  <2>3. CASE line.program # "genspec"
    BY <1>1, <2>3 DEF StatusOK
  <2> QED BY <2>1, <2>2, <2>3
<1> QED BY <1>4, <1>5, <1>6 DEF ComInv

LEMMA WhileRunning ==
    ASSUME StatusOK, line.program = "genspec", step \in Running
    PROVE  /\ seen \in [{"error", "warning", "hint"} -> Nat] /\ tripped \in BOOLEAN
           /\ Cmd!FormatIsKnown /\ Cmd!FailOnIsKnown
           /\ tripped <=> \E s \in Cmd!Failing : seen[s] > 0
<1>1. seen \in [{"error", "warning", "hint"} -> Nat] /\ tripped \in BOOLEAN
  BY Zenon DEF StatusOK
<1>2. Cmd!FormatIsKnown /\ Cmd!FailOnIsKnown
  BY Zenon DEF StatusOK
<1>3. tripped <=> \E s \in Cmd!Failing : seen[s] > 0
  BY Zenon DEF StatusOK
<1> QED BY <1>1, <1>2, <1>3

\* What is reported is counted, and trips the threshold when it reaches it.
LEMMA RecordCounts ==
    ASSUME StatusOK, line.program = "genspec", step \in Running, UNCHANGED <<line, flags>>,
           NEW severity \in {"error", "warning", "hint"}, Cmd!Record(severity)
    PROVE  /\ seen' \in [{"error", "warning", "hint"} -> Nat] /\ tripped' \in BOOLEAN
           /\ Cmd!FormatIsKnown' /\ Cmd!FailOnIsKnown'
           /\ tripped' <=> \E s \in Cmd!Failing' : seen'[s] > 0
<1>1. /\ seen \in [{"error", "warning", "hint"} -> Nat] /\ tripped \in BOOLEAN
      /\ Cmd!FormatIsKnown /\ Cmd!FailOnIsKnown
      /\ tripped <=> \E s \in Cmd!Failing : seen[s] > 0
  BY WhileRunning
<1>2. /\ seen' = [seen EXCEPT ![severity] = @ + 1]
      /\ tripped' = (tripped \/ (line.program = "genspec" /\ Cmd!Reaches(severity)))
  BY DEF Cmd!Record
<1>3. Cmd!Reaches(severity) <=> severity \in Cmd!Failing
  BY <1>1, FailingCounts
<1>4. Cmd!Failing \subseteq {"error", "warning", "hint"}
  BY DEF Cmd!Failing
<1>5. tripped' <=> tripped \/ severity \in Cmd!Failing
  BY <1>2, <1>3
<1>6. (\E s \in Cmd!Failing : seen'[s] > 0) <=> severity \in Cmd!Failing \/ \E s \in Cmd!Failing : seen[s] > 0
  BY <1>1, <1>2, <1>4
<1>7. seen' \in [{"error", "warning", "hint"} -> Nat] /\ tripped' \in BOOLEAN
  BY <1>1, <1>2
<1>8. Cmd!FormatIsKnown' /\ Cmd!FailOnIsKnown' /\ Cmd!Failing' = Cmd!Failing
  BY <1>1, SameFlags
<1> QED BY <1>1, <1>5, <1>6, <1>7, <1>8

\* A scan reports, and ends.
LEMMA ScanStepsKeep ==
    ASSUME ComInv, line # Cmd!Idle, Cmd!OnDiagnostic \/ Cmd!RunFails \/ Cmd!RunEnds PROVE ComInv'
<1>1. /\ CommandOK /\ KeysOK /\ StatusOK /\ step = "scan"
      /\ UNCHANGED <<line, flags, actual, typed, path, todo, ignored, options, written, invalid>>
  BY DEF ComInv, Cmd!OnDiagnostic, Cmd!RunFails, Cmd!RunEnds, Cmd!configuring, Cmd!reporting, Cmd!writing
<1>2. status = None /\ flags = [f \in DOMAIN flags |-> flags[f]]
  BY <1>1 DEF CommandOK
<1>3. \/ step' = "scan" /\ status' = status /\ document' = document /\ Cmd!OnDiagnostic
      \/ step' = "exited" /\ status' = 1 /\ UNCHANGED <<seen, tripped, document>>
      \/ step' = "write" /\ status' = status /\ document' \in Documents /\ UNCHANGED <<seen, tripped>>
  BY <1>1, Statuses DEF Cmd!OnDiagnostic, Cmd!RunFails, Cmd!RunEnds, Cmd!Exit, Cmd!Go, Cmd!writing, Cmd!reporting, Documents
<1>4. CommandOK'
  BY <1>1, <1>2, <1>3, CommandKept DEF Early
<1>5. KeysOK'
  BY <1>1, <1>3, KeysKept
<1>6. ASSUME line.program = "genspec" PROVE StatusOK'
  <2>1. /\ seen \in [{"error", "warning", "hint"} -> Nat] /\ tripped \in BOOLEAN
        /\ Cmd!FormatIsKnown /\ Cmd!FailOnIsKnown
        /\ tripped <=> \E s \in Cmd!Failing : seen[s] > 0
        /\ document = None /\ written = None
    <3>1. step \in Running
      BY <1>1 DEF Running
    <3>2. document = None /\ written = None
      BY <1>1, <1>6, Zenon DEF StatusOK
    <3> QED BY <3>1, <3>2, <1>1, <1>6, WhileRunning
  <2>2. /\ seen' \in [{"error", "warning", "hint"} -> Nat] /\ tripped' \in BOOLEAN
        /\ Cmd!FormatIsKnown' /\ Cmd!FailOnIsKnown'
        /\ tripped' <=> \E s \in Cmd!Failing' : seen'[s] > 0
    <3>1. CASE Cmd!OnDiagnostic
      <4>1. PICK severity \in DOMAIN seen : Cmd!Record(severity)
        BY <3>1 DEF Cmd!OnDiagnostic
      <4> QED BY <4>1, <2>1, <1>1, <1>6, RecordCounts DEF Running
    <3>2. CASE UNCHANGED <<seen, tripped>>
      BY <3>2, <2>1, <1>1, SameFlags
    <3> QED BY <3>1, <3>2, <1>3
  <2>3. StatusTells'
    BY <1>1, <1>2, <1>3, <2>1 DEF StatusTells, Cmd!StatusTells
  <2>4. step' \in {"scan", "exited", "write"} /\ (step' = "scan" => document' = None) /\ (step' = "write" => document' \in Documents) /\ written' = None
    BY <1>1, <1>3, <2>1
  <2> QED BY <1>1, <2>2, <2>3, <2>4 DEF StatusOK, Early, Running
<1>7. line.program # "genspec" => StatusOK'
  BY <1>1 DEF StatusOK
<1> QED BY <1>4, <1>5, <1>6, <1>7 DEF ComInv

\* The format of a document is one that is known, so that a document is written in some format.
LEMMA FormatIsSome == ASSUME Cmd!FormatIsKnown PROVE Cmd!Format # None
<1>1. PICK word \in {"json", "yaml", "auto"} : flags["format"] = <<word>>
  BY DEF Cmd!FormatIsKnown, Cmd!OneOf
<1>2. flags["format"] # <<"auto">> => flags["format"][1] \in {"json", "yaml"}
  BY <1>1
<1> QED BY <1>2, CommandsAssumption DEF Cmd!Format

LEMMA WriteKeeps == ASSUME ComInv, line # Cmd!Idle, Cmd!Write \/ Cmd!Emit PROVE ComInv'
<1>1. /\ CommandOK /\ KeysOK /\ StatusOK /\ step = "write"
      /\ UNCHANGED <<line, flags, actual, typed, path, todo, ignored, options, seen, tripped, document, invalid>>
  BY DEF ComInv, Cmd!Write, Cmd!Emit, Cmd!configuring, Cmd!reporting, Cmd!writing
<1>2. status = None /\ flags = [f \in DOMAIN flags |-> flags[f]]
  BY <1>1 DEF CommandOK
<1>3. step' = "exited" \/ (step' = "validate" /\ status' = status /\ line.program = "genspec")
  BY DEF Cmd!Write, Cmd!Emit, Cmd!Exit, Cmd!Go
<1>4. CommandOK'
  BY <1>1, <1>2, <1>3, CommandKept DEF Early
<1>5. KeysOK'
  BY <1>1, <1>3, KeysKept
<1>6. ASSUME line.program = "genspec" PROVE StatusOK'
  <2>1. /\ seen \in [{"error", "warning", "hint"} -> Nat] /\ tripped \in BOOLEAN
        /\ Cmd!FormatIsKnown /\ Cmd!FailOnIsKnown
        /\ tripped <=> \E s \in Cmd!Failing : seen[s] > 0
        /\ document \in Documents /\ written = None
    <3>1. step \in Running
      BY <1>1 DEF Running
    <3>2. document \in Documents /\ written = None
      BY <1>1, <1>6, Zenon DEF StatusOK
    <3> QED BY <3>1, <3>2, <1>1, <1>6, WhileRunning
  <2>2. Cmd!FormatIsKnown' /\ Cmd!FailOnIsKnown' /\ Cmd!Failing' = Cmd!Failing
    BY <1>1, <2>1, SameFlags
  <2>3. \/ step' = "exited" /\ status' = 1 /\ written' = None
        \/ step' = "validate" /\ status' = None /\ written' # None
    BY <1>2, <1>6, <2>1, FormatIsSome, Statuses DEF Cmd!Write, Cmd!Emit, Cmd!Exit, Cmd!Go
  <2>4. StatusTells'
    BY <2>3 DEF StatusTells, Cmd!StatusTells
  <2> QED BY <1>1, <2>1, <2>2, <2>3, <2>4 DEF StatusOK, Early, Running
<1>7. line.program # "genspec" => StatusOK'
  BY <1>1 DEF StatusOK
<1> QED BY <1>4, <1>5, <1>6, <1>7 DEF ComInv

LEMMA ValidateSpecKeeps == ASSUME ComInv, line # Cmd!Idle, Cmd!ValidateSpec PROVE ComInv'
<1>1. /\ CommandOK /\ KeysOK /\ StatusOK /\ step = "validate" /\ step' = "summarize" /\ status' = status
      /\ UNCHANGED <<line, flags, actual, typed, path, todo, ignored, options, document, written>>
  BY DEF ComInv, Cmd!ValidateSpec, Cmd!configuring, Cmd!Go
<1>2. status = None /\ flags = [f \in DOMAIN flags |-> flags[f]] /\ line.program = "genspec"
  BY <1>1 DEF CommandOK
<1>3. CommandOK'
  BY <1>1, <1>2, CommandKept DEF Early
<1>4. KeysOK'
  BY <1>1, KeysKept
<1>5. document \in Documents /\ written # None
  BY <1>1, <1>2, Zenon DEF StatusOK
<1>6. /\ seen' \in [{"error", "warning", "hint"} -> Nat] /\ tripped' \in BOOLEAN
      /\ Cmd!FormatIsKnown' /\ Cmd!FailOnIsKnown'
      /\ tripped' <=> \E s \in Cmd!Failing' : seen'[s] > 0
  <2>0. step \in Running
    BY <1>1 DEF Running
  <2>1. CASE UNCHANGED <<seen, tripped>>
    BY <2>0, <2>1, <1>1, <1>2, WhileRunning, SameFlags
  <2>2. ASSUME NEW severity \in {"error", "warning"}, Cmd!Record(severity)
        PROVE  /\ seen' \in [{"error", "warning", "hint"} -> Nat] /\ tripped' \in BOOLEAN
               /\ Cmd!FormatIsKnown' /\ Cmd!FailOnIsKnown'
               /\ tripped' <=> \E s \in Cmd!Failing' : seen'[s] > 0
    BY <2>0, <2>2, <1>1, <1>2, RecordCounts
  <2>3. UNCHANGED <<seen, tripped>> \/ Cmd!Record("error") \/ Cmd!Record("warning")
    BY DEF Cmd!ValidateSpec, Cmd!reporting
  <2> QED BY <2>1, <2>2, <2>3
<1>7. invalid' = (IF Cmd!Given("validate") /\ document \in {"invalid", "unreadable"} THEN document ELSE None)
  BY DEF Cmd!ValidateSpec
<1>8. \A f : Cmd!Given(f)' <=> Cmd!Given(f)
  BY <1>1, SameFlags
<1>9. StatusTells'
  BY <1>1, <1>2 DEF StatusTells, Cmd!StatusTells
<1>10. StatusOK'
  <2>1. /\ step' \notin Early \cup {"scan", "write"}
        /\ document' \in Documents /\ written' # None
        /\ invalid' = (IF Cmd!Given("validate")' /\ document' \in {"invalid", "unreadable"} THEN document' ELSE None)
    BY <1>1, <1>5, <1>7, <1>8 DEF Early
  <2> QED BY <2>1, <1>6, <1>9 DEF StatusOK
<1> QED BY <1>3, <1>4, <1>10 DEF ComInv

\* The verdict tells the causes apart, the gravest first.
LEMMA SummarizeKeeps == ASSUME ComInv, line # Cmd!Idle, Cmd!Summarize PROVE ComInv'
<1>1. /\ CommandOK /\ KeysOK /\ StatusOK /\ step = "summarize" /\ step' = "exited" /\ status' = Cmd!Verdict
      /\ UNCHANGED <<line, flags, actual, typed, path, todo, ignored, options, seen, tripped, document, written, invalid>>
  BY DEF ComInv, Cmd!Summarize, Cmd!configuring, Cmd!reporting, Cmd!writing, Cmd!Exit
<1>2. flags = [f \in DOMAIN flags |-> flags[f]] /\ line.program = "genspec"
  BY <1>1 DEF CommandOK
<1>3. CommandOK'
  BY <1>1, <1>2, CommandKept DEF Early
<1>4. KeysOK'
  BY <1>1, KeysKept
<1>5. /\ seen \in [{"error", "warning", "hint"} -> Nat] /\ tripped \in BOOLEAN
      /\ tripped <=> \E s \in Cmd!Failing : seen[s] > 0
  <2>1. step \in Running
    BY <1>1 DEF Running
  <2> QED BY <2>1, <1>1, <1>2, WhileRunning
<1>6. /\ document \in Documents /\ written # None
      /\ invalid = (IF Cmd!Given("validate") /\ document \in {"invalid", "unreadable"} THEN document ELSE None)
  BY <1>1, <1>2, Zenon DEF StatusOK
<1>7. /\ invalid = "invalid" <=> Cmd!Checked("invalid")
      /\ invalid = "unreadable" <=> Cmd!Checked("unreadable")
  BY <1>6, CommandsAssumption DEF Cmd!Checked
<1>8. ~(Cmd!Checked("invalid") /\ Cmd!Checked("unreadable"))
  BY DEF Cmd!Checked
<1>9. /\ status' = 4 <=> Cmd!Checked("invalid")
      /\ status' = 1 <=> Cmd!Checked("unreadable")
      /\ status' = 3 <=> ~Cmd!Checked("invalid") /\ ~Cmd!Checked("unreadable") /\ \E s \in Cmd!Failing : seen[s] > 0
      /\ status' # 2
  BY <1>1, <1>5, <1>7, <1>8 DEF Cmd!Verdict
<1>10. /\ \A what : Cmd!Checked(what)' <=> Cmd!Checked(what)
       /\ Cmd!Failing' = Cmd!Failing
  BY <1>1, SameFlags DEF Cmd!Checked
<1>11. document # None
  BY <1>6, CommandsAssumption DEF Documents
<1>12. StatusTells'
  BY <1>1, <1>6, <1>9, <1>10, <1>11 DEF StatusTells, Cmd!StatusTells
<1>13. StatusOK'
  BY <1>1, <1>5, <1>12 DEF StatusOK, Early, Running
<1> QED BY <1>3, <1>4, <1>13 DEF ComInv

LEMMA CommandStays == ASSUME ComInv, UNCHANGED command PROVE ComInv'
<1>1. /\ CommandOK /\ KeysOK /\ StatusOK
      /\ UNCHANGED <<line, step, flags, actual, typed, path, todo, ignored, options, seen, tripped, document, written, invalid, status>>
  BY DEF ComInv, command
<1>2. CommandOK'
  <2>1. Cmd!FlagsOf(line.program)' = Cmd!FlagsOf(line.program) /\ Cmd!Idle' = Cmd!Idle
    BY <1>1, SameLine DEF Cmd!Idle
  <2>2. \A f : Cmd!DefaultOf(line.program, f)' = Cmd!DefaultOf(line.program, f)
    BY <1>1
  <2> QED BY <1>1, <2>1, <2>2 DEF CommandOK
<1>3. KeysOK'
  BY <1>1, KeysKept
<1>4. StatusOK'
  <2>1. /\ Cmd!FormatIsKnown' <=> Cmd!FormatIsKnown
        /\ Cmd!FailOnIsKnown' <=> Cmd!FailOnIsKnown
        /\ Cmd!Failing' = Cmd!Failing
        /\ \A f : Cmd!Given(f)' <=> Cmd!Given(f)
        /\ \A what : Cmd!Checked(what)' <=> Cmd!Checked(what)
        /\ \A f : Cmd!Said(f)' = Cmd!Said(f)
    BY <1>1, SameFlags, SameLine DEF Cmd!Checked
  <2>2. StatusTells' <=> StatusTells
    BY <1>1, <2>1, Zenon DEF StatusTells, Cmd!StatusTells
  <2> QED BY <1>1, <2>1, <2>2, Zenon DEF StatusOK
<1> QED BY <1>2, <1>3, <1>4 DEF ComInv

LEMMA BeginsOK == InitAll => ComInv
<1>1. ASSUME Cmd!Begin(Cmd!Idle) PROVE ComInv
  <2>1. /\ line = Cmd!Idle /\ step = "exited" /\ options = None /\ status = None /\ typed = {}
        /\ line.program # "genspec"
    BY <1>1, CommandsAssumption DEF Cmd!Begin, Cmd!Idle
  <2>2. CommandOK
    BY <2>1 DEF CommandOK, Early
  <2>3. KeysOK
    BY <2>1 DEF KeysOK
  <2> QED BY <2>1, <2>2, <2>3 DEF ComInv, StatusOK
<1>2. ASSUME NEW l \in Lines, Cmd!Begin(l) PROVE ComInv
  <2>1. l # Cmd!Idle
    BY CommandsAssumption DEF Cmd!Idle
  <2>2. /\ line = l /\ step = "parse" /\ actual = {} /\ typed = {} /\ path = None /\ options = None
        /\ flags = [f \in Cmd!FlagsOf(line.program) |-> Cmd!DefaultOf(line.program, f)]
        /\ seen = [s \in {"error", "warning", "hint"} |-> 0]
        /\ tripped = FALSE /\ document = None /\ written = None /\ status = None
    BY <1>2, <2>1 DEF Cmd!Begin
  <2>3. CommandOK
    BY <2>1, <2>2 DEF CommandOK
  <2>4. KeysOK
    BY <2>2 DEF KeysOK
  <2>5. StatusTells
    BY <2>2 DEF StatusTells, Cmd!StatusTells
  <2>6. StatusOK
    BY <2>2, <2>5 DEF StatusOK, Early, Running
  <2> QED BY <2>3, <2>4, <2>6 DEF ComInv
<1> QED BY <1>1, <1>2 DEF InitAll

LEMMA CommandsKeep == ASSUME ComInv, [NextAll]_allVars PROVE ComInv'
<1>1. CASE UNCHANGED command
  BY <1>1, CommandStays
<1>2. CASE Cmd!Prepare \/ Cmd!Begins \/ Cmd!OnDiagnostic \/ Cmd!RunFails \/ Cmd!RunEnds \/ Cmd!Finish
  <2>1. step # "exited"
    BY <1>2 DEF Cmd!Prepare, Cmd!PrepareScan, Cmd!PrepareSession, Cmd!PrepareWasi, Cmd!Begins, Cmd!Parse, Cmd!ReadConfiguration,
                Cmd!ApplyKey, Cmd!EndConfiguration, Cmd!OnDiagnostic, Cmd!RunFails, Cmd!RunEnds, Cmd!Finish, Cmd!Write, Cmd!Emit,
                Cmd!ValidateSpec, Cmd!Summarize
  <2>2. line # Cmd!Idle
    BY <2>1 DEF ComInv, CommandOK
  <2> QED BY <1>2, <2>2, ParseKeeps, ReadConfigurationKeeps, ApplyKeyKeeps, EndConfigurationKeeps, PrepareKeeps, ScanStepsKeep,
             WriteKeeps, ValidateSpecKeeps, SummarizeKeeps DEF Cmd!Begins, Cmd!Finish
<1> QED BY <1>1, <1>2 DEF NextAll, Loads, StartScan, Commands, Returns, allVars

\* Whatever a configuration file said is applied, outranked by what was typed, or listed as ignored: of its
\* keys none is passed over, in whatever order they come (cliconf.Apply, Discover).
THEOREM KeysAnswered == SpecAll => []KeysAreAnswered
<1>1. ComInv => KeysAreAnswered
  <2> SUFFICES ASSUME ComInv, Cmd!Ended, path # None, options # None, NEW key \in DOMAIN line.disk[path].values
               PROVE  Answered(key)
    BY DEF KeysAreAnswered, Cmd!KeysAreAnswered, Answered
  <2> HIDE DEF Answered
  <2> QED BY DEF ComInv, KeysOK
<1> QED BY <1>1, BeginsOK, CommandsKeep, PTL DEF SpecAll

\* The exit status of genspec tells what became of the document and of what was reported, however the scan,
\* the write and the validation went (main.go: exitStatus, run; Reporter.record, ValidateSpec).
THEOREM StatusAlwaysTells == SpecAll => []StatusTells
<1>1. ComInv => StatusTells
  <2>1. line.program # "genspec" => StatusTells
    BY DEF StatusTells, Cmd!StatusTells
  <2>2. line.program = "genspec" /\ StatusOK => StatusTells
    BY Zenon DEF StatusOK
  <2> QED BY <2>1, <2>2 DEF ComInv
<1> QED BY <1>1, BeginsOK, CommandsKeep, PTL DEF SpecAll

-----------------------------------------------------------------------------
(* A load under a command *)

\* With nothing loaded, whatever is to be scanned may still change.
LEMMA UnloadedIsFine == ScanOK /\ Unloaded /\ AnswersOK => AInv
<1> SUFFICES ASSUME ScanOK, Unloaded, AnswersOK PROVE AInv
  OBVIOUS
<1>1. stack \in Seq({})
  BY DEF Unloaded
<1>2. DOMAIN NoMap = {} /\ NoMap = [x \in {} |-> NoMap[x]]
  BY DEF NoMap
<1>3. StagesOK /\ IndexOK /\ IndexedOK
  BY <1>2 DEF Unloaded, StagesOK, IndexOK, IndexedOK
<1>4. PackagesOK
  BY <1>2, Zenon DEF Unloaded, PackagesOK
<1>5. CallsOK
  BY <1>1 DEF CallsOK
<1>6. RootsOK
  BY <1>2 DEF Unloaded, RootsOK, Loaded
<1>7. NotedOK /\ NotAsked
  BY <1>2 DEF Unloaded, NotedOK, AnswersOK
<1>8. GivenUpOK
  BY <1>7 DEF NotAsked, GivenUpOK
<1>9. DeclarationsAreFound
  <2>1. DOMAIN <<>> = {}
    OBVIOUS
  <2> QED BY <1>7, <2>1 DEF NotAsked, DeclarationsAreFound
<1> QED BY <1>3, <1>4, <1>5, <1>6, <1>7, <1>8, <1>9 DEF AInv, IInv

LEMMA UnloadedStaysFine == (ScanOK /\ Unloaded /\ AnswersOK)' => AInv'
  BY UnloadedIsFine, PTL

LEMMA AllStarts == InitAll => AInv /\ EarlyOK
<1> SUFFICES ASSUME InitAll PROVE AInv /\ EarlyOK
  OBVIOUS
<1>1. PICK s : InitWith(s) /\ IsScan(s)
  BY ScansAssumption, TreeAssumption DEF InitAll, Init
<1>2. ScanOK
  BY <1>1 DEF InitWith, ScanOK
<1>3. Unloaded
  BY <1>1 DEF InitWith, Unloaded
<1>4. AnswersOK
  BY <1>1 DEF InitWith, AnswersOK, NotAsked
<1> QED BY <1>2, <1>3, <1>4, UnloadedIsFine DEF EarlyOK

\* The options of a command change how its tree is loaded, not the tree.
LEMMA StartScanKeeps ==
    ASSUME AInv, EarlyOK, StartScan PROVE AInv' /\ EarlyOK'
<1>1. step = "settle" /\ step' \in {"exited", "scan", "session"}
  BY DEF StartScan, Cmd!Prepare, Cmd!PrepareScan, Cmd!PrepareSession, Cmd!PrepareWasi, Cmd!Settle, Cmd!Go, Cmd!Exit
<1>2. Unloaded /\ UNCHANGED <<stage, packages, stack, roots, index, failed, answers>>
  BY <1>1 DEF EarlyOK, Early, StartScan, loading, looking
<1>3. ScanOK'
  <2>1. IsScan(scan)
    BY DEF AInv, IInv, ScanOK
  <2>2. DOMAIN scan' = DOMAIN scan /\ scan'.layout = scan.layout /\ scan'.marked = scan.marked
    <3> DEFINE strategy == IF options'["loader"] THEN "toolchain-free" ELSE "go/packages"
               taken == options'["compiled-dependencies"]
               without == options'["exclude-deps"]
               patterns == UNION {PatternsOf(Cmd!Packages[i]) : i \in DOMAIN Cmd!Packages}
               accepted == Accepted(options'["include"])
    <3>1. scan' = scan \/ scan' = [scan EXCEPT !.strategy = strategy, !.compiled = taken, !.excludeDeps = without,
                                              !.patterns = patterns, !.accepted = accepted]
      BY Zenon DEF StartScan
    <3> HIDE DEF strategy, taken, without, patterns, accepted
    <3> QED BY <2>1, <3>1 DEF IsScan
  <2>3. Directories(scan') = Directories(scan)
    BY <2>2 DEF Directories
  <2> QED BY <2>1, <2>2, <2>3 DEF IsScan, ScanOK
<1>4. Unloaded'
  BY <1>2 DEF Unloaded
<1>5. AnswersOK'
  BY <1>2 DEF AInv, AnswersOK, NotAsked
<1> QED BY <1>1, <1>3, <1>4, <1>5, UnloadedStaysFine DEF EarlyOK, Early

LEMMA AllKeep == ASSUME AInv, EarlyOK, CommandOK, [NextAll]_allVars PROVE AInv' /\ EarlyOK'
<1>1. CASE StartScan
  BY <1>1, StartScanKeeps
<1>2. CASE Loads
  <2>1. AInv'
    BY <1>2, NextAnswers DEF Loads
  <2>2. step' = step /\ step \notin Early
    BY <1>2 DEF Loads, command, CommandOK, Early
  <2> QED BY <2>1, <2>2 DEF EarlyOK
<1>3. CASE Commands \/ UNCHANGED allVars
  <2>1. AInv'
    BY <1>3, NextAnswers DEF Commands, allVars
  <2>2. step' \in Early => step \in Early
    BY <1>3 DEF Commands, allVars, command, Cmd!Begins, Cmd!Parse, Cmd!ReadConfiguration, Cmd!ApplyKey, Cmd!EndConfiguration,
                Returns, Cmd!OnDiagnostic, Cmd!RunFails, Cmd!RunEnds, Cmd!Finish, Cmd!Write, Cmd!Emit, Cmd!ValidateSpec, Cmd!Summarize,
                Cmd!Go, Cmd!Exit, Cmd!Refuse, Early
  <2>3. UNCHANGED <<stage, stack, packages, roots, index>>
    BY <1>3 DEF Commands, allVars, vars, loading, looking
  <2>4. Unloaded => Unloaded'
    BY <2>3 DEF Unloaded
  <2> QED BY <2>1, <2>2, <2>4 DEF EarlyOK
<1> QED BY <1>1, <1>2, <1>3 DEF NextAll

\* The same of the loads that a command starts, with the options it settled, as of those of the library.
THEOREM CommandsReadTheScanned == SpecAll => []ScannedIsRead
<1>1. AInv => ScannedIsRead
  BY SoundIsRead DEF AInv
<1>2. ComInv => CommandOK
  BY DEF ComInv
<1>3. SpecAll => []ComInv
  BY BeginsOK, CommandsKeep, PTL DEF SpecAll
<1>4. AInv /\ EarlyOK /\ CommandOK /\ [NextAll]_allVars => (AInv /\ EarlyOK)'
  BY AllKeep
<1> QED BY <1>1, <1>2, <1>3, <1>4, AllStarts, PTL DEF SpecAll

\* So do their lookups find what there is.
THEOREM CommandsFindDeclarations == SpecAll => []DeclarationsAreFound
<1>1. AInv => DeclarationsAreFound
  BY DEF AInv
<1>2. ComInv => CommandOK
  BY DEF ComInv
<1>3. SpecAll => []ComInv
  BY BeginsOK, CommandsKeep, PTL DEF SpecAll
<1>4. AInv /\ EarlyOK /\ CommandOK /\ [NextAll]_allVars => (AInv /\ EarlyOK)'
  BY AllKeep
<1> QED BY <1>1, <1>2, <1>3, <1>4, AllStarts, PTL DEF SpecAll
=============================================================================
