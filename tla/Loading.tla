------------------------------ MODULE Loading ------------------------------
(***************************************************************************)
(* From the patterns of a scan to the declarations its builders find       *)
(* (internal/packages: loader.go, exportdata.go, attach.go, golist.go,     *)
(* strategy.go, synthesize.go; internal/scanner: scan_context.go,          *)
(* index.go).  One strategy asks the go command for the packages; the      *)
(* other follows imports itself, a package at a time.  A dependency comes  *)
(* with its source or with its types alone, from compiled export data; the *)
(* packages are then classified, and a builder that wants a declaration of *)
(* a package without source has it read at that moment.                    *)
(*                                                                         *)
(* Files and declarations are not told apart: a directory holds source     *)
(* that "reads", that is "broken" (go/build refuses it), "excluded" (no    *)
(* file matches the build) or "conflicting" (two classifications of one    *)
(* declaration, which end the scan).  A scan is a record:                  *)
(*   virtual, strategy, compiled, excludeDeps   its options                *)
(*   patterns          below the main root, each with base and recursive   *)
(*   wants             the paths whose declarations the builders ask for   *)
(*   accepted          the paths that Include and Exclude let through      *)
(*   exported          the paths with export data (ExportData)             *)
(*   layout            see ImportResolution                                *)
(*   content, imports  directory to its source, and to what that imports   *)
(*   marked, failing   the directories with an annotation, and those that  *)
(*                     do not compile                                      *)
(***************************************************************************)
EXTENDS ImportResolution, FiniteSets, TLC

CONSTANTS
    Segments,   \* the segments of paths
    Paths,      \* every import path
    Order,      \* the paths in string order
    Scans       \* the scans considered, in families

ASSUME OrderAssumption == \A p \in Paths : \E i \in DOMAIN Order : Order[i] = p

\* The directory of a scan is in a module, which has a name; None is no directory.
Directories(s) ==
    ({Goroot} \X (s.layout.std \cup {<<"vendor">> \o p : p \in s.layout.stdVendor}))
        \cup UNION {{root} \X s.layout.tree[root] : root \in DOMAIN s.layout.tree}
IsScan(s) ==
    /\ {"layout", "marked"} \subseteq DOMAIN s
    /\ s.layout.main # None /\ s.layout.main \in Seq(Segments)
    /\ MainRoot \in DOMAIN s.layout.tree /\ s.layout.tree[MainRoot] \subseteq Seq(Segments)
    /\ None \notin Directories(s) \cup s.marked

ASSUME ScansAssumption == \A i \in DOMAIN Scans : \A s \in Scans[i] : IsScan(s)

VARIABLES
    scan,       \* options, layout and source of the code under scan
    stage,      \* "start", "source", "list", "attach", "check", "index", "lookups" or "aborted"
    compiled,   \* this load was asked to take the types of dependencies from the compiler
    stack,      \* the calls of loadDir under way
    packages,   \* every *Package made by this load, by its path and what it was made from: "source" or "types"
    located,    \* loadState.srcFiles: where the source of a dependency was found
    roots,      \* what each directory the patterns matched was loaded as, so far; None: not a package
    exportOnly, \* ScanCtx.exportOnly: why a package came without its source
    index,      \* TypeIndex.AllPackages
    classified, \* the paths whose annotations are in the index
    failed,     \* ScanCtx.readBackFailed
    answers     \* what the lookups of a package found, in order

loading == <<stack, located, roots>>
looking == <<index, classified, failed, answers>>
vars == <<scan, stage, compiled, packages, loading, exportOnly, looking>>

NoMap == <<>>
With(f, x, y) == [z \in DOMAIN f \cup {x} |-> IF z = x THEN y ELSE f[z]]
Content(dir) == scan.content[dir]
Imported(dir) == scan.imports[dir]
CarriesMarker(dir) == dir \in scan.marked

\* A virtual filesystem forces the loader that needs no toolchain.
Strategy == IF scan.virtual THEN "toolchain-free" ELSE scan.strategy

\* The directories the patterns match, in the order of their paths.
TargetPath(d) == scan.layout.main \o d
Targets == {d \in scan.layout.tree[MainRoot] :
               \E pat \in scan.patterns : IsTarget(scan.layout, pat.base, pat.recursive, d)}
RankOf(p) == CHOOSE i \in DOMAIN Order : Order[i] = p
Comes(d, e) == RankOf(TargetPath(d)) <= RankOf(TargetPath(e))

\* A package as a load leaves it: with its source or not, its types, those inside its functions.
Package(dir, syntax, typed) ==
    [dir |-> dir, syntax |-> syntax, typed |-> typed, bodies |-> FALSE, imports |-> NoMap, listError |-> FALSE]
Source(p) == <<p, "source">>
Types(p) == <<p, "types">>
PathOf(id) == id[1]

InitWith(s) ==
    /\ scan = s
    /\ stage = "start"
    /\ compiled = scan.compiled
    /\ stack = <<>>
    /\ packages = NoMap
    /\ located = NoMap
    /\ roots = NoMap
    /\ exportOnly = NoMap
    /\ index = NoMap
    /\ classified = {}
    /\ failed = {}
    /\ answers = [p \in scan.wants |-> <<>>]

Init == \E i \in DOMAIN Scans : \E s \in Scans[i] : InitWith(s)

\* A load begins with nothing but what the notices of an earlier one left.  A pattern that names no
\* directory fails the loader that resolves it.
Start ==
    /\ stage = "start"
    /\ stage' = IF Strategy = "go/packages" THEN "list"
                ELSE IF \A pat \in scan.patterns : pat.base \in scan.layout.tree[MainRoot] THEN "source" ELSE "aborted"
    /\ stack' = <<>>
    /\ packages' = NoMap
    /\ located' = NoMap
    /\ roots' = NoMap
    /\ UNCHANGED <<scan, compiled, exportOnly, looking>>

-----------------------------------------------------------------------------
(* Without a toolchain: loadDir and importer.Import *)

Top == stack[Len(stack)]
Callers == SubSeq(stack, 1, Len(stack) - 1)
Done(p) == Append(Callers, [Top EXCEPT !.todo = @ \ {p}])

\* Read the source of a package and start to check its types; it is known by its path from here on.
\* What go/build refuses is reported on the package, with the files it classified.
Open(path, dir, isRoot, for, callers) ==
    /\ packages' = With(packages, Source(path), [Package(dir, TRUE, FALSE) EXCEPT !.listError = (Content(dir) = "broken")])
    /\ stack' = Append(callers, [path |-> path, dir |-> dir, todo |-> Imported(dir), root |-> isRoot, for |-> for])

\* loadState.byPath
Known(p) == Source(p) \in DOMAIN packages

\* The next target: one that a target before it already imported is not read again.
LoadRoot ==
    /\ stage = "source" /\ stack = <<>>
    /\ \E d \in Targets \ DOMAIN roots :
        /\ \A e \in Targets \ DOMAIN roots : Comes(d, e)
        /\ \/ /\ Known(TargetPath(d))
              /\ roots' = With(roots, d, Source(TargetPath(d)))
              /\ UNCHANGED <<packages, stack>>
           \/ /\ ~Known(TargetPath(d)) /\ Content(<<MainRoot, d>>) = "excluded"
              /\ roots' = With(roots, d, None)
              /\ UNCHANGED <<packages, stack>>
           \/ /\ ~Known(TargetPath(d)) /\ Content(<<MainRoot, d>>) # "excluded"
              /\ Open(TargetPath(d), <<MainRoot, d>>, TRUE, None, <<>>)
              /\ UNCHANGED roots
    /\ UNCHANGED <<scan, stage, compiled, located, exportOnly, looking>>

\* Where the source of a dependency is, found once: nowhere, in a directory go/build refuses, or in one
\* whose files can be scanned for the marker of an annotation.
Located(p) ==
    IF p \in DOMAIN located THEN {located[p]}
    ELSE IF ResolveImport(scan.layout, p) = {} THEN {[dir |-> None, why |-> "not on the filesystem"]}
    ELSE {IF Content(d) \in {"broken", "excluded"} THEN [dir |-> None, why |-> "could not be read"]
          ELSE [dir |-> d, why |-> "not annotated"] : d \in ResolveImport(scan.layout, p)}

\* Mutant: the code under scan is taken from export data like a dependency.
MayBeExportedAnywhere(p) == p \in scan.exported

\* Only what is not under scan may come from export data.
MayBeExported(p) == p \in scan.exported /\ ~InMainModule(scan.layout, p)

\* Whether what was located says anything to a scan.
Speaks(l) == l.dir # None /\ CarriesMarker(l.dir)

\* The first reason given for a package is kept.
Note(ps, why) == exportOnly' = [p \in DOMAIN exportOnly \cup ps |-> IF p \in DOMAIN exportOnly THEN exportOnly[p] ELSE why]

\* A dependency that carries no annotation comes as its types, and is not followed further.
ImportExported ==
    /\ stage = "source" /\ stack # <<>>
    /\ \E p \in Top.todo :
        /\ MayBeExported(p)
        /\ \E l \in Located(p) :
            /\ ~Speaks(l)
            /\ located' = With(located, p, l)
            /\ Note({p}, l.why)
            /\ packages' = With([packages EXCEPT ![Source(Top.path)].imports = With(@, p, Types(p))],
                                Types(p), Package(l.dir, FALSE, TRUE))
        /\ stack' = Done(p)
    /\ UNCHANGED <<scan, stage, compiled, roots, looking>>

FromSource(p) ==
    \/ ~MayBeExported(p) /\ UNCHANGED located
    \/ MayBeExported(p) /\ \E l \in Located(p) : Speaks(l) /\ located' = With(located, p, l)

\* Any other import is read from source, if it was not read before.
ImportSource ==
    /\ stage = "source" /\ stack # <<>>
    /\ \E p \in Top.todo :
        /\ FromSource(p)
        /\ \E r \in ResolveImportFrom(scan.layout, p, Top.dir) :
            \/ /\ Known(r.path) /\ packages[Source(r.path)].typed
               /\ packages' = [packages EXCEPT ![Source(Top.path)].imports = With(@, p, Source(r.path))]
               /\ stack' = Done(p)
            \/ /\ ~Known(r.path) /\ Content(r.dir) # "excluded"
               /\ Open(r.path, r.dir, FALSE, p, Done(p))
    /\ UNCHANGED <<scan, stage, compiled, roots, exportOnly, looking>>

\* An import that leads nowhere, to no package, or to one whose types are being checked, gets an empty
\* package that is nobody's import.
ImportStub ==
    /\ stage = "source" /\ stack # <<>>
    /\ \E p \in Top.todo :
        /\ FromSource(p)
        /\ LET places == ResolveImportFrom(scan.layout, p, Top.dir)
               leadsNowhere(r) == IF Known(r.path) THEN ~packages[Source(r.path)].typed ELSE Content(r.dir) = "excluded"
           IN  places = {} \/ (\E r \in places : leadsNowhere(r))
        /\ stack' = Done(p)
    /\ UNCHANGED <<scan, stage, compiled, packages, roots, exportOnly, looking>>

\* Every import is there: check the types.  The bodies of functions are checked in a target, where a
\* type may be declared inside one; not in a dependency.
CheckTypes ==
    /\ stage = "source" /\ stack # <<>> /\ Top.todo = {}
    /\ LET typed == [packages EXCEPT ![Source(Top.path)] = [@ EXCEPT !.typed = TRUE, !.bodies = Top.root]]
           caller == Callers[Len(Callers)]
       IN  \/ /\ Top.root
              /\ packages' = typed
              /\ roots' = With(roots, Top.dir[2], Source(Top.path))
           \/ /\ ~Top.root
              /\ packages' = [typed EXCEPT ![Source(caller.path)].imports = With(@, Top.for, Source(Top.path))]
              /\ UNCHANGED roots
    /\ stack' = Callers
    /\ UNCHANGED <<scan, stage, compiled, located, exportOnly, looking>>

EndSource ==
    /\ stage = "source" /\ stack = <<>> /\ Targets = DOMAIN roots
    /\ stage' = "check"
    /\ UNCHANGED <<scan, compiled, packages, loading, exportOnly, looking>>

-----------------------------------------------------------------------------
(* With the go command *)

\* Where the go command finds a path: as above, in the longest of the modules that go.mod requires.
GoDirs(p) ==
    FirstFound(<<StdDirs(scan.layout, p), WorkspaceDirs(scan.layout, p), MainDirs(scan.layout, p), VendorDirs(scan.layout, p),
                 LET mods == ModDirs(scan.layout)
                 IN  UNION {DirIn(scan.layout, m, mods[m], p) : m \in LongestModuleMatch(mods, p)}>>)
GoDir(p) == CHOOSE d \in GoDirs(p) : TRUE
IsListed(p) == \E d \in GoDirs(p) : Content(d) # "excluded"
ListedTargets == {d \in Targets : Content(<<MainRoot, d>>) # "excluded"}
TargetPaths == {TargetPath(d) : d \in ListedTargets}
IsFollowed(p) == p \in TargetPaths \/ IsListed(p)
Reachable == \* each path is at most as many imports away from a target as there are paths
    LET f[i \in 0..Cardinality(Paths)] ==
            IF i = 0 THEN TargetPaths ELSE f[i - 1] \cup UNION {Imported(GoDir(p)) : p \in {q \in f[i - 1] : IsFollowed(q)}}
    IN  TargetPaths \cup {q \in f[Cardinality(Paths)] : IsListed(q)}

\* One object for each package the targets reach.  The source of a dependency is not among what is asked
\* for when its types come from the compiler, and that compiles the targets: one that does not compile
\* could not be loaded.
Way(p) == IF p \in TargetPaths \/ ~compiled THEN Source(p) ELSE Types(p)
GoList ==
    LET within == Reachable
    IN  [id \in {Way(p) : p \in within} |->
            LET p == PathOf(id)
                dir == GoDir(p)
                isTarget == p \in TargetPaths
            IN  [Package(dir, id = Source(p), TRUE) EXCEPT
                    !.bodies = isTarget,
                    !.imports = [q \in within \cap Imported(dir) |-> Way(q)],
                    !.listError = Content(dir) = "broken" \/ (isTarget /\ compiled /\ dir \in scan.failing)]]

ListPackages ==
    /\ stage = "list"
    /\ packages' = GoList
    /\ roots' = [d \in ListedTargets |-> Source(TargetPath(d))]
    /\ stage' = IF compiled THEN "attach" ELSE "check"
    /\ UNCHANGED <<scan, compiled, stack, located, exportOnly, looking>>

\* A dependency that came as its types and whose files carry no marker.
StaysExportOnly(pkg) == ~pkg.syntax /\ ~CarriesMarker(pkg.dir)

\* attachAnnotatedDependencies: the dependencies that carry an annotation get their source back.
AttachSources ==
    /\ stage = "attach"
    /\ packages' = [id \in DOMAIN packages |-> [packages[id] EXCEPT !.syntax = @ \/ CarriesMarker(packages[id].dir)]]
    /\ Note({PathOf(id) : id \in {o \in DOMAIN packages : StaysExportOnly(packages[o])}}, "not annotated")
    /\ stage' = "check"
    /\ UNCHANGED <<scan, compiled, loading, looking>>

-----------------------------------------------------------------------------
(* What was loaded: again without the compiler, not at all, or indexed *)

Loaded == {roots[d] : d \in DOMAIN roots} \ {None}
AnyListError == \E id \in Loaded : packages[id].listError

\* The load that takes types from the compiler is given up when a target could not be loaded.
Fallback ==
    /\ stage = "check" /\ compiled /\ AnyListError
    /\ compiled' = FALSE
    /\ stage' = "start"
    /\ UNCHANGED <<scan, packages, loading, exportOnly, looking>>

\* detectDegradedLoad
DetectDegradedLoad ==
    /\ stage = "check" /\ ~(compiled /\ AnyListError)
    /\ stage' = IF Loaded = {} \/ AnyListError THEN "aborted" ELSE "index"
    /\ UNCHANGED <<scan, compiled, packages, loading, exportOnly, looking>>

\* TypeIndex.processPackage: the annotations of a package that the rules accept, if it has source.
Process(id) ==
    LET pkg == packages[id]
        read == PathOf(id) \in scan.accepted /\ pkg.syntax
    IN  /\ index' = With(index, PathOf(id), id)
        /\ classified' = IF read /\ CarriesMarker(pkg.dir) THEN classified \cup {PathOf(id)} ELSE classified
        /\ stage' = IF read /\ Content(pkg.dir) = "conflicting" THEN "aborted" ELSE stage
        /\ UNCHANGED <<scan, compiled, packages, loading, exportOnly, failed, answers>>

ImportsOf(id) == {packages[id].imports[q] : q \in DOMAIN packages[id].imports}

\* Mutant: only the direct imports of the targets are walked.
DirectImports == {id \in UNION {ImportsOf(r) : r \in Loaded} : PathOf(id) \notin DOMAIN index}

\* The imports of indexed packages that are not indexed yet, in no fixed order.
Pending ==
    IF scan.excludeDeps THEN {}
    ELSE {id \in UNION {ImportsOf(index[p]) : p \in DOMAIN index} : PathOf(id) \notin DOMAIN index}

IndexImport == stage = "index" /\ \E id \in Pending : Process(id)

Unindexed == {id \in Loaded : PathOf(id) \notin DOMAIN index}

IndexRoot ==
    /\ stage = "index" /\ Pending = {}
    /\ \E id \in Unindexed :
        /\ \A other \in Unindexed : RankOf(PathOf(id)) <= RankOf(PathOf(other))
        /\ Process(id)

EndIndex ==
    /\ stage = "index" /\ Pending = {} /\ Unindexed = {}
    /\ stage' = "lookups"
    /\ UNCHANGED <<scan, compiled, packages, loading, exportOnly, looking>>

-----------------------------------------------------------------------------
(* What a builder asks for, after the load *)

\* A package that is known to be without source is asked for it, once.
Wanting(p) == ~packages[index[p]].syntax /\ p \in DOMAIN exportOnly /\ p \notin failed
HasFiles(id) == packages[id].dir # None

\* Mutant: a package leaves the set of those without source when it is asked for it, read or not.
ReadBackForgets(p) ==
    /\ packages' = IF Wanting(p) /\ HasFiles(index[p]) THEN [packages EXCEPT ![index[p]].syntax = TRUE] ELSE packages
    /\ exportOnly' = [q \in DOMAIN exportOnly \ {p} |-> exportOnly[q]]
    /\ UNCHANGED failed

ReadBackOnDemand(p) ==
    IF Wanting(p) /\ HasFiles(index[p])
    THEN /\ packages' = [packages EXCEPT ![index[p]].syntax = TRUE]
         /\ exportOnly' = [q \in DOMAIN exportOnly \ {p} |-> exportOnly[q]]
         /\ UNCHANGED failed
    ELSE /\ failed' = IF Wanting(p) THEN failed \cup {p} ELSE failed
         /\ UNCHANGED <<packages, exportOnly>>

\* What a builder makes of a lookup: a declaration, a type without one, or a failure of the build.
Answer(p) ==
    IF p \in DOMAIN index /\ packages'[index[p]].syntax THEN "found"
    ELSE IF p \in DOMAIN exportOnly' THEN "sourceless" ELSE "missing"

\* FindDecl.  Two lookups of each package are enough to tell what a second one finds.
MaxLookups == 2
FindDecl(p) ==
    /\ stage = "lookups" /\ Len(answers[p]) < MaxLookups
    /\ IF p \in DOMAIN index THEN ReadBackOnDemand(p) ELSE UNCHANGED <<packages, exportOnly, failed>>
    /\ answers' = [answers EXCEPT ![p] = Append(@, Answer(p))]
    /\ UNCHANGED <<scan, stage, compiled, loading, index, classified>>

\* FileForPos asks for the source in the same way, and nothing is said when there is none.
FileForPos(p) ==
    /\ stage = "lookups" /\ p \in DOMAIN index /\ Wanting(p)
    /\ ReadBackOnDemand(p)
    /\ UNCHANGED <<scan, stage, compiled, loading, index, classified, answers>>

Next ==
    \/ Start \/ LoadRoot \/ ImportExported \/ ImportSource \/ ImportStub \/ CheckTypes \/ EndSource
    \/ ListPackages \/ AttachSources \/ Fallback \/ DetectDegradedLoad
    \/ IndexImport \/ IndexRoot \/ EndIndex
    \/ \E p \in scan.wants : FindDecl(p) \/ FileForPos(p)

Spec == Init /\ [][Next]_vars

-----------------------------------------------------------------------------
(* Properties *)

\* The code under scan is read from source, its annotations with it, whatever its dependencies came as
\* and whoever imported it first (importer.Import: "the module under scan is always read from source").
ScannedIsRead ==
    stage = "lookups" =>
        \A id \in Loaded : PathOf(id) \in DOMAIN index /\ packages[index[PathOf(id)]].syntax

\* What an import leads to, once the target directories and the layout are known: through packages that
\* are read, and not through those that come as their types.
Stops(p) == Strategy = "toolchain-free" /\ p \in scan.exported /\ ~InMainModule(scan.layout, p)
Hops(r) ==
    UNION {IF Strategy = "toolchain-free" THEN ResolveImportFrom(scan.layout, p, r.dir) ELSE {[dir |-> d, path |-> p] : d \in GoDirs(p)} :
              p \in Imported(r.dir)}
Reached ==
    LET read(S) == {r \in S : Content(r.dir) # "excluded" /\ (Stops(r.path) => r.dir \in scan.marked /\ Content(r.dir) # "broken")}
        next(S) == read(UNION {{r} \cup Hops(r) : r \in S})
        f[n \in 0..Cardinality(Paths)] ==
            IF n = 0 THEN read({[dir |-> <<MainRoot, d>>, path |-> TargetPath(d)] : d \in Targets}) ELSE next(f[n - 1])
    IN  f[Cardinality(Paths)]

\* Every annotated package that the code under scan reaches, and that the rules let through, is in the
\* index with its annotations: taking the types of a dependency from the compiler does not silence it
\* (carriesAnnotations, attachAnnotatedDependencies, walkImports).
AnnotatedIsRead ==
    stage = "lookups" /\ ~scan.excludeDeps =>
        \A r \in Reached : CarriesMarker(r.dir) /\ r.path \in scan.accepted => r.path \in classified

\* A declaration is found in any package of the index whose files exist, at the first lookup and at the
\* second; where there are none, a builder is told so each time (readBackOnDemand).
DeclarationsAreFound ==
    \A p \in DOMAIN answers \cap DOMAIN index :
        \A k \in DOMAIN answers[p] : answers[p][k] = IF HasFiles(index[p]) THEN "found" ELSE "sourceless"
=============================================================================
