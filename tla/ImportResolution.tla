-------------------------- MODULE ImportResolution --------------------------
(***************************************************************************)
(* Where an import path leads without a toolchain                          *)
(* (internal/packages/list: resolve.go, workspace.go): the standard        *)
(* library, the workspace, the main module, its vendor directory and the   *)
(* modules go.mod requires, in this order.                                 *)
(*                                                                         *)
(* An import path is a sequence of segments; a module is named by one.  A  *)
(* directory is a root (a module's, the standard library's, or a vendor    *)
(* tree's) and the path below it.  The layout is a record:                 *)
(*   std, stdVendor   the paths below GOROOT/src and its vendor directory  *)
(*   stub             the standard library is withheld (WithStubbedStdlib) *)
(*   replaces, uses   the modules of go.work, each with its root           *)
(*   main             the main module, None when no go.mod is found        *)
(*   vendor           vendor/modules.txt exists and -mod is not mod        *)
(*   requires         the modules go.mod requires, each with its version   *)
(*   replaced         go.mod's replacements: module to [version, root]     *)
(*   tree             root to the paths below it that are directories      *)
(*   boundaries       the directories of the main root with a go.mod       *)
(* A root in the module cache is the module and its version.               *)
(***************************************************************************)
EXTENDS Naturals, Sequences

CONSTANTS
    Dotless,    \* the first segments without a dot, that no module path but the main one's starts with
    None,       \* no module, no version
    Goroot,     \* the root of the standard library
    MainRoot,   \* the root of the main module
    VendorRoot  \* its vendor directory

IsPrefixOf(m, p) == Len(m) <= Len(p) /\ SubSeq(p, 1, Len(m)) = m
Below(m, p) == SubSeq(p, Len(m) + 1, Len(p))
IsStdlibPath(p) == p[1] \in Dotless

\* The directory of p in a module placed at a root, if it is there.
DirIn(layout, m, root, p) ==
    IF IsPrefixOf(m, p) /\ root \in DOMAIN layout.tree /\ Below(m, p) \in layout.tree[root]
    THEN {<<root, Below(m, p)>>} ELSE {}

LongestModuleMatch(modules, p) ==
    {m \in DOMAIN modules : /\ IsPrefixOf(m, p)
                            /\ \A n \in DOMAIN modules : IsPrefixOf(n, p) => Len(n) <= Len(m)}

\* A replacement of go.work wins over its use directives.
WorkspaceDirs(layout, p) ==
    LET table == IF LongestModuleMatch(layout.replaces, p) # {} THEN layout.replaces ELSE layout.uses
    IN  UNION {DirIn(layout, m, table[m], p) : m \in LongestModuleMatch(table, p)}

\* Where go.mod places each module: its version in the cache, unless a replacement of any version,
\* or of the one required, says otherwise.
Replaces(layout, m) ==
    /\ m \in DOMAIN layout.replaced
    /\ \/ layout.replaced[m].version = None
       \/ m \in DOMAIN layout.requires /\ layout.replaced[m].version = layout.requires[m]
ModDirs(layout) ==
    [m \in DOMAIN layout.requires \cup {n \in DOMAIN layout.replaced : Replaces(layout, n)} |->
        IF Replaces(layout, m) THEN layout.replaced[m].root ELSE <<m, layout.requires[m]>>]

\* The walk is over a Go map and does not look for the longest of the modules: with modules that nest,
\* any of those that have the directory.
RequiredDirs(layout, p) == UNION {DirIn(layout, m, ModDirs(layout)[m], p) : m \in DOMAIN ModDirs(layout)}

MainDirs(layout, p) == IF layout.main = None THEN {} ELSE DirIn(layout, layout.main, MainRoot, p)
VendorDirs(layout, p) == IF layout.vendor THEN DirIn(layout, <<>>, VendorRoot, p) ELSE {}
StdDirs(layout, p) == IF IsStdlibPath(p) /\ p \in layout.std THEN {<<Goroot, p>>} ELSE {}

FirstFound(places) ==
    IF \A i \in DOMAIN places : places[i] = {} THEN {}
    ELSE places[CHOOSE i \in DOMAIN places : places[i] # {} /\ \A j \in 1..(i - 1) : places[j] = {}]

\* The directories an import path can resolve to: none, one, or a choice of the map walk.
ResolveImport(layout, p) ==
    IF IsStdlibPath(p) /\ layout.stub THEN {}
    ELSE FirstFound(<<StdDirs(layout, p), WorkspaceDirs(layout, p), MainDirs(layout, p),
                      VendorDirs(layout, p), RequiredDirs(layout, p)>>)

UnderGoroot(dir) == dir[1] = Goroot

\* From inside GOROOT the vendored copy of the standard library comes first, under a path of its own.
ResolveImportFrom(layout, p, from) ==
    IF UnderGoroot(from) /\ p \in layout.stdVendor
    THEN {[dir |-> <<Goroot, <<"vendor">> \o p>>, path |-> <<"vendor">> \o p]}
    ELSE {[dir |-> d, path |-> p] : d \in ResolveImport(layout, p)}

\* The directories a pattern below the main root matches: "..." stops at a module boundary and does not
\* reach inside a vendor directory.
IsTarget(layout, base, recursive, d) ==
    /\ d \in layout.tree[MainRoot]
    /\ IF recursive THEN IsPrefixOf(base, d) ELSE d = base
    /\ \A i \in (Len(base) + 1)..Len(d) : SubSeq(d, 1, i) \notin layout.boundaries
    /\ \A i \in (Len(base) + 1)..(Len(d) - 1) : d[i] # "vendor"

InMainModule(layout, p) == layout.main # None /\ IsPrefixOf(layout.main, p)
=============================================================================
