# Verification of go-openapi/codescan

`codescan` scans Go packages for `swagger:` comments and builds a Swagger 2.0 document.
This directory holds TLA+ models of the whole way from a command line to the document on screen: how packages are
loaded, what is read in their comments, what a Go type becomes, how the builders' loops feed one another, how
definitions are pruned and renamed, and how the terminal interface follows. Properties are model-checked with TLC on
small instances; the most important ones are proved with TLAPS for every value of the constants.

## 1. The system

| Part | State it keeps | Operations | What is hard |
|---|---|---|---|
| Command line (`cmd/genspec`, `cmd/genspec-tui`, `cmd/genspec-wasi`, `cmd/internal`) | the flag set, `Reporter.seen` and `tripped` | parsing, `cliconf.Discover`, `Apply`, settling of defaults, writing, validation, exit status | Four sources of one option; an absent value is not an empty one |
| Package loader (`internal/packages`, `list`) | `loadState`: packages by path, located source, roots | `Load`, `loadDir`, `importer.Import`, `attachAnnotatedDependencies`, resolution of an import path | Which form of a package its first importer gets; cycles; the dependency whose annotations matter |
| Scanner (`internal/scanner`) | `TypeIndex`, models, extra models, origin buffers, `readBackFailed` | `detectNodes`, `walkImports`, `FindDecl`, `FileForPos`, `AddDiscoveredModel`, `BeginDefOrigins`, `FlushDefOrigins`, ... | A comment is read by three readers with different rules; a package without source is read when it is asked for |
| Comment grammar (`internal/parsers`) | none beyond a comment | `Preprocess`, `Lex` (three passes), `Parse`, `ParseAll`, the bodies of routes | Where a body ends |
| Schema builder (`internal/builders/schema`, `handlers`, `resolvers`) | `embedDepth`, `embedInherited`, the omitted fields, `nameByJSON`, the declarations found | `Build`, dispatch on types, embeds, `allOf`, keywords above declarations and fields | Recursion that threads scopes; keywords judged before their type is known |
| Parameters, responses, routes, operations builders | none across declarations | one `Build` per declaration | Simple schemas hold no references |
| Discovery loops (`internal/builders/spec/spec.go`, `subtypes.go`) | `discovered` queue, `definitions`, the scanner's maps `Models` and `ExtraModels` | `buildModels`, `joinExtraModels`, `buildParameters`, `buildResponses`, `buildDiscovered`, `addDiscriminatedSubtypes`, `guard` | Each loop fills what another drains, in the order of a map walk; a step may panic or fail |
| Shared objects (`spec/spec.go`, with the builders of parameters, routes and operations) | `#/parameters`, `#/responses`, operations and who points at them, path items | `buildParameters`, `registerSharedParameters`, `applyParameterRefs`, `buildRoutes`, `buildOperations`, `applyPathItemParameters`, `validateSharedRefs` | Keep-first conflicts; operations shared by pointer; bound parameters against those of a body; references to what is dropped |
| Name reduction (`spec/reduce.go`) | `renames`, `taken`, `containerRoots`, the definitions being moved | `computeNameReductions`, `resolveCollisionGroup`, `resolveHierarchicalGroup`, `rekeyDefinitions`, `placeHierarchical`, `rewriteAllRefs` | Names must be distinct over groups; moves happen one by one in map order |
| Pruning (`spec/prune.go`) | `reachable`, a queue | `pruneUnusedModels`, `pruneUnusedSharedObjects`, `rootRefs` | Roots must be complete; shared objects first |
| Provenance (`spec/spec.go`, `scanner`) | `defOrigins`, `deferredOrigins`, `paramOrigins` | `RecordOrigin`, `BeginDefOrigins`, `FlushDefOrigins`, `emitParameterAnchors`, `resolveSamePackageDuplicates` | Origins are recorded under keys that change, for nodes that may go |
| Live view (`cmd/genspec-tui`) | `ScanState`, `SourceWatch`, `ValidationState`, the options overlay | `Update`, `startScan`, `absorbScan`, `ensureYAML`, `absorbYAML`, `startValidation`, `absorbValidation`, `applyOptions` | Asynchronous results land in any order |
| Navigation (`cmd/genspec-tui`, `panels`) | three panes with their cursors, `refCycle`, search, follow mode, the editor | the keys and mouse of `Update`, `syncFollow`, `cycleRefs`, `refreshSpec`, `restoreCursorTo` | A cursor, a walk or a gutter that belongs to a document that was replaced |

How they interact: a command settles its options and calls `codescan.Run`, which makes a `ScanCtx` (scanner) and a
`spec.Builder`. The scanner has the packages loaded and sorts their declarations by the annotations in their comments.
The builder's loops ask the scanner for declarations and hand each to a schema, parameters or responses builder,
which parses its comments and hands back the declarations it referred to. When the loops end, routes and operations are
attached, shared objects validated, unused models pruned, names reduced, and origins flushed. The
live view runs `codescan.Run` in commands of its own goroutines and takes the results in through
one event loop, and its panes follow the document and the anchors that result.

What makes each part correct:

* command line: a scan runs with what was typed, else what the file says, else the default; no key of a file is passed
  over; the exit status tells what became of the document;
* loading: what is scanned comes with its source whoever imported it first, and no annotated dependency is silenced;
* comments: every line is found in one place or reported; the readers of a comment agree;
* schemas: references lead to what will be built, simple schemas stay legal, members are those Go promotes, and no
  keyword is lost in silence;
* discovery: every reference leads to a definition, nothing is emitted that nothing needs, each
  declaration is built once, the loops end, and the outcome is the same for every order of the maps;
* shared objects: what reaches an operation was given to it, once, and nothing that was asked for
  is lost without a diagnostic; a shared name goes to the same declaration whatever the load order;
* name reduction: final names are distinct, every reference follows its definition, and the document
  is a function of the set of keys;
* pruning: exactly the used definitions stay, families stay whole, no reference is lost;
* provenance: anchors and nodes match, and an anchor leads to the code that wrote the node;
* the live view: no change of sources or options is lost, and everything on screen belongs to the
  document on screen.

## 2. Modules

| Module | Models | Proved in | Checked by |
|---|---|---|---|
| `CommandLine` | a command from its arguments to its exit status | `LoadingProofs` | `MCLoading`, through `Genspec` |
| `ImportResolution` | where an import path leads without a toolchain | | `MCLoading` |
| `Loading` | from patterns to indexed declarations; extends `ImportResolution` | `LoadingProofs` | `MCLoading` |
| `Genspec` | composes `Loading` with `CommandLine` | `LoadingProofs` | `MCLoading` |
| `Keywords`, `AnnotationArgs` | the keyword table; the words after an annotation | | `MCCommentGrammar` |
| `CommentGrammar` | the lexer's three passes and the parser; extends both | `CommentGrammarProofs` | `MCCommentGrammar` |
| `Classification` | what the index makes of a comment in its file; extends `CommentGrammar` | | `MCCommentGrammar` |
| `RouteBody` | what a route makes of its comment; extends `Classification` | | `MCCommentGrammar` |
| `TypeResolution` | from a Go type to a node of the document | | `MCDeclarations` |
| `SchemaKeywords` | the keywords of a comment on that node; extends `TypeResolution` | | `MCDeclarations` |
| `Embedding` | members of structs and interfaces | `EmbeddingProofs` | `MCEmbedding` |
| `Discovery` | the build loops, one action per step of each | `DiscoveryProofs` | `MCDiscovery` |
| `Emission` | the abstract promise of `Discovery`: needed definitions are emitted one by one until none is missing | `DiscoveryProofs` | through `Discovery!KeepsItsPromise` |
| `Registrations` | what a program declares, and who owns the name of a shared parameter | `EmbeddingProofs` | `MCSharedObjects` |
| `SharedObjects` | the parameters and responses of operations and paths; extends `Registrations` | `EmbeddingProofs` | `MCSharedObjects` |
| `Prune` | `prune.go`, and `rewriteAllRefs` of `reduce.go` over the places that hold references | `PruneProofs` | `MCPrune` |
| `NameReduction` | `computeNameReductions`, `rekeyDefinitions`, `placeHierarchical` of `reduce.go` | `NameReductionProofs` | `MCProvenance`, through `Provenance` |
| `Provenance` | anchors through the stages of `Build`; extends `NameReduction` and runs its steps | | `MCProvenance` |
| `LiveScan` | scans, file events, conversions, validations of the live view | `LiveScanProofs` | `MCLiveScan` |
| `Navigation` | its panes, cursors and walks | `NavigationProofs` | `MCNavigation` |

The document passes from one module to the next: `Discovery` ends with a set of definitions in which
every reference has a definition, which is what `PruneProofs!IsPlain` asks of the document `Prune`
begins with; `NameReduction` shows that final names are distinct, which is what `IsPlain` asks of
`Leaf` and `Long`; what a declaration refers to, a constant of `Discovery`, is what `TypeResolution` queues.

### CommandLine, Loading, Genspec

`step` is where `main` stands. `flags` and `actual` are the `FlagSet`; `typed` is the snapshot that `cliconf.Apply`
takes before it starts, and `ApplyKey` one key of the file, taken in the order of the sorted keys. What the scan reports
comes one diagnostic at a time, in any order, so that the rules that trip a failure see every order. The flags are
representatives of each table and of each way a value is taken (boolean, text, list, choice, path).

`Loading` runs either strategy: `ListPackages` is what the go command gives back, `AttachSources` the search for
annotated dependencies; the other strategy follows imports with `stack` for the recursion of `loadDir`, and
`ImportExported`, `ImportSource`, `ImportStub` are the three ways a dependency comes. A package object is known by its path
and by what it was made from, since the two may exist side by side. `IndexImport` and `IndexRoot` are `walkImports` and the
classification, `FindDecl` and `FileForPos` the builders' lookups in any order, with the read-back of a package that came
without source. A directory holds source that reads, is broken, is excluded, or conflicts; declarations are not told apart.
In `Genspec` the command's `scan` step is such a load, and a load that is given up is a command that fails; a command of
the terminal interface ends where `LiveScan` begins.

### CommentGrammar, Classification, RouteBody

A line is what the recognisers of `lexLine` see in it (its shapes, the annotation or keyword it names, its words, its
value, its indentation), not its characters. `ClassifyLine` is the first pass, with the fence and the literal description as
its state; `AccumulateBody` folds one token with the body that belongs to it; `ClassifyProse` tells titles from descriptions;
`ParseBlock` gives each annotation its block. Bodies are sets of line places, so one sees where each line went.
`Classification` attaches the same comment to a place of a file that may hold another comment, and gives what the loose and
strict searches of the index record; `MetaFields` is what a `swagger:meta` block gives the document. `RouteBody` reads the
lines below `swagger:route` as the routes builder does: keywords, the language of `parameters:` and that of `responses:`.
Of a chunk of `parameters:`, `Properties` is what the parser makes of it and `validations` of a parameter what the dispatchers
then write: a keyword none of them knows for that site, or one after a value that cannot be read, is not among them.

### TypeResolution, SchemaKeywords, Embedding

In `TypeResolution`, `nodes` is the output under construction, a function from paths of the document to what was written
there, `call` the builder function at work, `after` what is left to do when it returns. A job is a type at a site
(definition, property, body, query or form parameter, header). Where the code dereferences a schema that is not there, the
outcome is `panic`. `SchemaKeywords` adds the keywords of the comment: a field's are read once its type is known, a
declaration's before, and judged again afterwards (`RecoerceDeclValues`); beside a `$ref` they move to an `allOf` or go. Where the
keywords stand among the annotations matters above a declaration: below a leading `swagger:enum`, `type` or `strfmt` the parser
judges them in that annotation's context, those it refuses are reported, and what stands below a second annotation is not read.
`Embedding` is the recursion of `struct.go` and `interface.go` as a stack of frames: each frame has the pass and field it
is at, the schema it writes to, and what it must restore on return.

### Discovery

`phase` is the loop `Builder.Build` is in; `todo` is what that loop has left. `models`,
`extraModels`, `discovered` and `definitions` are the Go maps and slice of the same names
(definitions holds keys only). `builds` counts builds of a node, `outcome` tells how `Build` ended.
What a declaration refers to (`Refs`), embeds (`Embeds`), extends (`Bases`), and which key it gets
(`DefKey`) are constants, so that one model stands for every input; cycles and shared keys included (the run `build` has distinct keys).

Every loop over a map is a set drained in any order. `TakeExtraModels` is the head of
`joinExtraModels` (the move of a snapshot to `Models`), its recursion is the loop back to it.
`StartPass` is one round of `buildDiscovered`: any choice of one declaration for each key that
has no definition. `Fail` is a panic or an error in the step at hand: under `guard` a panic is
located, in `joinExtraModels` it unwinds to the backstop of `codescan.Run`.

`Emission` says what the document owes its reader: the definitions emitted are all needed, at
the end none is missing, and the end comes, where needed means closed under references, embeddings, and, without
`ScanModels`, subtypes of a discriminated base.

### Registrations, SharedObjects

`Registrations` holds the program and the state that the registration of shared parameters is about, so that what is proved
of it can be stated without the rest of `SharedObjects`. `phase` is the loop of `Build` at work and `left` what it has left, taken in any order: declarations and
annotations come as packages were loaded. An operation is an object with an id; `slots` says which
object stands at a path and method, so two annotations with one id share one, as the pointers of
`Builder.operations` do (`Bound`), and an id nothing was bound to gets an object of its own (`Own`).
`BuildParameters` is one declaration with all its markers; `RegisterCandidate` one turn of the sorted
keep-first loop; `BuildRoute` and `BuildOperation` one annotation: `Target` is `setPathOperation`,
`AddParam` and `Merged` are the two ways a body meets the parameters bound before. A parameter keeps, for
the properties only, who declared it (`from`). `reports` are the diagnostics about what was dropped.

### NameReduction

A key is a sequence of segments (package path and leaf). `LiftUniqueLeaves` gives unique leaves
their bare name; `NameAtDepth` and `MintName` are the search of `resolveCollisionGroup` (shallow to
deep, then numbered); `CommitFlat` reserves the names of a group; `CommitNested` picks a path depth
under hierarchical names. `Rekey`/`SkipRekey` move one definition each, `Nest` places one in its
container and stamps the innermost one with its package (`x-go-package`); both in any order. Concatenation and mangling are operators on sequences given as
constants (`GoName`, `Suffixed`); the readability budget is the predicate `OverBudget`.

### Prune

A schema is the set of what its `$ref`s say; a document is where schemas are held (definitions,
shared parameters and responses, operations, path items) with who refers to the shared objects.
`PruneUnusedSharedObjects` comes first, `SeedRoots` marks what `rootRefs` and the caller's
specification lead to, `Mark(k)` is one round of the closure (the queue is filled out of maps, so
any member may be next), and `DropUnreachable` deletes the rest. `Skip` is the early return without the
options. `ReduceDefinitionNames` gives each definition that is left its leaf, or a long name if the leaf is
not unique, and rewrites the places that `rewriteAllRefs` visits. `ReferencesLead` speaks of
all the places a document has, so a place that a walk leaves out shows.

### Provenance

`RecordOrigin` buffers, defers or fires an anchor by where the build is. The module builds definitions, responses with their
headers, routes and operations that share parameter names, node by node; prunes any subset of what is unused; runs the
actions of `NameReduction`; and flushes the buffers under the final keys. A node's source is the declaration that wrote it
last. A property of an anonymous struct is a node of its own, and goes when `swagger:type` replaces the
struct. The flush makes one token of a pointer out of a name (`JSONPointer`), slashes included.

### LiveScan, Navigation

A document is identified by the version of the sources and of the options it was made from. A scan
copies the options when it starts and reads the sources later. The user edits, opens the options
overlay, toggles, rescans, switches the view and validates; each is bounded by a constant.
`Notice` is the watcher's goroutine with its one-slot channel, `Receive` the `waitForFS` command,
`HandleChange` and `Debounce` the two cases of `Update`. Scans, conversions and validations land in
any order. A scan reads the sources at one instant, the watcher is taken to have come up, and
the filter of `relevant` to have let the event through.

In `Navigation` everything `Model.Update` changes is one record `ui`, a handler an operator on it, an action one message.
`left` says whether the left pane shows the tree or the viewer: `ShowSource` brings a file up only if another was open.
Several anchors may stand on one source line, in the order they were recorded (`sourceindex.go:47` sorts by line, and keeps that
order for files of few anchors); overlays, tree expansion, viewport offsets, spans and marks are left out, and file
contents change only as `Rows` says.

## 3. What is checked

| Run | Instance | Shows |
|---|---|---|
| `loading` | a main module of three packages, its dependencies and the standard library, over strategies, export data, layouts (workspace, vendor, replacements, nested modules), cycles, sources that cannot be read; the same loaded by command lines with flags, configuration files near and far, and verdicts | what is scanned comes with its source (`ScannedIsRead`), annotated dependencies are indexed (`AnnotatedIsRead`), a lookup finds the declaration both times (`DeclarationsAreFound`); options are those asked for (`OptionsAreAsked`), keys are answered (`KeysAreAnswered`), each status has its cause and each cause its status (`StatusTells`) |
| `grammar` | every comment of up to two lines out of some sixty, of up to four of those that open, nest or end bodies, under every route, parameter, response and meta line, in every place of a file | no line lost or taken twice (`LinesAreAnswered`), bodies end (`BodiesEndAtSiblings`), every marker puts its declaration in the index or is reported (`MarkersAreAnswered`), index and parser agree (`RecordedIsRead`), routes keep what was written or report it, the kinds of lines named below apart (`RouteIsAnswered`), and the responses they list (`ResponsesAreAnswered`) |
| `declarations` | some hundred types at every site, every annotation above declarations and fields, pairs of keywords, both alias modes and the options about siblings of a `$ref` | references are queued and simple targets typed (`TargetsAreWhole`), a named type and an alias under one annotation are alike (`NamedLikeAlias`), keywords are legal, and written or reported (`WordsAreAnswered`), and say the same above a declaration and above a field (`KeywordsAgree`), but for those `Silenced` names |
| `embedding` | structs and interfaces of up to four types, plain, composed, renamed, ignored, required embeds, omissions, types missing or unread | every member written in a part of its definition, none invented (`MembersAreWritten`), properties and required as Go's promotion leaves them (`PromotedAndRequired`), no scope left behind (`ScopesAreRestored`) |
| `build` | fourteen declarations that refer to, embed and extend one another in cycles, six parameter sets, three responses; with and without `ScanModels`; nodes that panic or fail | no dangling reference (`RefKeysAreDefined`), nothing built twice (`BuiltAtMostOnce`), an outcome that no order changes (`OutcomeIsDetermined`), and `Discovery` implements `Emission`, its end included (`KeepsItsPromise`) |
| `shared` | programs in which up to three declarations register, bind and inline `x` and `y`, and up to three annotations meet on two paths and two ids, with references written in bodies, in markers and by InputSpec | who owns a shared name (`FirstIsKept`); on an operation nothing foreign, nothing twice, bodies win, fields arrive (`OperationsAreExact`); no dangling reference, every loss reported (`NothingIsLost`) |
| `prune` | every graph of references over four definitions, each with at most one root; every user of the shared objects; families; pruning on, off and without effect | every reference of every kind leads to something (`NothingDangles`); exactly what is used stays, families whole, names as short as may be (`OnlyTheNeeded`) |
| `provenance` | programs that share names between packages and kinds, pruned and not, with flat and nested names, with and without a replaced anonymous struct; with them, types without fields of which any may be pruned: eight keys under flat names, with and without a bare key, and nine under nested names | every anchor is of a node, two named kinds apart, and every node has one (`AnchorsMatchNodes`), of the code that wrote it (`JumpsAreTrue`); names are distinct (`NamesAreDistinct`), references follow (`RefsFollow`), and the document is independent of the map order but for one stamp, with containers that shadow no model (`ResultIsPure`) |
| `live` | one edit of up to two events, one toggle of the options, two key presses | no change is lost (`NothingIsMissed`), every change is scanned (`ChangesAreScanned`), no stale YAML (`YamlIsCurrent`), the YAML arrives (`YamlArrives`) |
| `navigation` | sessions over two programs, six sets of keys, two scans | lists, marks and walks are of the document on screen (`PanesAreCurrent`), followers mirror their driver (`FollowersMirror`), the cursor keeps its node (`CursorKeepsNode`) |

Two runs refute what a comment of the repository says, one property each:

| Run | What is said | What happens instead |
|---|---|---|
| `panics` (`NeverPanics`) | "type wins, format is advisory" (`type_override.go:206-212`) | above a named integer in a query parameter, `swagger:type` with `swagger:strfmt` writes the format through a schema there is not, and the build panics |
| `nested` (`AnchorsResolve`) | "every emitted pointer resolves against the final document" (`spec.go:369-370`) | the path of a definition placed in containers is escaped as one token, so its anchors lead nowhere |

Bounds. Discovery's instance has every shape its loops must cope with: two loops that meet on one
declaration, a cycle through references and embeddings, a subtype found before and after its
base, a duplicate response, a chain that only later passes reach. The name universes hold each kind
of collision: the same leaf at several depths, two packages that mangle alike, a bare key, a type named like a
minted name (`MaxSuffix` bounds the numbering at 4; more keys than that never collide). The programs of
`shared` have every way two sources of one parameter can meet; three registrations are enough for a later one to come
first in the walk, and three annotations for two to share an id while a third takes over their slot. Four definitions
give pruning every ring, chain and loop with a root on it and off it, and one pair of equal leaves. A body of the grammar is
decided by its head, what it holds and what ends it, which four lines show. Embedding's programs reach three levels, where an
omission or an inherited `required` can pass through one level to the next. `MaxObserved` = 1 diagnostic of each severity
lets every order of two severities trip. In the live view
`MaxEdits` = 1 version after the first, `MaxBurst` = 2 events, `MaxToggles` = 1 and `MaxPresses` = 2
let two scans, two debounce windows and two conversions overlap, so every pair of results lands in either order;
`MaxScans` = 2 does the same for `Navigation`, and each session has the keys of one job.

Fairness. `Build` is sequential code, so `Discovery` is weakly fair in its step; so is the recursion of `Embedding`. In
`LiveScan` the
goroutines, timers and commands each get their turn (weak fairness of the watcher, the listen
loop, every timer and the landing of results); the user owes nothing except to dismiss the
overlay at some time, since it captures every key. All three are finite, so no result starves. The other modules state safety
only.

What the properties step around, because the code has it so and no document says otherwise, or because the
instance leaves it out:

* under nested names a model placed where another group's container stands replaces it, or joins it, by
  the order of the walk (`placeNested`, `reduce.go:483`); the keys of `provenance` have no such pair. A container that several
  packages share is stamped with the one whose definition was placed last (`stampGoPackage`, `reduce.go:499`): `ResultIsPure`
  leaves open which;
* `provenance`: `AnchorsMatchNodes` excepts, by name, the two kinds of anchors that dangle: those of nested definitions
  (`Escaped`, the run `nested`) and those inside an anonymous struct that `swagger:type` replaces (`Replaced`); no unannotated
  type takes the key of an override;
* `embedding`: `MembersAreWritten` excepts, by name, the members a composing embed loses (`LeftBehind`, `struct.go:59`,
  `interface.go:44`);
* `RouteIsAnswered` names the lines of a parameter that are passed over in silence (`IsPassedOver`): all of a chunk with neither
  `name` nor `in`; keywords of another kind of site, those of `swagger:meta` among them; in a body a `format` without a
  type, `additionalProperties`, `discriminator`, and what stands beside its `$ref`; elsewhere the values after one that cannot be read;
* `WordsAreAnswered` and `KeywordsAgree` name the keywords that are lost (`Silenced`): above a declaration those about a property or
  about further properties (`required`, `discriminator`, `additionalProperties`, ...) and, with `swagger:enum`, the members of
  `enum:`; anywhere, what stands below a second annotation. Keywords above a declaration
  that becomes a `$ref` count as written, though they stand beside the reference;
* of two declarations bound to one operation the later takes over a parameter of the same name even at
  another location (`buildFromStruct`, `parameters.go:459`), so `FieldsArrive` excepts them;
* two declarations inlined on one path, or InputSpec's path and a declaration, may list a parameter twice: only references
  are tested there, so `OperationsAreExact` speaks of operations;
* a route's own body parameter stands next to one a declaration bound under another name, since `AddParam` compares name
  and location; `InlineWins` asks for one body of a `swagger:operation` only;
* a panic in `joinExtraModels` is not under `guard` (`spec.go:1106`), and ends as the backstop's;
* `declarations`: simple sites take no declared `[]Pet`, no `type []Gone` or `type []inline` and no map; a named type and an
  alias are compared under annotations that can be honoured, and away from properties not over structs; header fields carry
  no annotation on arrays (`responses.go:699`); no quoted defaults, no keyword twice in a comment; keywords on items only on
  `[]string`, `[]byte` and `string`;
* `grammar`: `MarkersAreAnswered` asks of comments that are `Legible`: markers apart by spaces, one of each kind, one visible
  marker in a block comment, no malformed name;
* `navigation`: `FollowersMirror` leaves out the validation tab, and a pane that already hid the file that is followed goes on
  hiding it; `CursorKeepsNode` speaks of a render that
  replaces a render.

### Disagreements seen without a run

Met while modelling; each is what the code does, beside what a document or comment says, or a loss nobody reports.
The properties above are stated so that they do not depend on them.

* Discovery: an embedded type gets no definition of its own without `ScanModels` (nothing drains `ExtraModels`), against the
  schema README; of two declarations with one key the second is never built, and its references lead to the first.
* Shared objects: all `$ref`s look alike to the merge, so one in a YAML body hides those bound to the operation; a parameter
  inlined on a path item keeps the long key of its model after renaming; a route's short model name is no key, so pruning drops the model.
* Live view: a validation that lands after a rescan is kept, though `validate.go:28` retires a verdict with its document; of
  two overlapping scans the older may land last and stays (README.md:123).
* Name reduction: the `x-go-package` of a container two packages share is that of the definition placed last in map order
  (`reduce.go:499`), though `reduce.go:37` calls the pass a pure function of the keys.
* Provenance: besides `nested`, the anchors inside an anonymous struct that `swagger:type` replaces (`fields.go:98`) dangle too,
  against `spec.go:369`.
* Embedding: a plain embed that itself composes, after an `allOf` embed and with no own fields, is lost (`struct.go:59`); a
  plain embed before an `allOf` embed appends the schema to its own `allOf`; an interface whose embeds are all ignored or
  special loses its own methods (`interface.go:44`); the `required` entry of a shadowed promoted field stays
  (`fields.go:82`, `:117`); a deeper later embed overwrites a shallower field of the same Go name (`fields.go:206`);
  `swagger:omit` naming an embedded field says nothing (`omit.go:157`).
* Types and keywords: besides `panics`, `swagger:type object` on a named struct and a non-empty anonymous interface panic in a
  query parameter; an alias of a slice of structs in a query leaves `items.$ref`; `swagger:type inline`, `unknown` or `file` on a
  struct leaves an empty definition (`struct.go:25`); a body parameter's strfmt sets the type on the parameter; the error of an
  embedded field is swallowed; enums of parameters and headers keep members that cannot be coerced; `discriminator` on a
  `$ref` field is dropped; `readOnly` on a parameter is ignored, against the docs; a header's uncoercible default is lost silently; `enum:` above a
  `swagger:enum` type is written over by the constants without a diagnostic (`walker_classifiers.go:215`), though
  `swagger-enum.md:78` says it overrides them.
* Routes (`routes/walker.go`): `response:[]Named` and an untagged `[]notFound` lose the `[]`; models of `body:` are never
  checked; of duplicate codes the last wins, of `default:` the first; after the first value of a
  parameter that cannot be read the others go without a diagnostic (`handlers.go:260`), though the author is to see each loss
  (`routes/walker.go:254`).
* Classification: a mention of `swagger:meta` in the middle of a sentence counts (`index.go:236`) against
  `annotation_line.go:60`; another annotation before it loses the block; of two routes in one group the last is kept;
  `AfterDeclComments` hides a second struct kind; a bare `swagger:parameters` is silently ignored; include tags make exclude
  tags ignored.
* Grammar: a fence that is never closed (`lexer.go:959`); `+marker` lines are folded (`lexer.go:739`) against the README; a
  second enum body overwrites the first (`parser.go:561`), as the last `security` does (`parser.go:844`).
* Loading: a target that is imported first as a dependency loses function-local types (`loader.go:342`); packages behind one
  that came as export data never reach `AllPackages`; `exportOnly` stays set after the compiled fallback (`scan_context.go:148`).
* Command line: a configuration file may set `-input` (`configfile.go:34`), which the README says is for the command line only; the usage text
  shows `scan: workdir:`, which `sections.go` refuses.
* Navigation: the cursor is lost on the first switch to YAML (`crossref.go:133`) against README.md:146; unsaved edits are lost
  (`crossref.go:49`); a file that is open behind the tree is not brought up by following (`crossref.go:405`), though the
  source pane "mirrors" (TUI README.md:180); the wheel on the validation tab moves the hidden selection (`mouse.go:83`); `spec.matchIdx` is not reset
  (`panels/spec.go:253`).

## 4. What is proved

Every theorem holds for every value of the constants that satisfies the module's `ASSUME`s, so for every document,
comment or program, not for an instance.

### `LoadingProofs`: the load and its commands

The constants are a tree of source (`IsScan`: its main module has a name, a root, and `None` is no directory), command
lines over configuration files, and any order of keys.

* `ScannedAlwaysRead`, `CommandsReadTheScanned` (`ScannedIsRead`): what is scanned is in the index with its source. A
  package under scan may be imported long before its turn comes, so the invariant `IInv` says of every object of the load,
  every call of `loadDir` under way and every root that a path under scan is never one made from types alone
  (`PackagesOK`, `CallsOK`, `RootsOK`); whichever object of its path the index met first then has its source (`IndexOK`).
* `LookupsFind`, `CommandsFindDeclarations` (`DeclarationsAreFound`): a lookup finds the declarations of any package of the
  index whose files exist, the second time as the first. A package without source is known as one from the end of the load on
  (`NotedOK`), one with source has a directory (part of `PackageOK`), and what was given up has no files (`GivenUpOK`).
  `NotedOK` fails between listing and attaching, and says so. That a directory the go command lists exists rests on
  the first place of an import path being found among the directories (`ListedIsDirectory`).
* The theorems named `Commands...` are about `SpecAll`. Until its options are settled a command has loaded nothing
  (`EarlyOK`), so the options may still change what is scanned; after that it only changes between loads.
* `KeysAnswered` (`KeysAreAnswered`): no key of a configuration file is passed over. `KeysOK` says at each round of `Apply`
  that the keys behind it are answered. A later key could overwrite the flag of an earlier one; it cannot, since
  a flag has one section, so two placed keys of one name are one key (`KeysArePairs`).
* `StatusAlwaysTells` (`StatusTells`): `StatusOK` says that from the start of the scan on the threshold has been tripped exactly
  if something that counts was seen, with the flags checked and not changed since. `FailingCounts` ties the rank
  comparison of `Reporter` to the set that `-fail-on` names.

### `DiscoveryProofs`: the build loops

* `TypeCorrect` (`TypeOK`).
* `NoDanglingKey` (`RefKeysAreDefined`): at the end nothing is known of references found long before, so `Cover`
  says that the key of all that a built node refers to is defined, queued in `discovered`, or in the hands of the pass at work.
* `BuiltOnce` (`BuiltAtMostOnce`), from `Fresh`: what a loop still holds was not built, whatever loop came before.
* `OutcomeDetermined` (`OutcomeIsDetermined`) and `KeepsItsPromiseSafely`, both for graphs in which no two declarations
  share a key (`KeysAreUnique`). `Justified` says that what is built, queued or held is needed; `Progress` that what is
  needed and behind a loop is built; together with `Cover`, a completed build has emitted the least closed set. The second
  theorem maps every step to a step of `Emission` or a stutter, all of `Emission` but its fairness. Without unique keys
  both are false: a reference to a second declaration of a key leads to the first, whose references are emitted instead. The
  keys of the run `build` are distinct, and `NoDanglingKey` and `BuiltOnce` hold of shared keys too, which no run has.

### `PruneProofs`, `NameReductionProofs`

* All of `PruneProofs` rests on `PruneInv`: nothing is rewritten before the last step (`Unwritten`); while marking, the roots
  are marked, what a marked definition leads to is marked or still queued, and every closed set that holds the
  roots holds what is marked (`Marking`); before renaming the same holds of what is left (`Settled`). From it `OnlyUsed`
  (no smaller set than what is left is closed), `WholeFamilies`, `NeededRenames`, and together `LeavesTheNeeded`
  (`OnlyTheNeeded`); `TypeCorrect`.
* `RefsLead`, `NeverDangles` (`NothingDangles`): for documents whose references are keys of definitions, all held where the
  walks look, with names that do not collide (`IsPlain`). The conditions are needed: the short model name of a route is no
  key, so its model is pruned, and a parameter on a path item keeps the long key of a model that is renamed.
* `DistinctNames` (`NamesAreDistinct`): provided, under nested names, that no bare key of the caller's specification collides
  with a scanned one. `NamingInv` says of the groups resolved so far that their names are reserved in `taken` or
  `containerRoots`, so that a group resolved later cannot choose one.
* `FlatRefsFollow` (`RefsFollow`), `FlatResultIsPure` (`ResultIsPure`): with flat names and no such bare key. `FlatInv` says that a
  definition stands at its key until it is moved and at its name after, and that no name is the key of one that waits, so
  no move is skipped. `rekeyDefinitions` skips an entry whose new name is still a key: with a bare key `XFoo` of
  the caller next to a scanned `q/XFoo`, and a group for which `XFoo` is minted, the result depends on the walk.

### `CommentGrammarProofs`, `EmbeddingProofs`

The theorems about the grammar are for comments of any length, of any lines (`IsLine`), in every way they are parsed.

* `BodiesEnd` (`BodiesEndAtSiblings`): `BodyInv` says of every folded token that no line that must end its body lies in it.
* `LinesAnswered` (`LinesAreAnswered`): each pass has an invariant, and each rests on the one before. `LexInv` ties the two
  flags of the lexer to the parity of the fences above a line and to the description that is open over it, and says that no
  line is under both; from it a line is raw exactly when it is below one of them. `FoldInv` says that
  the token to be folded next is never raw and has an even number of fences above it, so a fence there is one that opens
  (`NextIsOpen`: an extensions body may run over fences, but it ends at an annotation or a keyword, which lie outside them); that
  the folded tokens stand one after the other and reach over every line behind the cursor; and that each line inside one is in
  its body or carries nothing (`Kept`). `BlockInv` says that the blocks share the folded tokens out without
  gap or overlap, and that each token of a block has a place in it or a diagnostic, or is left out as classifiers do
  (`Sorted`). A line then has one token, the token one block, and its kind one place (`OnePlace`, `NoneLost`).
* `ScopesRestored` (`ScopesAreRestored`): `Scoped` says that `depth`, `omitted` and `inherited` are what the frames of the stack,
  each with what it must restore, add up to; so an empty stack leaves them as they were.
* `KeepFirst` (`FirstIsKept`), of `SharedObjects`; the same module extends `Registrations` and instantiates `SharedObjects`
  on its state, with `reports` renamed, since `Embedding` has a variable of that name:
  `RegistrationInv` says that the candidates are exactly the registrations of the declarations built so far, and that an
  owner that is not InputSpec is the first of all candidates of its name; the step needs the sort, which makes what is
  taken no later than what is left.

### `LiveScanProofs`: the live view

All from `LiveInv` = `Typed`, `Counts`, `Seen`, `Converted`, for any number of edits, events, toggles and key presses.

* `YamlStaysCurrent` (`YamlIsCurrent`): a conversion under way that carries the current generation is one of the document
  on screen (`Converted`); older ones are discarded by their number.
* `NothingMissed` (`NothingIsMissed`): the last scan that started, and the screen once it has landed, know the sources
  and the options as they are, or a change is on its way: in the watcher, its channel, a debounce window or `rescanDue`.
* `TypeCorrect` (`TypeOK`): with it, windows and scans stay within the bounds over which `Fairness` quantifies, so that
  the fairness assumed of a run leaves out no timer.

### `NavigationProofs`: panes, cursors, walks

For any files, documents, queries and number of scans. A document is what the indexes make of a render (`IsDocument`): a node
is declared on one line, since `indexAccum.add` keeps the first token that reports it, and never at the root, which it skips.
A handler is an operator on the record, so its lemma is about any record and not about the state; only the last lemmas are
about steps. All three theorems rest on `NavInv`, in two halves.

* `PanesStayCurrent` (`PanesAreCurrent`): `Current` holds between any two calls of a handler: selections are of what the lists
  hold, the walk of F3 is over the render shown, the gutters mark it. Between two calls in the middle of `absorbScan` it
  fails, since the document is replaced before the render: there only `Typed` holds, and `RenderKeeps` says that
  `refreshSpec` makes `Current` of it. That no line of a walk or a match is missed rests on `Nth` being one of the lines
  it counts, by induction over their number (`NthIsThere`).
* `FollowersAlwaysMirror` (`FollowersMirror`), in two parts. The followers hold: `Mirrors` is true after every message.
  `SyncKeeps` shows that `syncFollow` establishes it whatever came before; what is left is that no handler changes what is shown
  after it, or without it: the conversion that `ensureYAML` asks for (`EnsureKeeps`), a conversion that is dropped and a verdict
  (`MirrorsIsLeft`). What is followed stays in sight, step by step: a sync either brings another file up, in view, or leaves
  the pane as it was (`HidesNothing`), and a handler that puts the tree or the editor in front stops following first
  (`BecomesUnfollowed`). That it is in sight to begin with is not so.
* `CursorStaysOnNode` (`CursorKeepsNode`, an action property): `KeepsNode` is carried through the handlers beside the
  invariant, from the render before the message to the one after it.

### Only model-checked

* Liveness (`ChangesAreScanned`, `YamlArrives`, the end of `Emission`), and `ENABLED`: out of the prover's reach.
* What is computed by recursion or folds over data, which needs induction: the operations of `SharedObjects`
  (`OperationsAreExact`, `NothingIsLost`), the filtered and flattened lists of `OptionsAreAsked`, the reachability in
  `AnnotatedIsRead`, `Provenance`, `RouteBody`.
* Nested names beyond their distinctness. What `Discovery` emits when keys are shared is stated nowhere: it depends on the order.
* `Embedding`'s members, which compare with a recursive definition of Go's promotion; `TypeResolution`, `SchemaKeywords` and
  `Classification`, whose properties except the inputs listed in section 3 and hold of tables rather than by an argument.

## 5. What is left out

* The parser's worker pool and build constraints, and the reading of export data: `Loading` takes the outcome of reading a
  directory as given.
* Wording: titles, descriptions, messages, colours; the parsers of YAML bodies; security requirements; enum values
  collected from Go constants; the scores by which name reduction prefers one readable name to another.
* In the terminal interface, overlays other than the options and the tree's notices (`scanflow.go:294`), profiles and run
  statistics.

Next: the anchors of `Provenance` up to the flushes; members of `Embedding`.
