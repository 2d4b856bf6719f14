------------------------------ MODULE Navigation ------------------------------
(***************************************************************************)
(* Cross-referencing in genspec-tui: three panes (the source, the rendered  *)
(* specification, the diagnostics), a cursor in each, and the links between *)
(* them - follow mode, the find-references walk, jumps, search - while      *)
(* scans, YAML conversions and validations replace what the panes show.     *)
(*                                                                          *)
(* Everything Model.Update changes is the record ui.  A handler is an       *)
(* operator from one ui to the next; an action is one message: a key, a     *)
(* mouse event or the result of a command.  Lines and selections count from *)
(* one, and a miss is line 0 or the empty pointer.                          *)
(***************************************************************************)
EXTENDS Naturals, Sequences, FiniteSets, FiniteSetsExt

CONSTANTS
    Rows,             \* the lines of each file, 0 of one that cannot be read
    Documents,        \* what the scans of a session may produce
    Sessions,         \* the sets of keys one user may restrict himself to
    Queries,          \* what is searched for
    MaxScans          \* scans of a session

Files == DOMAIN Rows
NoFile == "none"
Nowhere == <<>>
External == <<"elsewhere">>

\* A pointer is a sequence of segments.  A rendered line declares nodes and
\* may hold a $ref; an anchor ties a node to a line of a file.
NoDocument == [json |-> <<>>, yaml |-> <<>>, anchors |-> <<>>,
               diags |-> <<>>, findings |-> <<>>]

Pointers == Seq(STRING)
RenderedLines == [nodes : Seq(Pointers \ {Nowhere}), ref : Pointers]

\* A node is declared on one line, that of the first token to report it.
IsRender(body) ==
    /\ body \in Seq(RenderedLines)
    /\ \A i, j \in DOMAIN body :
         \A k \in DOMAIN body[i].nodes, l \in DOMAIN body[j].nodes :
           body[i].nodes[k] = body[j].nodes[l] => i = j

\* An anchor is of a line of a file; a diagnostic may have no position.
AreAnchors(anchors) == anchors \in Seq([node : Pointers, file : Files, line : Nat])

IsDocument(d) ==
    /\ IsRender(d.json) /\ IsRender(d.yaml) /\ AreAnchors(d.anchors)
    /\ d.diags \in Seq([file : Files \union {NoFile}, line : Nat])
    /\ d.findings \in Seq(Pointers)

ASSUME NavigationAssumption ==
    /\ NoFile \notin Files
    /\ Rows \in [Files -> Nat]
    /\ MaxScans \in Nat
    /\ \A d \in Documents : IsDocument(d)

VARIABLES
    keys,             \* the keys of this session
    ui                \* the model

vars == <<keys, ui>>

-----------------------------------------------------------------------------
(* The indexes.                                                             *)

Clamp(n, last) == IF n < 1 THEN 1 ELSE IF n > last THEN last ELSE n

\* Both indexes trim a pointer one segment at a time until it is known.
Nearest(pointer, known) ==
    LET path == {k \in 1..Len(pointer) : SubSeq(pointer, 1, k) \in known}
    IN IF path = {} THEN Nowhere ELSE SubSeq(pointer, 1, Max(path))

Declares(line, node) == \E k \in DOMAIN line.nodes : line.nodes[k] = node

Rendered(body) ==
    UNION {{body[i].nodes[k] : k \in DOMAIN body[i].nodes} : i \in DOMAIN body}

LineForPointer(body, node) ==
    IF node \in Rendered(body)
    THEN CHOOSE i \in DOMAIN body : Declares(body[i], node)
    ELSE 0

\* A line that declares several nodes is the last one's.
PointerAt(body, line) ==
    LET above == {i \in DOMAIN body : i <= line /\ body[i].nodes # <<>>}
    IN IF above = {} THEN Nowhere
       ELSE LET nodes == body[Max(above)].nodes IN nodes[Len(nodes)]

RefsToPointer(body, node) ==
    {i \in DOMAIN body : body[i].ref = node /\ node # External}

RefsNear(body, node) ==
    Nearest(node, {body[i].ref : i \in DOMAIN body} \ {Nowhere, External})

LocalRefLines(body) ==
    {i \in DOMAIN body : body[i].ref \notin {Nowhere, External}}

AnchoredPointers(anchors) == {anchors[i].node : i \in DOMAIN anchors}

\* The later record of a node wins.
PositionFor(anchors, node) ==
    LET known == Nearest(node, AnchoredPointers(anchors))
        records == {i \in DOMAIN anchors : anchors[i].node = known}
    IN IF records = {} THEN [file |-> NoFile, line |-> 0]
       ELSE [file |-> anchors[Max(records)].file,
             line |-> anchors[Max(records)].line]

AnchorLines(anchors, file) ==
    {anchors[i].line : i \in {i \in DOMAIN anchors : anchors[i].file = file}}

\* The records of a line stay in the order they were made: sort.Slice is stable
\* while a file has no more than twelve.
AnchorsOn(anchors, file, line) ==
    {i \in DOMAIN anchors : anchors[i].file = file /\ anchors[i].line = line}

\* The nearest anchor at or above a line, the last one there.
EnclosingAnchor(anchors, file, line) ==
    LET above == {n \in AnchorLines(anchors, file) : n <= line}
    IN IF above = {} THEN Nowhere
       ELSE anchors[Max(AnchorsOn(anchors, file, Max(above)))].node

\* The topmost anchor, the first one there.
FirstAnchor(anchors, file) ==
    LET lines == AnchorLines(anchors, file)
    IN IF lines = {} THEN Nowhere
       ELSE anchors[Min(AnchorsOn(anchors, file, Min(lines)))].node

-----------------------------------------------------------------------------
(* The spec pane.                                                           *)

NoCycle == [anchor |-> Nowhere, sites |-> {}, at |-> 0]
NoVerdict == [findings |-> <<>>, ran |-> FALSE, cursor |-> 1]

\* Without a body the pane shows a placeholder of one line.
Lines(body) == IF body = <<>> THEN 1 ELSE Len(body)

JumpTo(u, line) == [u EXCEPT !.cursor = Clamp(line, Lines(u.body))]

Body(u) ==
    IF u.format = "JSON" THEN u.doc.json
    ELSE IF u.yaml = "ready" THEN u.doc.yaml ELSE <<>>

RebuildGutters(u) ==
    [u EXCEPT !.dots = {LineForPointer(u.body, n) : n \in AnchoredPointers(u.anchors)} \ {0},
              !.arrows = LocalRefLines(u.body),
              !.marks = AnchorLines(u.anchors, u.file)]

\* Mutant: the cursor stays on its line.
RestoreNothing(u, node) == u

\* The cursor stays on its node, or on the nearest ancestor that is left.
RestoreCursor(u, node) ==
    LET kept == Nearest(node, Rendered(u.body))
    IN IF kept = Nowhere THEN u ELSE JumpTo(u, LineForPointer(u.body, kept))

ShowBody(u, body) ==
    [u EXCEPT !.body = body, !.refs = NoCycle, !.cursor = Clamp(@, Lines(body))]

RefreshSpec(u) ==
    RebuildGutters(RestoreCursor(ShowBody(u, Body(u)), PointerAt(u.body, u.cursor)))

Matches(u) ==
    {i \in DOMAIN u.body :
       \E k \in DOMAIN u.body[i].nodes :
          LET node == u.body[i].nodes[k] IN node[Len(node)] = u.query}

\* The n-th of a set of lines.
Nth(lines, n) == CHOOSE i \in lines : Cardinality({j \in lines : j <= i}) = n

Search(u, query) ==
    LET asked == [u EXCEPT !.query = query, !.match = 1]
    IN IF Matches(asked) = {} THEN asked ELSE JumpTo(asked, Nth(Matches(asked), 1))

Wrap(at, dir, count) == ((at - 1 + (IF dir = "next" THEN 1 ELSE count - 1)) % count) + 1

\* The index of the match is not reset by a new render, only wrapped here.
StepMatch(u, dir) ==
    LET at == Wrap(u.match, dir, Cardinality(Matches(u)))
    IN JumpTo([u EXCEPT !.match = at], Nth(Matches(u), at))

ClearSearch(u) == [u EXCEPT !.query = "none", !.match = 1]

-----------------------------------------------------------------------------
(* Find references, go to definition.                                       *)

ParkedOn(refs, line) ==
    /\ refs.anchor # Nowhere
    /\ refs.at <= Cardinality(refs.sites)
    /\ Nth(refs.sites, refs.at) = line

AtSite(u, refs) == JumpTo([u EXCEPT !.refs = refs], Nth(refs.sites, refs.at))

CycleRefs(u, dir) ==
    LET near == RefsNear(u.body, PointerAt(u.body, u.cursor))
        sites == RefsToPointer(u.body, near)
    IN IF ParkedOn(u.refs, u.cursor)
       THEN AtSite(u, [u.refs EXCEPT !.at = Wrap(@, dir, Cardinality(u.refs.sites))])
       ELSE IF near = Nowhere THEN [u EXCEPT !.refs = NoCycle]
       ELSE AtSite(u, [anchor |-> near, sites |-> sites,
                       at |-> IF dir = "next" THEN 1 ELSE Cardinality(sites)])

GotoDefinition(u) ==
    LET line == IF u.body = <<>> THEN 0
                ELSE LineForPointer(u.body, u.body[u.cursor].ref)
    IN IF line = 0 THEN u ELSE JumpTo([u EXCEPT !.refs = NoCycle], line)

-----------------------------------------------------------------------------
(* The source pane.                                                         *)

\* SetFile: read-only, clean, at the top.  An unreadable file shows the
\* error on one line.
LoadFileQuietly(u, file) ==
    [u EXCEPT !.left = "view", !.file = file,
              !.rows = IF Rows[file] = 0 THEN 1 ELSE Rows[file],
              !.editing = FALSE, !.dirty = FALSE, !.nav = 1, !.row = 1,
              !.marks = IF Rows[file] = 0 THEN {} ELSE AnchorLines(u.anchors, file)]

GotoLine(u, line) == [u EXCEPT !.nav = Clamp(line, u.rows)]

CurrentLine(u) == IF u.editing THEN u.row ELSE u.nav

\* Disk is the source of truth; the line is kept by number.
ReloadFile(u) == GotoLine(LoadFileQuietly(u, u.file), CurrentLine(u))

RequestReload(u) ==
    IF u.file = NoFile THEN u
    ELSE IF u.dirty THEN [u EXCEPT !.overlay = "confirm"]
    ELSE ReloadFile(u)

OpenFile(u, file) == [LoadFileQuietly(u, file) EXCEPT !.focused = "tree"]

\* A file that is already open is not read again by the follower.
ShowSource(u, pos) ==
    GotoLine(IF u.file = pos.file THEN u ELSE LoadFileQuietly(u, pos.file), pos.line)

-----------------------------------------------------------------------------
(* Links.                                                                   *)

\* resolveSourceToSpec.
SpecLineFor(u, file, line) ==
    LineForPointer(u.body, EnclosingAnchor(u.anchors, file, line))

DriveTo(u, line) == IF line = 0 THEN u ELSE JumpTo(u, line)

\* resolveSpecToSource.
SpecSource(u) == PositionFor(u.anchors, PointerAt(u.body, u.cursor))

DriveSpecToSource(u) ==
    IF SpecSource(u).file = NoFile THEN u ELSE ShowSource(u, SpecSource(u))

LinkSourceToSpec(u) == DriveTo(u, SpecLineFor(u, u.file, CurrentLine(u)))

LocateInSpec(u, file) ==
    LET line == LineForPointer(u.body, FirstAnchor(u.anchors, file))
    IN IF line = 0 THEN u ELSE [JumpTo(u, line) EXCEPT !.focused = "spec"]

SelectedDiag(u) ==
    IF u.doc.diags = <<>> THEN [file |-> NoFile, line |-> 0] ELSE u.doc.diags[u.diag]

DriveDiagFollowers(u) ==
    LET d == SelectedDiag(u)
        shown == ShowSource(u, d)
    IN IF d.file = NoFile THEN u ELSE DriveTo(shown, SpecLineFor(shown, d.file, d.line))

\* The file is read again, even when it is the one that is open.
JumpDiagToSource(u) ==
    LET d == SelectedDiag(u)
    IN IF d.file = NoFile THEN u
       ELSE [GotoLine(LoadFileQuietly(u, d.file), d.line) EXCEPT !.focused = "tree"]

\* A finding about the whole document is at its top.
ValidationTarget(u) ==
    IF u.verdict.findings = <<>> \/ u.body = <<>> THEN 0
    ELSE LET finding == u.verdict.findings[u.verdict.cursor]
         IN IF finding = Nowhere THEN 1
            ELSE LineForPointer(u.body, Nearest(finding, Rendered(u.body)))

JumpValidationToSpec(u) ==
    IF ValidationTarget(u) = 0 THEN u
    ELSE [JumpTo(u, ValidationTarget(u)) EXCEPT !.focused = "spec"]

-----------------------------------------------------------------------------
(* Follow mode.                                                             *)

ExitFollow(u) == [u EXCEPT !.follow = "off"]

IsDriven(u) ==
    CASE u.follow = "spec" -> u.focused = "spec"
      [] u.follow = "source" -> u.focused = "tree" /\ u.left = "view" /\ ~u.editing
      [] u.follow = "diag" -> u.focused = "diag"
      [] u.follow = "validation" -> u.focused = "diag" /\ u.tab = "validation"
      [] u.follow = "off" -> TRUE

SyncFollowIfActive(u) ==
    IF ~IsDriven(u) THEN ExitFollow(u)
    ELSE CASE u.follow = "spec" -> DriveSpecToSource(u)
           [] u.follow = "source" -> LinkSourceToSpec(u)
           [] u.follow = "diag" -> DriveDiagFollowers(u)
           [] u.follow = "validation" -> DriveTo(u, ValidationTarget(u))
           [] u.follow = "off" -> u

ToggleFollow(u, mode) ==
    IF u.follow = mode THEN ExitFollow(u)
    ELSE SyncFollowIfActive([u EXCEPT !.refs = NoCycle, !.follow = mode])

-----------------------------------------------------------------------------
(* The commands and their results.                                          *)

StartScan(u) ==
    IF u.started = MaxScans THEN u
    ELSE [u EXCEPT !.started = @ + 1, !.scanning = @ + 1]

EnsureYAML(u) ==
    IF u.format # "YAML" \/ u.doc.json = <<>> \/ u.yaml # "none" THEN u
    ELSE [u EXCEPT !.yaml = "pending", !.converting = @ \union {u.gen}]

SetSpecFormat(u, format) ==
    IF u.format = format THEN u
    ELSE RefreshSpec(EnsureYAML([u EXCEPT !.format = format]))

RefreshSource(u) ==
    IF u.file = NoFile THEN u ELSE [u EXCEPT !.marks = AnchorLines(u.anchors, u.file)]

\* Mutant: the selection of the previous list is kept.
KeepDiag(cursor, diags) == cursor

ClampDiag(cursor, diags) == Clamp(cursor, Max({1, Len(diags)}))

ReplaceDocument(u, doc) ==
    [u EXCEPT !.doc = doc, !.anchors = doc.anchors, !.yaml = "none",
              !.gen = @ + 1, !.diag = ClampDiag(@, doc.diags),
              !.verdict = NoVerdict, !.tab = "scan"]

AbsorbScan(u, doc) ==
    EnsureYAML(SyncFollowIfActive(RefreshSource(RefreshSpec(
      [ReplaceDocument(u, doc) EXCEPT !.scanning = @ - 1]))))

\* Mutant: the follower is left where the conversion found it.
AbsorbUnfollowed(u, gen) ==
    LET landed == [u EXCEPT !.converting = @ \ {gen}]
    IN IF gen # u.gen THEN landed
       ELSE IF u.doc.yaml = <<>> THEN [landed EXCEPT !.yaml = "none"]
       ELSE RefreshSpec([landed EXCEPT !.yaml = "ready"])

\* A conversion of a document that was replaced meanwhile is dropped.
AbsorbYAML(u, gen) ==
    LET landed == [u EXCEPT !.converting = @ \ {gen}]
    IN IF gen # u.gen THEN landed
       ELSE IF u.doc.yaml = <<>> THEN [landed EXCEPT !.yaml = "none"]
       ELSE SyncFollowIfActive(RefreshSpec([landed EXCEPT !.yaml = "ready"]))

StartValidation(u) ==
    IF u.doc.json = <<>> THEN u ELSE [u EXCEPT !.checking = @ \union {u.doc.findings}]

\* The follower is not told: no sync follows this message.
AbsorbValidation(u, findings) ==
    [u EXCEPT !.checking = @ \ {findings},
              !.verdict = [findings |-> findings, ran |-> TRUE, cursor |-> 1],
              !.tab = "validation", !.focused = "diag"]

ToggleDiagTab(u) ==
    IF ~u.verdict.ran THEN u
    ELSE [ExitFollow(u) EXCEPT !.tab = IF @ = "scan" THEN "validation" ELSE "scan"]

ApplyOptions(u) ==
    LET closed == [u EXCEPT !.overlay = "none", !.toggled = FALSE]
    IN IF u.toggled THEN StartScan(closed) ELSE closed

-----------------------------------------------------------------------------
(* The keyboard.  Overlays capture every key, then the search prompt, then  *)
(* the editor; then the focused pane is asked before the global bindings.   *)

Panes == {"tree", "spec", "diag"}
Editor == ui.left = "view" /\ ui.focused = "tree" /\ ui.editing
Viewer == ui.left = "view" /\ ui.focused = "tree" /\ ~ui.editing
Free == ui.overlay = "none" /\ ~ui.searching
Global == Free /\ ~Editor

\* Model.Update: every key and every mouse event mirrors the followers again.
Becomes(u) == ui' = SyncFollowIfActive(u) /\ UNCHANGED keys
Key(key) == key \in keys
Moved(at, last) == {Clamp(at + 1, last), Clamp(at - 1, last), 1, last}

Init ==
    /\ keys \in Sessions
    /\ ui = [focused |-> "tree", left |-> "browse", file |-> NoFile, rows |-> 1,
             editing |-> FALSE, dirty |-> FALSE, nav |-> 1, row |-> 1, marks |-> {},
             format |-> "JSON", body |-> <<>>, cursor |-> 1, dots |-> {}, arrows |-> {},
             query |-> "none", match |-> 1, searching |-> FALSE, refs |-> NoCycle,
             doc |-> NoDocument, anchors |-> <<>>, yaml |-> "none", gen |-> 0,
             diag |-> 1, tab |-> "scan", verdict |-> NoVerdict, follow |-> "off",
             overlay |-> "none", toggled |-> FALSE,
             started |-> 1, scanning |-> 1, converting |-> {}, checking |-> {}]

Focus == \* tab, shift+tab
    /\ Key("tab") /\ Free
    /\ \E pane \in Panes \ {ui.focused} : Becomes([ui EXCEPT !.focused = pane])

MoveSpecCursor ==
    /\ Key("move") /\ Global /\ ui.focused = "spec"
    /\ \E line \in Moved(ui.cursor, Lines(ui.body)) : Becomes(JumpTo(ui, line))

MoveNavLine ==
    /\ Key("move") /\ Global /\ Viewer
    /\ \E line \in Moved(ui.nav, ui.rows) : Becomes(GotoLine(ui, line))

MoveDiagCursor ==
    /\ Key("move") /\ Global /\ ui.focused = "diag" /\ ui.tab = "scan"
    /\ ui.doc.diags # <<>>
    /\ \E at \in Moved(ui.diag, Len(ui.doc.diags)) : Becomes([ui EXCEPT !.diag = at])

MoveValidationCursor ==
    /\ Key("move") /\ Global /\ ui.focused = "diag" /\ ui.tab = "validation"
    /\ ui.verdict.findings # <<>>
    /\ \E at \in Moved(ui.verdict.cursor, Len(ui.verdict.findings)) :
         Becomes([ui EXCEPT !.verdict.cursor = at])

Follow == \* f
    /\ Key("f") /\ Global
    /\ \/ ui.focused = "spec" /\ Becomes(ToggleFollow(ui, "spec"))
       \/ Viewer /\ Becomes(ToggleFollow(ui, "source"))
       \/ ui.focused = "diag" /\ ui.tab = "scan" /\ Becomes(ToggleFollow(ui, "diag"))
       \/ ui.focused = "diag" /\ ui.tab = "validation"
            /\ Becomes(ToggleFollow(ui, "validation"))

Enter ==
    /\ Key("enter") /\ Global
    /\ \/ ui.focused = "spec" /\ Becomes(GotoDefinition(ui))
       \/ /\ ui.focused = "tree" /\ ui.left = "browse"
          /\ \E file \in Files : Becomes(OpenFile(ui, file))
       \/ ui.focused = "diag" /\ ui.tab = "scan" /\ Becomes(JumpDiagToSource(ui))
       \/ ui.focused = "diag" /\ ui.tab = "validation"
            /\ Becomes(JumpValidationToSpec(ui))

References == \* F3, shift+F3
    /\ Key("F3") /\ Global /\ ui.focused = "spec"
    /\ \E dir \in {"next", "previous"} : Becomes(CycleRefs(ui, dir))

Locate == \* g, on the file selected in the tree
    /\ Key("g") /\ Global
    /\ \E file \in Files : Becomes(LocateInSpec(ui, file))

SwitchFormat == \* ctrl+j, ctrl+y
    /\ Key("format") /\ Global
    /\ \E format \in {"JSON", "YAML"} : Becomes(SetSpecFormat(ui, format))

Rescan == \* r
    /\ Key("r") /\ Global
    /\ Becomes(StartScan(ui))

Validate == \* v
    /\ Key("v") /\ Global
    /\ Becomes(StartValidation(ui))

SwitchTab == \* V
    /\ Key("v") /\ Global
    /\ Becomes(ToggleDiagTab(ui))

\* StartEdit moves the editor's cursor to the nav line, StopEdit takes it back.
StartEdit == \* i, enter
    /\ Key("edit") /\ Global /\ Viewer
    /\ Becomes([ui EXCEPT !.editing = TRUE, !.row = ui.nav])

Type ==
    /\ Key("edit") /\ Free /\ Editor
    /\ \E row \in Moved(ui.row, ui.rows), dirty \in BOOLEAN :
         Becomes([ui EXCEPT !.row = row, !.dirty = dirty])

Save == \* ctrl+s
    /\ Key("edit") /\ Free /\ Editor
    /\ Becomes([ui EXCEPT !.dirty = FALSE])

FollowOnce == \* ctrl+f
    /\ Key("edit") /\ Free /\ Editor
    /\ SpecLineFor(ui, ui.file, ui.row) # 0
    /\ Becomes([LinkSourceToSpec(ui) EXCEPT !.focused = "spec"])

Reload == \* F5
    /\ Key("F5") /\ Free
    /\ Becomes(RequestReload(ui))

Answer == \* y, or n, esc, enter
    /\ ui.overlay = "confirm"
    /\ LET closed == [ui EXCEPT !.overlay = "none"]
       IN Becomes(closed) \/ Becomes(ReloadFile(closed))

OpenOptions == \* o
    /\ Key("o") /\ Global
    /\ Becomes([ExitFollow(ui) EXCEPT !.refs = NoCycle, !.overlay = "options",
                                      !.toggled = FALSE])

ToggleOption ==
    /\ ui.overlay = "options"
    /\ Becomes([ui EXCEPT !.toggled = TRUE])

CloseOptions ==
    /\ ui.overlay = "options"
    /\ Becomes(ApplyOptions(ui))

\* In the editor it ends the edit, in the viewer it leaves the file.
Escape ==
    /\ Key("esc") /\ Free
    /\ IF Editor THEN Becomes(RefreshSource([ui EXCEPT !.editing = FALSE, !.nav = ui.row, !.row = 1]))
       ELSE IF ui.follow # "off" THEN Becomes(ExitFollow(ui))
       ELSE IF Viewer THEN Becomes([ui EXCEPT !.left = "browse"])
       ELSE Becomes(ClearSearch([ui EXCEPT !.refs = NoCycle]))

EnterSearch == \* /
    /\ Key("/") /\ Global
    /\ Becomes([ExitFollow(ui) EXCEPT !.refs = NoCycle, !.focused = "spec",
                                      !.searching = TRUE])

RunSearch == \* enter on a query or on none, esc
    /\ ui.overlay = "none" /\ ui.searching
    /\ LET closed == [ui EXCEPT !.searching = FALSE]
       IN \/ \E query \in Queries : Becomes(Search(closed, query))
          \/ Becomes(ClearSearch(closed))

NextMatch == \* n, N
    /\ Key("/") /\ Global /\ Matches(ui) # {}
    /\ \E dir \in {"next", "previous"} : Becomes(StepMatch(ui, dir))

\* The mouse is asked before the overlays.
Click ==
    /\ Key("mouse")
    /\ \E pane \in Panes : Becomes([ui EXCEPT !.focused = pane])

\* The wheel moves the scan selection whichever tab the pane shows.
Wheel ==
    /\ Key("mouse")
    /\ \/ \E line \in {ui.cursor - 1, ui.cursor + 1} : Becomes(JumpTo(ui, line))
       \/ /\ ui.left = "view" /\ ~ui.editing
          /\ \E line \in {ui.nav - 1, ui.nav + 1} : Becomes(GotoLine(ui, line))
       \/ /\ ui.doc.diags # <<>>
          /\ \E at \in {ui.diag - 1, ui.diag + 1} :
               Becomes([ui EXCEPT !.diag = Clamp(at, Len(ui.doc.diags))])

ScanArrives ==
    /\ ui.scanning > 0
    /\ \E doc \in Documents : ui' = AbsorbScan(ui, doc)
    /\ UNCHANGED keys

YAMLArrives ==
    /\ \E gen \in ui.converting : ui' = AbsorbYAML(ui, gen)
    /\ UNCHANGED keys

ValidationArrives ==
    /\ \E findings \in ui.checking : ui' = AbsorbValidation(ui, findings)
    /\ UNCHANGED keys

Next ==
    \/ Focus \/ MoveSpecCursor \/ MoveNavLine \/ MoveDiagCursor \/ MoveValidationCursor
    \/ Follow \/ Enter \/ References \/ Locate \/ SwitchFormat
    \/ Rescan \/ Validate \/ SwitchTab
    \/ StartEdit \/ Type \/ Save \/ FollowOnce \/ Reload \/ Answer
    \/ OpenOptions \/ ToggleOption \/ CloseOptions \/ Escape
    \/ EnterSearch \/ RunSearch \/ NextMatch \/ Click \/ Wheel
    \/ ScanArrives \/ YAMLArrives \/ ValidationArrives

Spec == Init /\ [][Next]_vars

-----------------------------------------------------------------------------
(* What a session keeps true.                                               *)

\* Every selection is of something that is listed, and every cursor on a line
\* that exists: SelectedDiag, ValidationTarget and RefAt index the lists
\* without asking (jumpDiagToSource, validationTarget, moveCursorTo).
SelectionsAreListed ==
    /\ ui.diag \in 1..Max({1, Len(ui.doc.diags)})
    /\ ui.verdict.cursor \in 1..Max({1, Len(ui.verdict.findings)})
    /\ ui.cursor \in 1..Lines(ui.body)
    /\ ui.nav \in 1..ui.rows
    /\ ui.dots \union ui.arrows \subseteq DOMAIN ui.body

\* The find-references walk is over the references in the render on screen:
\* every scan, conversion and format toggle between two F3 drops it
\* (refcycle.go:18, "valid only for the render it was computed against").
CyclesAreCurrent ==
    ui.refs # NoCycle =>
      /\ ui.refs.sites = RefsToPointer(ui.body, ui.refs.anchor)
      /\ ui.refs.at \in 1..Cardinality(ui.refs.sites)

\* A dot or an arrow in a gutter is of the render, the scan and the file that
\* are on screen: following a dotted line lands on an anchor of its own.
GuttersAreCurrent ==
    /\ ui.arrows = LocalRefLines(ui.body)
    /\ \A line \in DOMAIN ui.body :
         line \in ui.dots <=>
           \E n \in AnchoredPointers(ui.anchors) : Declares(ui.body[line], n)
    /\ ui.marks \subseteq AnchorLines(ui.anchors, ui.file)

\* What the source pane is to show: the position of the node under the cursor,
\* or of the selected diagnostic.
Followed(u) ==
    CASE u.follow = "spec" -> SpecSource(u)
      [] u.follow = "diag" -> SelectedDiag(u)
      [] OTHER -> [file |-> NoFile, line |-> 0]

\* Whatever arrived last, the followers are where the driver points: the viewer
\* at that position, the cursor at the node of the source line or of the
\* selected diagnostic (crossref.go:357, syncFollowIfActive).
FollowersHold(u) ==
    LET pos == Followed(u)
        ShowsLine(line) == line # 0 => u.cursor = line
    IN /\ pos.file # NoFile => u.file = pos.file /\ u.nav = Clamp(pos.line, u.rows)
       /\ u.follow = "source" => ShowsLine(SpecLineFor(u, u.file, CurrentLine(u)))
       /\ u.follow = "diag" => ShowsLine(SpecLineFor(u, pos.file, pos.line))

\* The pane shows the tree or the editor, and not the viewer's line.
SourceIsHidden(u) == u.left = "browse" \/ u.editing

\* What is followed comes into sight and stays there, except that a pane which
\* already hid this very file is left hidden: ShowSource does not read it again.
StaysInSight(u, v) ==
    SourceIsHidden(v) /\ Followed(v).file # NoFile =>
      SourceIsHidden(u) /\ v.file = u.file

\* After every step of a session the followers hold, and no step takes what is
\* followed out of sight (syncFollowIfActive, driveSpecToSource).
FollowersMirror == [][FollowersHold(ui') /\ StaysInSight(ui, ui')]_ui

SpecIsDriven == ui'.follow \in {"source", "diag", "validation"}

\* When a render replaces a render, the cursor stays on its node or on the
\* nearest ancestor that is left (refreshSpec, restoreCursorTo).
CursorKeepsNode ==
    [][ /\ ui.body # <<>> /\ ui'.body \notin {<<>>, ui.body}
        /\ ~SpecIsDriven
        => LET kept == Nearest(PointerAt(ui.body, ui.cursor), Rendered(ui'.body))
           IN kept # Nowhere => ui'.cursor = LineForPointer(ui'.body, kept) ]_ui

\* Whatever arrived last, what is listed, marked and walked is of what is on screen.
PanesAreCurrent == SelectionsAreListed /\ CyclesAreCurrent /\ GuttersAreCurrent
=============================================================================
