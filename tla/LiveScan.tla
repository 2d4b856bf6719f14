------------------------------ MODULE LiveScan -------------------------------
(***************************************************************************)
(* The live view of genspec-tui: a file watcher, a debounce timer and the   *)
(* asynchronous commands (scans, YAML conversions, validations) whose       *)
(* results arrive in the event loop Model.Update in any order.              *)
(*                                                                          *)
(* A document is identified by what it was made from: the version of the    *)
(* sources on disk and the version of the options.  The user edits, presses *)
(* keys and toggles options; all of it is bounded by Max* constants.        *)
(***************************************************************************)
EXTENDS Naturals, FiniteSets

CONSTANTS
    MaxEdits,         \* versions of the sources after the first
    MaxBurst,         \* events the file system reports for one edit
    MaxToggles,       \* versions of the options after the first
    MaxPresses,       \* keys that toggle, rescan, validate or switch the view
    Broken,           \* versions of sources and options no scan makes a document of
    Unconvertible     \* versions whose document cannot be shown as YAML

ASSUME BoundsAssumption ==
    /\ {MaxEdits, MaxBurst, MaxToggles, MaxPresses} \subseteq Nat
    /\ MaxBurst > 0
    /\ Broken \union Unconvertible \subseteq (0..MaxEdits) \X (0..MaxToggles)

VARIABLES
    disk,             \* version of the sources on disk
    opts,             \* version of the options, m.cfg
    overlayOpen, dirty,
    presses,          \* how often the user pressed one of those keys
    fsQueue,          \* number of file events the watcher did not read
    signal,           \* the watcher's channel, of capacity one, is full
    listening,        \* a waitForFS command waits on the channel
    fsEvent,          \* its fsEventMsg is on its way to the event loop
    window,           \* the newest debounce window, SourceWatch.gen
    timers,           \* the windows whose timer is running
    scans,            \* the scans in flight
    started,          \* number of scans started
    shown,            \* the scan whose result is on screen, 0 before the first
    running,          \* ScanState.Running
    document,         \* ScanState.JSON
    gen,              \* ScanState.Gen
    yaml, yamlPending,
    conversions,      \* YAML conversions in flight
    yamlView,         \* the spec pane shows YAML
    checks,           \* documents being validated
    verdict           \* the document the validation tab judges

user == <<disk, opts, overlayOpen, dirty, presses>>
watch == <<fsQueue, signal, listening, fsEvent, window, timers>>
flight == <<scans, started, shown, running>>
view == <<document, gen, yaml, yamlPending, conversions, yamlView>>
judged == <<checks, verdict>>
vars == <<user, watch, flight, view, judged>>

None == [disk |-> 0, opts |-> 0, made |-> FALSE]
Doc(d, o) == [disk |-> d, opts |-> o, made |-> TRUE]
Docs == {None} \union {Doc(d, o) : d \in 0..MaxEdits, o \in 0..MaxToggles}
Rendering(d, o) == IF <<d, o>> \in Broken THEN None ELSE Doc(d, o)
IsConvertible(doc) == <<doc.disk, doc.opts>> \notin Unconvertible

MaxWindows == MaxEdits * MaxBurst
MaxScans == 1 + MaxWindows + MaxPresses

-----------------------------------------------------------------------------
(* startScan: the options are copied at once, the sources are read later.   *)

StartScan ==
    /\ started' = started + 1
    /\ scans' = scans \union {[id |-> started + 1, opts |-> opts,
                               disk |-> 0, read |-> FALSE]}
    /\ running' = TRUE
    /\ UNCHANGED shown

Init ==
    /\ disk = 0 /\ opts = 0 /\ overlayOpen = FALSE /\ dirty = FALSE
    /\ presses = 0
    /\ fsQueue = 0 /\ signal = FALSE /\ listening = TRUE /\ fsEvent = FALSE
    /\ window = 0 /\ timers = {}
    /\ scans = {[id |-> 1, opts |-> 0, disk |-> 0, read |-> FALSE]}
    /\ started = 1 /\ shown = 0 /\ running = TRUE
    /\ document = None /\ gen = 0 /\ yaml = None /\ yamlPending = FALSE
    /\ conversions = {} /\ yamlView = FALSE
    /\ checks = {} /\ verdict = None

-----------------------------------------------------------------------------
(* The user.                                                                *)

Press == presses < MaxPresses /\ presses' = presses + 1

\* An edit is saved: in the viewer or by another program.
Edit ==
    /\ disk < MaxEdits
    /\ disk' = disk + 1
    /\ \E events \in 1..MaxBurst : fsQueue' = fsQueue + events
    /\ UNCHANGED <<opts, overlayOpen, dirty, presses, signal,
                   listening, fsEvent, window, timers, flight, view, judged>>

\* The overlay captures every key until it is dismissed.
OpenOptions ==
    /\ ~overlayOpen
    /\ opts < MaxToggles
    /\ overlayOpen' = TRUE
    /\ dirty' = FALSE
    /\ UNCHANGED <<disk, opts, presses, watch, flight, view, judged>>

Toggle ==
    /\ overlayOpen
    /\ opts < MaxToggles
    /\ Press
    /\ opts' = opts + 1
    /\ dirty' = TRUE
    /\ UNCHANGED <<disk, overlayOpen, watch, flight, view, judged>>

\* applyOptions: a dismissal with a changed toggle rescans.
CloseOptions ==
    /\ overlayOpen
    /\ overlayOpen' = FALSE
    /\ dirty' = FALSE
    /\ IF dirty THEN StartScan ELSE UNCHANGED flight
    /\ UNCHANGED <<disk, opts, presses, watch, view, judged>>

Rescan ==
    /\ ~overlayOpen
    /\ Press
    /\ StartScan
    /\ UNCHANGED <<disk, opts, overlayOpen, dirty, watch, view, judged>>

\* ensureYAML, given what the view is about to hold.
EnsureYAML(asYaml, doc, current, body, pending) ==
    IF asYaml /\ doc # None /\ body = None /\ ~pending
    THEN /\ yamlPending' = TRUE
         /\ conversions' = conversions \union {[gen |-> current, doc |-> doc]}
    ELSE yamlPending' = pending /\ UNCHANGED conversions

\* setSpecFormat.
SwitchFormat ==
    /\ ~overlayOpen
    /\ Press
    /\ yamlView' = ~yamlView
    /\ EnsureYAML(~yamlView, document, gen, yaml, yamlPending)
    /\ UNCHANGED <<disk, opts, overlayOpen, dirty, watch,
                   flight, document, gen, yaml, judged>>

\* startValidation captures the document on screen.
StartValidation ==
    /\ ~overlayOpen
    /\ document # None
    /\ Press
    /\ checks' = checks \union {document}
    /\ UNCHANGED <<disk, opts, overlayOpen, dirty, watch, flight, view, verdict>>

-----------------------------------------------------------------------------
(* The watcher's goroutine and the listen loop.                             *)

\* Watcher.loop: the send does not block, so a full channel absorbs events.
Notice ==
    /\ fsQueue > 0
    /\ fsQueue' = fsQueue - 1
    /\ signal' = TRUE
    /\ UNCHANGED <<user, listening, fsEvent, window, timers, flight, view, judged>>

\* waitForFS returns one fsEventMsg.
Receive ==
    /\ listening /\ signal
    /\ signal' = FALSE
    /\ listening' = FALSE
    /\ fsEvent' = TRUE
    /\ UNCHANGED <<user, fsQueue, window, timers, flight, view, judged>>

\* Mutant: the listen loop is not re-issued.
HandleChangeOnce ==
    /\ fsEvent
    /\ fsEvent' = FALSE
    /\ window' = window + 1
    /\ timers' = timers \union {window + 1}
    /\ UNCHANGED <<user, fsQueue, signal, listening, flight, view, judged>>

\* Update on fsEventMsg: open a new debounce window and listen again.
HandleChange ==
    /\ fsEvent
    /\ fsEvent' = FALSE
    /\ window' = window + 1
    /\ timers' = timers \union {window + 1}
    /\ listening' = TRUE
    /\ UNCHANGED <<user, fsQueue, signal, flight, view, judged>>

\* Mutant: a timer rescans unless a scan is in flight already.
DebounceIdle(w) ==
    /\ w \in timers
    /\ timers' = timers \ {w}
    /\ IF w = window /\ ~running THEN StartScan ELSE UNCHANGED flight
    /\ UNCHANGED <<user, fsQueue, signal, listening, fsEvent, window, view, judged>>

\* Update on debounceMsg: only the newest window rescans.
Debounce(w) ==
    /\ w \in timers
    /\ timers' = timers \ {w}
    /\ IF w = window THEN StartScan ELSE UNCHANGED flight
    /\ UNCHANGED <<user, fsQueue, signal, listening, fsEvent, window, view, judged>>

-----------------------------------------------------------------------------
(* The asynchronous commands.                                               *)

ReadSources(s) ==
    /\ s \in scans
    /\ ~s.read
    /\ scans' = (scans \ {s}) \union {[id |-> s.id, opts |-> s.opts,
                                      disk |-> disk, read |-> TRUE]}
    /\ UNCHANGED <<user, watch, started, shown, running, view, judged>>

\* Mutant: converts on a switch only: the new document's YAML is never asked for.
AbsorbScanLazily(s) ==
    /\ s \in scans
    /\ s.read
    /\ scans' = scans \ {s}
    /\ shown' = s.id
    /\ running' = FALSE
    /\ document' = Rendering(s.disk, s.opts)
    /\ gen' = gen + 1
    /\ yaml' = None
    /\ yamlPending' = FALSE
    /\ verdict' = None
    /\ UNCHANGED <<user, watch, started, conversions, yamlView, checks>>

\* absorbScan, then ensureYAML: the result replaces all the last one left.
AbsorbScan(s) ==
    /\ s \in scans
    /\ s.read
    /\ scans' = scans \ {s}
    /\ shown' = s.id
    /\ running' = FALSE
    /\ document' = Rendering(s.disk, s.opts)
    /\ gen' = gen + 1
    /\ yaml' = None
    /\ EnsureYAML(yamlView, Rendering(s.disk, s.opts), gen + 1, None, FALSE)
    /\ verdict' = None
    /\ UNCHANGED <<user, watch, started, yamlView, checks>>

\* Mutant: does not mind the generation.
AbsorbYAMLUnguarded(c) ==
    /\ c \in conversions
    /\ conversions' = conversions \ {c}
    /\ yaml' = c.doc /\ yamlPending' = FALSE
    /\ UNCHANGED <<user, watch, flight, document, gen, yamlView, judged>>

\* absorbYAML: a conversion of a document replaced since is discarded.
AbsorbYAML(c) ==
    /\ c \in conversions
    /\ conversions' = conversions \ {c}
    /\ IF c.gen = gen
       THEN /\ yaml' = IF IsConvertible(c.doc) THEN c.doc ELSE yaml
            /\ yamlPending' = FALSE
       ELSE UNCHANGED <<yaml, yamlPending>>
    /\ UNCHANGED <<user, watch, flight, document, gen, yamlView, judged>>

\* absorbValidation records the findings as they are.
AbsorbValidation(d) ==
    /\ d \in checks
    /\ checks' = checks \ {d}
    /\ verdict' = d
    /\ UNCHANGED <<user, watch, flight, view>>

User ==
    \/ Edit \/ OpenOptions \/ Toggle \/ CloseOptions
    \/ Rescan \/ SwitchFormat \/ StartValidation

Land ==
    \/ \E s \in scans : ReadSources(s) \/ AbsorbScan(s)
    \/ \E c \in conversions : AbsorbYAML(c)
    \/ \E d \in checks : AbsorbValidation(d)

System == Notice \/ Receive \/ HandleChange \/ (\E w \in timers : Debounce(w)) \/ Land

Next == User \/ System

\* Every goroutine, timer and pending message gets its turn; the user, who
\* closes the options sooner or later, owes nothing else.
Fairness ==
    /\ WF_vars(Notice) /\ WF_vars(Receive) /\ WF_vars(HandleChange)
    /\ \A w \in 1..MaxWindows : WF_vars(Debounce(w))
    /\ WF_vars(Land)
    /\ WF_vars(CloseOptions)

Spec == Init /\ [][Next]_vars /\ Fairness

-----------------------------------------------------------------------------
(* Properties.                                                              *)

TypeOK ==
    /\ disk \in 0..MaxEdits /\ opts \in 0..MaxToggles
    /\ {overlayOpen, dirty, signal, listening, fsEvent, running, yamlPending,
        yamlView} \subseteq BOOLEAN
    /\ presses \in 0..MaxPresses
    /\ fsQueue \in 0..MaxWindows /\ window \in 0..MaxWindows
    /\ timers \subseteq 1..window
    /\ started \in 1..MaxScans /\ shown \in 0..started /\ gen \in 0..started
    /\ scans \subseteq [id : 1..started, opts : 0..opts, disk : 0..disk, read : BOOLEAN]
    /\ conversions \subseteq [gen : 1..gen, doc : Docs \ {None}]
    /\ checks \subseteq Docs \ {None}
    /\ {document, yaml, verdict} \subseteq Docs

\* Nothing is in flight, and the user is in no overlay.
Quiescent ==
    /\ fsQueue = 0 /\ ~signal /\ ~fsEvent /\ timers = {}
    /\ scans = {} /\ conversions = {} /\ checks = {}
    /\ ~overlayOpen

\* A YAML body on screen is of the document of the last result, whatever was
\* converted while results landed: the guard of absorbYAML (scanflow.go:214).
YamlIsCurrent == yaml # None => yaml = document

\* No change is lost between the watcher's one-slot channel, the listen loop
\* and the debounce timers: at rest, the last scan that started has seen the
\* sources and the options as they are now, and so the screen, if that scan
\* landed last, shows their document.
NothingIsMissed ==
    Quiescent /\ shown = started => document = Rendering(disk, opts)

\* Whatever changes on disk or in the options is, sooner or later, in the hands
\* of one scan together with everything that changed since (Model.Update, model.go:262).
ChangesAreScanned ==
    (fsQueue > 0 \/ (overlayOpen /\ dirty))
        ~> (\E s \in scans : s.read /\ s.disk = disk /\ s.opts = opts)

\* Who looks at the YAML view of a document that can be converted gets it, or
\* a later scan or switch of the view changes what is asked for (ensureYAML is
\* called after absorbScan and by setSpecFormat, model.go:257, crossref.go:205).
YamlArrives ==
    (yamlView /\ document # None /\ IsConvertible(document))
        ~> (yaml # None \/ ~yamlView \/ document = None
              \/ ~IsConvertible(document))

=============================================================================
