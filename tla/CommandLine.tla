----------------------------- MODULE CommandLine -----------------------------
(***************************************************************************)
(* A command line of genspec, genspec-tui or genspec-wasi, from its flags    *)
(* and the configuration file it finds to the options the scan runs with,   *)
(* and from what the scan reports to the document written and the exit      *)
(* status.  The flags are representatives of each table and of each way     *)
(* their value is taken.                                                    *)
(*                                                                          *)
(* A text is the sequence of its entries: those between the commas of a     *)
(* list, or the segments of a path.  "" stands for a blank entry, <<>> for   *)
(* the empty text.                                                          *)
(***************************************************************************)
EXTENDS Naturals, SequencesExt

CONSTANTS
    None,
    Lines,            \* the command lines considered, with the files around them
    KeyOrder,         \* <<section, name>>, the keys of configuration files in string order
    MaxObserved       \* bound on what a scan reports of one severity

VARIABLES
    line,             \* the program, what was typed, and the files around it; None: no command
    step,             \* "parse", "config", "apply", "settle", "scan", "write", "validate", "summarize", "session" or "exited"
    flags,            \* FlagSet: flag -> text
    actual,           \* FlagSet.actual: the flags that were set
    typed,            \* cliconf.Apply: those that were before the file was applied
    path,             \* the configuration file that is read
    todo,             \* its keys not looked at yet
    ignored,          \* Result.Ignored
    options,          \* codescan.Options
    seen,             \* Reporter.seen: severity -> count
    tripped,          \* Reporter.tripped
    document,         \* what codescan.Run returned: "valid", "warned", "invalid" or "unreadable"
    written,          \* the format the document was written in
    invalid,          \* what ValidateSpec returned: "invalid", "failed" or None
    status            \* the exit status

configuring == <<typed, path, todo, ignored>>
reporting == <<seen, tripped>>
writing == <<document, written, invalid>>
vars == <<line, step, flags, actual, configuring, options, reporting, writing, status>>

-----------------------------------------------------------------------------
(* The tables *)

boolOptions == {"scan-models", "exclude-deps", "compiled-dependencies"}
stringOptions == {"workdir", "build-tags"}
floatOptions == {"name-concat-budget"}
listOptions == {"include", "name-from-tags"}
Library == boolOptions \cup stringOptions \cup floatOptions \cup listOptions \cup {"loader"}
ConfigFlags == {"config", "c", "no-config"}
GenspecFlags == Library \cup ConfigFlags \cup {"input", "output", "format", "validate", "quiet", "verbose", "fail-on", "version"}
SessionFlags == Library \cup ConfigFlags \cup {"packages", "version", "profile", "mem-profile-rate"}
WasiFlags == Library \cup {"export-data", "format", "output", "quiet"}
FlagsOf(program) ==
    CASE program = "genspec" -> GenspecFlags [] program = "genspec-tui" -> SessionFlags [] program = "genspec-wasi" -> WasiFlags

Bools == boolOptions \cup {"no-config", "validate", "quiet", "verbose", "version", "profile"}
Numbers == floatOptions \cup {"mem-profile-rate"}

DefaultOf(program, f) ==
    CASE f = "scan-models" -> <<"true">>
      [] f \in Bools \ {"scan-models"} -> <<"false">>
      [] f \in Numbers -> <<"0">>
      [] f = "loader" -> <<"auto">>
      [] f = "format" -> IF program = "genspec" THEN <<"auto">> ELSE <<"spec">>
      [] f = "fail-on" -> <<"never">>
      [] f = "workdir" -> <<".">>
      [] f = "output" -> <<"-">>
      [] OTHER -> <<>>

\* What the flag package takes for a value.
Parses(f, text) ==
    CASE f \in Bools -> text \in {<<"true">>, <<"false">>}
      [] f \in Numbers -> text \in {<<"0">>, <<"1">>}
      [] OTHER -> TRUE

\* The section of a configuration file that a shared flag is in; a path is not configured.
librarySections ==
    [f \in Library \ {"workdir"} |->
        CASE f \in {"exclude-deps", "build-tags", "include"} -> "scan"
          [] f \in {"compiled-dependencies", "loader"} -> "load"
          [] OTHER -> "emit"]
documentSections == [f \in {"input", "format"} |-> "document"]
diagnosticsSections == [f \in {"validate", "quiet", "verbose", "fail-on"} |-> "diagnostics"]
profileSections == [f \in {"profile", "mem-profile-rate"} |-> "profile"]
Merge(s, more) == [f \in DOMAIN s \cup DOMAIN more |-> IF f \in DOMAIN s THEN s[f] ELSE more[f]]
commandSections(program) ==
    IF program = "genspec" THEN Merge(documentSections, diagnosticsSections) ELSE profileSections
schema == Merge(librarySections, commandSections(line.program))
Sections == Range(schema)

-----------------------------------------------------------------------------
Given(f) == flags[f] = <<"true">>
Idle == [program |-> None]

Begin(l) ==
    /\ line = l
    /\ step = IF l = Idle THEN "exited" ELSE "parse"
    /\ flags = IF l = Idle THEN <<>> ELSE [f \in FlagsOf(l.program) |-> DefaultOf(l.program, f)]
    /\ actual = {} /\ typed = {}
    /\ path = None /\ todo = {} /\ ignored = {}
    /\ options = None
    /\ seen = [s \in {"error", "warning", "hint"} |-> 0]
    /\ tripped = FALSE
    /\ document = None /\ written = None /\ invalid = None
    /\ status = None

\* exitStatus; the two other commands know one failure.
StatusOf(kind) ==
    CASE kind = "ok" -> 0
      [] kind = "usage" -> IF line.program = "genspec" THEN 2 ELSE 1
      [] OTHER -> 1
Exit(s) == step' = "exited" /\ status' = s
Refuse == Exit(StatusOf("usage"))
Go(s) == step' = s /\ UNCHANGED status

-----------------------------------------------------------------------------
(* The flags *)

\* FlagSet.Parse takes the flags in the order they were typed and stops at the first it cannot take;
\* -h is one of them.  A flag typed twice has the last value.
Parse ==
    LET said == line.typed
        refused == {i \in DOMAIN said : said[i].flag \notin FlagsOf(line.program) \/ ~Parses(said[i].flag, said[i].text)}
        taken == {i \in DOMAIN said : \A j \in refused : i < j}
        named == {said[i].flag : i \in taken}
        TheLast(f) == said[Max({i \in taken : said[i].flag = f})]
    IN  /\ step = "parse"
        /\ flags' = [f \in DOMAIN flags |-> IF f \in named THEN TheLast(f).text ELSE flags[f]]
        /\ actual' = named
        /\ IF refused # {} THEN (IF said[Min(refused)].flag = "h" THEN Exit(0) ELSE Refuse)
           ELSE IF "version" \in DOMAIN flags /\ flags'["version"] = <<"true">> THEN Exit(0)
           ELSE Go(IF line.program = "genspec-wasi" THEN "settle" ELSE "config")
        /\ UNCHANGED <<line, configuring, options, reporting, writing>>

-----------------------------------------------------------------------------
(* The configuration file *)

Names == <<".codescan.yaml", ".codescan.yml">>
Exists(file) == file \in DOMAIN line.disk
IsRegular(file) == Exists(file) /\ line.disk[file].kind # "directory"

\* Where search looks, in this order: up from the directory the command runs in.
Candidates ==
    [i \in 1..(Len(line.above) * Len(Names)) |->
        <<line.above[((i - 1) \div Len(Names)) + 1], Names[((i - 1) % Len(Names)) + 1]>>]

Search == LET i == SelectInSeq(Candidates, IsRegular) IN IF i = 0 THEN None ELSE Candidates[i]

Contradicts ==
    \/ flags["config"] # <<>> /\ flags["c"] # <<>> /\ flags["config"] # flags["c"]
    \/ Given("no-config") /\ flags["config"] \o flags["c"] # <<>>
Named == IF flags["config"] # <<>> THEN flags["config"] ELSE flags["c"]
Discover == IF Given("no-config") THEN None ELSE IF Named # <<>> THEN Named ELSE Search

\* Which flags were typed is asked once, before any is written.
ReadConfiguration ==
    /\ step = "config"
    /\ typed' = actual
    /\ IF Contradicts \/ (Discover # None /\ ~(Exists(Discover) /\ line.disk[Discover].kind = "keys"))
       THEN Refuse /\ UNCHANGED <<path, todo>>
       ELSE IF Discover = None THEN Go("settle") /\ UNCHANGED <<path, todo>>
       ELSE Go("apply") /\ path' = Discover /\ todo' = DOMAIN line.disk[Discover].values
    /\ UNCHANGED <<line, flags, actual, ignored, options, reporting, writing>>

\* A value as the flag package would have received it: nothing, a text, or a list of values.
Stringifies(v) == v.kind # "other" /\ (v.kind = "list" => \A i \in DOMAIN v.items : v.items[i].kind # "other")
Stringify(v) ==
    CASE v.kind = "nothing" -> <<>>
      [] v.kind = "text" -> v.text
      [] v.kind = "list" -> FlattenSeq([i \in DOMAIN v.items |-> IF v.items[i].kind = "nothing" THEN <<"">> ELSE v.items[i].text])

\* Mutant: a name that is no flag's is passed over, as a section that is not this command's is.
IsPlacedOrUnknown(key) == key[2] \in DOMAIN schema => schema[key[2]] = key[1]

\* check: the key names a flag, in the section the flag belongs to.
IsPlaced(key) == key[2] \in DOMAIN schema /\ schema[key[2]] = key[1]

NextKey == KeyOrder[Min({i \in DOMAIN KeyOrder : KeyOrder[i] \in todo})]
ValueAt(key) == line.disk[path].values[key]

\* One round of cliconf.Apply.
ApplyKey ==
    LET name == NextKey[2]
        value == ValueAt(NextKey)
        skipped == NextKey[1] # "" /\ NextKey[1] \notin Sections
        placed == ~skipped /\ IsPlaced(NextKey)
        outranked == placed /\ name \in typed
        taken == placed /\ ~outranked /\ Stringifies(value) /\ Parses(name, Stringify(value))
    IN  /\ step = "apply" /\ todo # {}
        /\ todo' = todo \ {NextKey}
        /\ ignored' = IF skipped THEN ignored \cup {NextKey} ELSE ignored
        /\ IF skipped \/ outranked \/ taken THEN Go(step) ELSE Refuse
        /\ flags' = IF taken THEN [flags EXCEPT ![name] = Stringify(value)] ELSE flags
        /\ actual' = IF taken THEN actual \cup {name} ELSE actual
        /\ UNCHANGED <<line, typed, path, options, reporting, writing>>

EndConfiguration ==
    /\ step = "apply" /\ todo = {}
    /\ Go("settle")
    /\ UNCHANGED <<line, flags, actual, configuring, options, reporting, writing>>

-----------------------------------------------------------------------------
(* The options *)

SplitList(text) == LET said == SelectSeq(text, LAMBDA e : e # "") IN IF said = <<>> THEN None ELSE said

\* Mutant: only what was typed counts as given.
PassedTyped(f) == f \in typed
Passed(f) == f \in actual

\* Values.list: name-from-tags tells an empty list from none.
ListOf(f) ==
    IF f # "name-from-tags" THEN SplitList(flags[f])
    ELSE IF ~Passed(f) THEN None
    ELSE IF SplitList(flags[f]) = None THEN <<>> ELSE SplitList(flags[f])

\* resolveLoader: "auto" runs the go command wherever a process can be started.
OwnLoader == flags["loader"] = <<"own">> \/ (flags["loader"] = <<"auto">> /\ ~line.canExec)

\* Values.Apply
Apply ==
    [f \in Library |->
        CASE f \in boolOptions -> Given(f)
          [] f \in listOptions -> ListOf(f)
          [] f = "loader" -> OwnLoader
          [] OTHER -> flags[f]]

IsYAMLName(file) == file # <<>> /\ Last(file) \in {"swagger.yaml", "swagger.yml"}
Format ==
    IF flags["format"] # <<"auto">> THEN flags["format"][1]
    ELSE IF IsYAMLName(flags["output"]) THEN "yaml" ELSE "json"

\* The flags that take one value of a few.
OneOf(f, values) == \E v \in values : flags[f] = <<v>>
LoaderIsKnown == OneOf("loader", {"go", "own", "auto"})
FormatIsKnown == OneOf("format", {"json", "yaml", "auto"})
FailOnIsKnown == OneOf("fail-on", {"never", "error", "warning"})
WrappedIsKnown == OneOf("format", {"spec", "json"})

\* A file that is read on the side.
Kind(file) == IF file = <<>> THEN "none" ELSE IF Exists(file) THEN line.disk[file].kind ELSE "gone"
LoadInputSpec == Kind(flags["input"])
OpenExportData == Kind(flags["export-data"])

\* The command runs with these options, or is refused.
Settle(kind, next) ==
    IF kind = "ok" THEN options' = Apply /\ Go(next) ELSE Exit(StatusOf(kind)) /\ UNCHANGED options

PrepareScan ==
    /\ step = "settle" /\ line.program = "genspec"
    /\ Settle(IF ~(FormatIsKnown /\ FailOnIsKnown /\ LoaderIsKnown) \/ LoadInputSpec = "directory" THEN "usage"
              ELSE IF LoadInputSpec \in {"none", "specification"} THEN "ok" ELSE "failed", "scan")
    /\ UNCHANGED <<line, flags, actual, configuring, reporting, writing>>

\* genspec-tui goes on to a session with the options it starts with.
PrepareSession ==
    /\ step = "settle" /\ line.program = "genspec-tui"
    /\ Settle(IF LoaderIsKnown THEN "ok" ELSE "failed", "session")
    /\ UNCHANGED <<line, flags, actual, configuring, reporting, writing>>

PrepareWasi ==
    /\ step = "settle" /\ line.program = "genspec-wasi"
    /\ Settle(IF WrappedIsKnown /\ LoaderIsKnown /\ OpenExportData \in {"none", "directory", "archive"} THEN "ok" ELSE "failed", "scan")
    /\ UNCHANGED <<line, flags, actual, configuring, reporting, writing>>

\* The packages to scan: the arguments, or everything below; -packages is an older way to say them.
Patterns == IF line.args # <<>> THEN line.args ELSE <<"./...">>
SessionPatterns == IF line.args = <<>> /\ SplitList(flags["packages"]) # None THEN SplitList(flags["packages"]) ELSE Patterns
Packages == IF line.program = "genspec-tui" THEN SessionPatterns ELSE Patterns

-----------------------------------------------------------------------------
(* What the scan reports *)

Rank(severity) == CASE severity = "error" -> 0 [] severity = "warning" -> 1 [] severity = "hint" -> 2

Reaches(severity) == ~OneOf("fail-on", {"never"}) /\ Rank(severity) <= Rank(flags["fail-on"][1])

\* Reporter.record, of genspec: counted whether it is shown or not.
Record(severity) ==
    /\ seen' = [seen EXCEPT ![severity] = @ + 1]
    /\ tripped' = (tripped \/ (line.program = "genspec" /\ Reaches(severity)))

OnDiagnostic ==
    /\ step = "scan"
    /\ \E severity \in DOMAIN seen : seen[severity] < MaxObserved /\ Record(severity)
    /\ UNCHANGED <<line, step, flags, actual, configuring, options, writing, status>>

RunFails ==
    /\ step = "scan"
    /\ Exit(StatusOf("failed"))
    /\ UNCHANGED <<line, flags, actual, configuring, options, reporting, writing>>

RunEnds ==
    /\ step = "scan"
    /\ document' \in {"valid", "warned", "invalid", "unreadable"}
    /\ Go("write")
    /\ UNCHANGED <<line, flags, actual, configuring, options, reporting, written, invalid>>

WriteFails == Kind(flags["output"]) = "directory"

\* render.Spec
Write ==
    /\ step = "write" /\ line.program = "genspec"
    /\ written' = IF WriteFails THEN written ELSE Format
    /\ IF WriteFails THEN Exit(StatusOf("failed")) ELSE Go("validate")
    /\ UNCHANGED <<line, flags, actual, configuring, options, reporting, document, invalid>>

\* emit
Emit ==
    /\ step = "write" /\ line.program = "genspec-wasi"
    /\ written' = IF WriteFails THEN written ELSE flags["format"][1]
    /\ Exit(StatusOf(IF WriteFails THEN "failed" ELSE "ok"))
    /\ UNCHANGED <<line, flags, actual, configuring, options, reporting, document, invalid>>

\* The document is validated once it is written; its findings are recorded like those of the scan.
ValidateSpec ==
    /\ step = "validate"
    /\ IF ~Given("validate") \/ document \in {"valid", "unreadable"} THEN UNCHANGED reporting
       ELSE Record(IF document = "invalid" THEN "error" ELSE "warning")
    /\ invalid' = IF Given("validate") /\ document \in {"invalid", "unreadable"} THEN document ELSE None
    /\ Go("summarize")
    /\ UNCHANGED <<line, flags, actual, configuring, options, document, written>>

\* Mutant: the threshold comes before what the validation says.
VerdictTripped == IF tripped THEN 3 ELSE IF invalid = "invalid" THEN 4 ELSE IF invalid = "unreadable" THEN 1 ELSE 0
Verdict == IF invalid = "invalid" THEN 4 ELSE IF invalid = "unreadable" THEN 1 ELSE IF tripped THEN 3 ELSE 0

Summarize ==
    /\ step = "summarize"
    /\ Exit(Verdict)
    /\ UNCHANGED <<line, flags, actual, configuring, options, reporting, writing>>

Begins == Parse \/ ReadConfiguration \/ ApplyKey \/ EndConfiguration
Prepare == PrepareScan \/ PrepareSession \/ PrepareWasi
Finish == Write \/ Emit \/ ValidateSpec \/ Summarize

-----------------------------------------------------------------------------
(* Properties *)

Said(f) == {i \in DOMAIN line.typed : line.typed[i].flag = f}
InFile(f) == path # None /\ f \in DOMAIN schema /\ <<schema[f], f>> \in DOMAIN line.disk[path].values
Asked(f) ==
    IF Said(f) # {} THEN line.typed[Max(Said(f))].text
    ELSE IF InFile(f) THEN Stringify(ValueAt(<<schema[f], f>>)) ELSE DefaultOf(line.program, f)
Entries(text) == Range(text) \ {""}
Ended == step \in {"exited", "session"}

\* A scan runs with what was typed, else with what the nearest or the named file says, else with the
\* default; an empty name-from-tags is not an absent one, whoever gave it (Apply, Values.list, Discover).
OptionsAreAsked ==
    Ended /\ options # None =>
        /\ line.program # "genspec-wasi" => path = Discover
        /\ \A i, j \in DOMAIN Candidates : i < j /\ path = Candidates[j] /\ IsRegular(Candidates[i]) => path = Named
        /\ \A f \in boolOptions : options[f] <=> Asked(f) = <<"true">>
        /\ \A f \in listOptions :
            /\ options[f] = None <=> Entries(Asked(f)) = {} /\ (f = "include" \/ (Said(f) = {} /\ ~InFile(f)))
            /\ options[f] # None => Range(options[f]) = Entries(Asked(f))
        /\ options["loader"] <=> Asked("loader") = <<"own">> \/ (Asked("loader") = <<"auto">> /\ ~line.canExec)

\* Once a file is applied, each of its keys set its flag, was outranked by a flag that was typed, or is
\* on the list of those in sections of another command: no misspelled one was passed over (cliconf.Apply).
KeysAreAnswered ==
    Ended /\ path # None /\ options # None =>
        \A key \in DOMAIN line.disk[path].values :
            \/ key \in ignored /\ key[1] \notin Sections
            \/ /\ key[2] \in DOMAIN schema /\ schema[key[2]] = key[1]
               /\ Said(key[2]) # {} \/ flags[key[2]] = Stringify(ValueAt(key))

\* The exit status of genspec tells what became of the document, whatever -quiet and -verbose mute: 4 for
\* one found invalid, else 3 when something reported reached the threshold, and in both it was written;
\* 2 and 1 without one, unless it could not be read again (main.go: exitStatus, run).
Failing == IF OneOf("fail-on", {"warning"}) THEN {"error", "warning"} ELSE IF OneOf("fail-on", {"error"}) THEN {"error"} ELSE {}
Checked(what) == Given("validate") /\ document = what

\* Each status has its cause and each cause its status.
StatusTells ==
    line.program = "genspec" /\ status # None =>
        /\ status = 2 => options = None
        /\ document # None /\ written = None => status = 1
        /\ written # None =>
            /\ status = 4 <=> Checked("invalid")
            /\ status = 1 <=> Checked("unreadable")
            /\ status = 3 <=> ~Checked("invalid") /\ ~Checked("unreadable") /\ \E s \in Failing : seen[s] > 0
            /\ status # 2
        /\ document = None /\ status = 0 => \E i \in Said("h") \cup Said("version") : TRUE
=============================================================================
