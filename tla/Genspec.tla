------------------------------- MODULE Genspec -------------------------------
(***************************************************************************)
(* The commands over the loader: the options a command line settles are     *)
(* those the packages are loaded with, and a load that is given up is a      *)
(* command that fails.  The library can also be called without a command.   *)
(***************************************************************************)
EXTENDS Loading

CONSTANTS
    Lines,            \* the command lines considered
    Tree,             \* the source that a command finds, scanned with the default options
    KeyOrder, MaxObserved,
    PatternsOf(_),    \* the directories a package pattern names
    Accepted(_)       \* the packages an -include lets through

ASSUME TreeAssumption == IsScan(Tree)

\* None is no program, format or document; what is typed is a sequence of flags with their values; every key
\* of a configuration file has its place in the order of keys.
ASSUME CommandsAssumption ==
    /\ None \notin {"genspec", "genspec-tui", "genspec-wasi", "json", "yaml", "valid", "warned", "invalid", "unreadable"}
    /\ KeyOrder \in Seq(STRING \X STRING)
    /\ \A l \in Lines :
        /\ l.program \in {"genspec", "genspec-tui", "genspec-wasi"}
        /\ l.typed \in Seq([flag : STRING, text : Seq(STRING)])
        /\ \A file \in DOMAIN l.disk : l.disk[file].kind = "keys" =>
               \A key \in DOMAIN l.disk[file].values : \E i \in DOMAIN KeyOrder : KeyOrder[i] = key

VARIABLES line, step, flags, actual, typed, path, todo, ignored, options, seen, tripped, document, written, invalid, status

Cmd == INSTANCE CommandLine

command == <<line, step, flags, actual, typed, path, todo, ignored, options, seen, tripped, document, written, invalid, status>>
allVars == <<vars, command>>

InitAll ==
    \/ Init /\ Cmd!Begin(Cmd!Idle)
    \/ InitWith(Tree) /\ \E l \in Lines : Cmd!Begin(l)

Loads == (step = "scan" \/ line = Cmd!Idle) /\ Next /\ UNCHANGED command

\* NewScanCtx: the options become those of the load.
StartScan ==
    /\ Cmd!Prepare
    /\ IF step' \in {"scan", "session"}
       THEN /\ scan' = [scan EXCEPT !.strategy = IF options'["loader"] THEN "toolchain-free" ELSE "go/packages",
                                    !.compiled = options'["compiled-dependencies"],
                                    !.excludeDeps = options'["exclude-deps"],
                                    !.patterns = UNION {PatternsOf(Cmd!Packages[i]) : i \in DOMAIN Cmd!Packages},
                                    !.accepted = Accepted(options'["include"])]
            /\ compiled' = options'["compiled-dependencies"]
       ELSE UNCHANGED <<scan, compiled>>
    /\ UNCHANGED <<stage, packages, loading, exportOnly, looking>>

\* codescan.Run returns: a load that was given up is an error, and so is a build that fails.
Returns == IF stage = "aborted" THEN Cmd!RunFails ELSE stage = "lookups" /\ (Cmd!OnDiagnostic \/ Cmd!RunFails \/ Cmd!RunEnds)

Commands == (Cmd!Begins \/ Returns \/ Cmd!Finish) /\ UNCHANGED vars

NextAll == Loads \/ StartScan \/ Commands
SpecAll == InitAll /\ [][NextAll]_allVars

-----------------------------------------------------------------------------
(* Properties *)

\* The options a scan runs with are those asked for (CommandLine).
OptionsAreAsked == Cmd!OptionsAreAsked
\* Every key of a configuration file is applied, outranked or listed (CommandLine).
KeysAreAnswered == Cmd!KeysAreAnswered
\* The exit status tells what became of the document (CommandLine).
StatusTells == Cmd!StatusTells
=============================================================================
