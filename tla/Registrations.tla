----------------------------- MODULE Registrations -----------------------------
(***************************************************************************)
(* What a program declares, and who owns the name of a shared parameter.    *)
(* SharedObjects says how the names are registered and what the operations  *)
(* and paths make of them.                                                  *)
(*                                                                          *)
(* Declarations and annotations come in the order packages were loaded, so  *)
(* each loop takes what it has left in any order.  Declarations are numbered *)
(* by package path and position.                                            *)
(***************************************************************************)
EXTENDS Sequences, Functions, FiniteSetsExt

CONSTANTS
    Name,             \* names of parameters, responses and models
    Location,         \* where a parameter goes: "body" and others
    OpId,             \* ids of operations
    Path, Method,
    Inputs            \* what the scanner found, and the caller's specification

Codes == {"default", "200"}

\* A parameter: one declared with a name and a location, or a $ref to a shared
\* one, whose name and location are empty.  `from` is ours: who declared it.
Declared(field, who) == [name |-> field.name, in |-> field.in, ref |-> "", from |-> who]
Reference(n) == [name |-> "", in |-> "", ref |-> n, from |-> <<"reference">>]
IsReference(p) == p.ref # ""

FieldLists == Seq([name : Name, in : Location])

\* swagger:parameters on a struct; its markers are gathered by what they target.
Declarations ==
    [fields : FieldLists, operations : SUBSET OpId, isShared : BOOLEAN,
     sharedOperations : SUBSET OpId, paths : SUBSET Path]

\* swagger:route and swagger:operation, with what their bodies list.
Annotations ==
    [kind : {"route", "operation"}, path : Path, method : Method, id : OpId,
     fields : FieldLists, references : SUBSET Name, responses : UNION {[S -> Name] : S \in SUBSET Codes}]

\* What InputSpec brought; no two of its parameters of an operation are alike.
Parameters == {Declared(f, <<"supplied">>) : f \in [name : Name, in : Location]}
                  \union {Reference(n) : n \in Name}
IsProgram(i) ==
    /\ i.declarations \in Seq(Declarations)
    /\ i.annotations \in Seq(Annotations)
    /\ \A a \in Range(i.annotations) : a.kind = "route" => a.references = {}
    /\ i.references \subseteq OpId \X Name              \* swagger:parameters id name ...
    /\ i.pathReferences \subseteq Path \X Name          \* swagger:parameters /path name ...
    /\ i.registered \in [responses : SUBSET Name, models : SUBSET Name]
    /\ i.supplied.parameters \subseteq Name /\ i.supplied.responses \subseteq Name
    /\ DOMAIN i.supplied.operations \subseteq Path \X Method
    /\ \A s \in Range(i.supplied.operations) :
           /\ s \in [id : OpId, parameters : Seq(Parameters)]
           /\ IsInjective(s.parameters)
           /\ \A r \in Range(i.supplied.operations) : r.id = s.id => r = s
    /\ \A p \in DOMAIN i.supplied.pathItems :
           p \in Path /\ i.supplied.pathItems[p] \in Seq(Parameters)

ASSUME ProgramAssumption ==
    /\ "" \notin Name \union Location
    /\ \A i \in Inputs : IsProgram(i)

VARIABLES
    input,            \* the program
    phase,            \* the step of Build at work
    left,             \* what its loop has left
    candidates,       \* registrations: a declaration and a name
    parameters        \* Swagger.Parameters: name -> who declared it

Declaration(d) == input.declarations[d]
NamesOf(d) == {f.name : f \in Range(Declaration(d).fields)}

\* A shared name belongs to InputSpec if it brought one, and otherwise to the
\* first declaration in package order, in whatever order packages were loaded.
Registrants(n) == {d \in DOMAIN input.declarations : Declaration(d).isShared /\ n \in NamesOf(d)}

\* Once registration is over, each shared name is there when someone asked for it, and is the first's
\* (registerSharedParameters).
FirstIsKept ==
    phase \notin {"parameters", "registration"} =>
        \A n \in Name :
            /\ n \in DOMAIN parameters
                  <=> n \in input.supplied.parameters \/ Registrants(n) # {}
            /\ n \in DOMAIN parameters =>
                  parameters[n] = IF n \in input.supplied.parameters THEN <<"InputSpec">>
                                  ELSE <<"declaration", Min(Registrants(n))>>
=============================================================================
