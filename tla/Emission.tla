------------------------------ MODULE Emission -------------------------------
(***************************************************************************)
(* What the model-discovery stage of Builder.Build promises its callers,    *)
(* free of loops, queues and passes: it emits definitions one at a time,    *)
(* never one that is not needed, and it completes only when all that are    *)
(* needed were emitted, in whatever order that was.                         *)
(***************************************************************************)
CONSTANT Item

VARIABLES needed, emitted, result

vars == <<needed, emitted, result>>

TypeOK ==
    /\ needed \subseteq Item
    /\ emitted \subseteq needed
    /\ result \in {"open", "complete", "aborted"}

Init == needed \subseteq Item /\ emitted = {} /\ result = "open"

Emit(d) ==
    /\ result = "open"
    /\ d \in needed \ emitted
    /\ emitted' = emitted \union {d}
    /\ UNCHANGED <<needed, result>>

Complete ==
    /\ result = "open"
    /\ emitted = needed
    /\ result' = "complete"
    /\ UNCHANGED <<needed, emitted>>

Abort ==
    /\ result = "open"
    /\ result' = "aborted"
    /\ UNCHANGED <<needed, emitted>>

Next == (\E d \in Item : Emit(d)) \/ Complete \/ Abort

Spec == Init /\ [][Next]_vars /\ <>(result # "open")
=============================================================================
