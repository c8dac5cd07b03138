--------------------------- MODULE ModelResidency ---------------------------
(***************************************************************************)
(* What chirpd promises about the models in its memory, without tasks,     *)
(* locks, timers or queues: an alias is absent, being loaded, resident or  *)
(* being unloaded; handlers use it one at a time and never while it is     *)
(* being loaded or unloaded; loads happen one after the other; and a load  *)
(* starts only when the cap of its role has room for one more model.       *)
(* ModelLifecycle implements this specification.                           *)
(***************************************************************************)
EXTENDS Integers, FiniteSets

CONSTANTS
    Alias,      \* model identifiers
    Role,       \* what a model is loaded for
    Cap,        \* models of a role allowed in memory, <= 0 is no cap
    None        \* the role of an alias that is absent

VARIABLES
    phase,      \* where each alias stands
    kind,       \* the role of the model in memory under an alias
    inUse       \* the aliases some handler works with

vars == <<phase, kind, inUse>>

Phase == {"absent", "loading", "resident", "unloading"}

Init ==
    /\ phase = [a \in Alias |-> "absent"]
    /\ kind = [a \in Alias |-> None]
    /\ inUse = {}

\* models that take memory, also while they come or go
Memory(role) == {a \in Alias : phase[a] # "absent" /\ kind[a] = role}

BeginLoad(a, role) ==
    /\ phase[a] = "absent" /\ a \notin inUse
    /\ \A b \in Alias : phase[b] # "loading"
    /\ Cap[role] > 0 => Cardinality(Memory(role)) < Cap[role]
    /\ phase' = [phase EXCEPT ![a] = "loading"]
    /\ kind' = [kind EXCEPT ![a] = role]
    /\ UNCHANGED inUse

\* a chat or embed that loaded the model may go on to use it at once
EndLoad(a) ==
    /\ phase[a] = "loading"
    /\ phase' = [phase EXCEPT ![a] = "resident"]
    /\ inUse' \in {inUse, inUse \cup {a}}
    /\ UNCHANGED kind

Vanishes(a) ==
    /\ phase' = [phase EXCEPT ![a] = "absent"]
    /\ kind' = [kind EXCEPT ![a] = None]
    /\ UNCHANGED inUse

FailLoad(a) == phase[a] = "loading" /\ Vanishes(a)

BeginUnload(a) ==
    /\ phase[a] = "resident" /\ a \notin inUse
    /\ phase' = [phase EXCEPT ![a] = "unloading"]
    /\ UNCHANGED <<kind, inUse>>

EndUnload(a) == phase[a] = "unloading" /\ Vanishes(a)

\* (a handler may still hold the object of a model that is gone)
BeginUse(a) ==
    /\ phase[a] \in {"absent", "resident"} /\ a \notin inUse
    /\ inUse' = inUse \cup {a}
    /\ UNCHANGED <<phase, kind>>

EndUse(a) ==
    /\ a \in inUse
    /\ inUse' = inUse \ {a}
    /\ UNCHANGED <<phase, kind>>

Next ==
    \E a \in Alias :
        \/ \E role \in Role : BeginLoad(a, role)
        \/ EndLoad(a) \/ FailLoad(a) \/ BeginUnload(a) \/ EndUnload(a)
        \/ BeginUse(a) \/ EndUse(a)

Spec == Init /\ [][Next]_vars
=============================================================================
