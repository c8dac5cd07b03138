---------------------------- MODULE DaemonService ----------------------------
(***************************************************************************)
(* What the single-instance rule of chirpd promises, without sockets,      *)
(* locks or process states: at most one daemon is in charge; requests are  *)
(* handled, and threads compute, only under it; and it hands over only     *)
(* when nothing of its own is left running, unless it dies on the spot.    *)
(* DaemonProcess implements this specification.                            *)
(***************************************************************************)
CONSTANTS
    Daemon,     \* daemon processes
    Client,     \* connections, by the client that holds them
    None        \* no daemon is in charge

VARIABLES
    owner,      \* the daemon in charge
    working,    \* clients whose request is being handled
    busy        \* clients for whose request a thread is at work

vars == <<owner, working, busy>>

Init == owner = None /\ working = {} /\ busy = {}

\* the program may also be looked at when a daemon is already up
Running == owner \in Daemon /\ working = {} /\ busy = {}

TakesOver(d) ==
    /\ owner = None
    /\ owner' = d
    /\ UNCHANGED <<working, busy>>

Begins(c) ==
    /\ owner # None
    /\ working' = working \cup {c}
    /\ busy' \in {busy, busy \cup {c}}
    /\ UNCHANGED owner

\* answered, or cut off without an answer
End(cs) ==
    /\ working' = working \ cs
    /\ UNCHANGED <<owner, busy>>

ThreadEnds(c) ==
    /\ busy' = busy \ {c}
    /\ UNCHANGED <<owner, working>>

Retires ==
    /\ owner # None
    /\ working = {} /\ busy = {}
    /\ owner' = None
    /\ UNCHANGED <<working, busy>>

\* a killed process takes its connections and its threads with it
Dies ==
    /\ owner # None
    /\ owner' = None /\ working' = {} /\ busy' = {}

Next ==
    \/ \E d \in Daemon : TakesOver(d)
    \/ \E c \in Client : Begins(c) \/ ThreadEnds(c)
    \/ \E cs \in SUBSET Client : End(cs)
    \/ Retires \/ Dies

Spec == (Init \/ Running) /\ [][Next]_vars
=============================================================================
