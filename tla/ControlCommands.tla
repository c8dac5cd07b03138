--------------------------- MODULE ControlCommands ---------------------------
(***************************************************************************)
(* The commands that look after chirp itself rather than after notes: the  *)
(* ones that run the daemon, the ones that rewrite the model registry, and *)
(* the one that follows the daemon's log.  They share no state but through *)
(* the daemon, which each of the three modules sees from outside, so each  *)
(* behaviour is about one of them.                                         *)
(***************************************************************************)
EXTENDS ModelRegistry

CONSTANTS
    Daemon, Jobs, Mischief,
    Inode       \* Clerk: the commands, and the processes that log

ASSUME ControlAssumptions ==
    None \notin Daemon \cup {"stopped", "restarted", "failed", "killed", "broken"}

VARIABLES
    part,       \* "daemon", "registry" or "log"
    dst, old, plist, loaded, agent, crashed, cmd, mischief,
    path, backup, handle, wpc, fpc, fh, inode

controlVars == <<dst, old, plist, loaded, agent, crashed, cmd, mischief>>
logVars == <<path, backup, handle, wpc, fpc, fh, inode>>
vars == <<part, controlVars, registryVars, logVars>>

Control == INSTANCE DaemonCommands WITH Shell <- Clerk
Log == INSTANCE LogFollow WITH Writer <- Clerk

\* What the commands run are jobs, the processes are finitely many, and so are the
\* kills and failures.
ASSUME JobAssumptions ==
    Jobs \subseteq Control!Job /\ IsFiniteSet(Daemon) /\ Mischief \in Nat

\* What a behaviour is not about stays in one of its initial states.
Init ==
    /\ part \in {"daemon", "registry", "log"}
    /\ Control!ControlInit /\ RegistryInit /\ Log!LogInit
    /\ part # "daemon" => ~plist /\ \A d \in Daemon : dst[d] = "dead"
    /\ part # "registry" => ~semantic /\ \A a \in Alias : toml.models[a] = None

Next ==
    \/ part = "daemon" /\ Control!ControlNext /\ UNCHANGED <<part, registryVars, logVars>>
    \/ part = "registry" /\ RegistryNext /\ UNCHANGED <<part, controlVars, logVars>>
    \/ part = "log" /\ Log!LogNext /\ UNCHANGED <<part, controlVars, registryVars>>

Spec == Init /\ [][Next]_vars
-----------------------------------------------------------------------------
\* The daemons, the agent, the registry, the files and what each command knows of
\* them are of their types; one daemon at most holds the lock, and the process of
\* launchd's job is alive (daemon.py, launchd.py, registry.py, logging_setup.py).
TypeOK ==
    /\ part \in {"daemon", "registry", "log"}
    /\ Control!ControlTypeOK /\ RegistryTypeOK /\ Log!LogTypeOK

\* What a command reports of the daemon and of its agent stays true: a daemon
\* reported stopped or replaced never listens again, and an agent that launchd
\* keeps without a plist was left by a command that has said it failed
\* (daemon.py:553-754, launchd.py:156-238).
ReportsAreTrue == Control!StopsForGood /\ Control!OrphanIsReported

\* However often, and by however many processes, the log is rotated between the
\* follower's open, its stat and its polls, the inode it compares the name with is
\* not that of a file it does not hold (daemon.py:1057-1107).
RotationIsNoticed == Log!RotationIsNoticed
=============================================================================
