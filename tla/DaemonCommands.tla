---------------------------- MODULE DaemonCommands ----------------------------
(***************************************************************************)
(* The commands that start and stop chirpd by hand (chirp daemon start,    *)
(* stop, restart, status; the restart of a stale daemon in chirp init) and *)
(* the ones that hand it to launchd (enable, disable, the offer of chirp   *)
(* init).  Each is a process that looks, acts and looks again, beside      *)
(* other commands, the clients that spawn a daemon when nobody listens,    *)
(* and launchd, which starts one over when it crashes.                     *)
(*                                                                         *)
(* A daemon is what DaemonProcess promises of one: it listens only under   *)
(* the lock, and never again once it has been told to stop.                *)
(***************************************************************************)
EXTENDS Naturals, FiniteSets

CONSTANTS
    Daemon,     \* chirpd processes
    Shell,      \* one command each
    Jobs,       \* what they run, a subset of Job
    Mischief,   \* kills, failed writes and hung launchctl calls there may be
    None

Job == {"start", "stop", "restart", "heal", "status",
        "enable", "force", "offer", "disable"}

VARIABLES
    dst,        \* the processes: "starting", "up", "told" (SIGTERM is pending),
                \* "closing" (the socket is gone, the lock is held), "dead"
    old,        \* those that run code older than the installed one
    plist,      \* the LaunchAgent's plist is on disk
    loaded,     \* launchd has the agent
    agent,      \* the process launchd has started for it
    crashed,    \* that process exited non-zero
    cmd,        \* per shell: the job, where it is, the pid it found, the pid it
                \* leaves running, whether a plist was there, what it reports
    mischief    \* mishaps so far

daemonVars == <<dst, old>>
agentVars == <<plist, loaded, agent, crashed>>
controlVars == <<daemonVars, agentVars, cmd, mischief>>

Idle == [job |-> None, pc |-> "idle", found |-> None, new |-> None,
         existed |-> FALSE, report |-> None]

Listens(d) == dst[d] \in {"up", "told"}
Accepting == \E d \in Daemon : Listens(d)
Locked == \E d \in Daemon : dst[d] \in {"up", "told", "closing"}

\* A plist that was written and never loaded may be left from before.
ControlInit ==
    /\ dst \in [Daemon -> {"dead", "up"}]
    /\ Cardinality({d \in Daemon : dst[d] = "up"}) <= 1
    /\ old \in SUBSET {d \in Daemon : dst[d] = "up"}
    /\ plist \in BOOLEAN /\ loaded \in BOOLEAN /\ (loaded => plist)
    /\ agent \in {d \in Daemon : dst[d] = "up" /\ loaded} \cup {None}
    /\ crashed = FALSE
    /\ cmd = [c \in Shell |-> Idle]
    /\ mischief = 0

Mishap == mischief < Mischief /\ mischief' = mischief + 1

-----------------------------------------------------------------------------
(* chirpd, seen from outside, and launchd *)

\* A process launchd has started and nobody remembers the pid of.
Free(d) ==
    /\ dst[d] = "dead"
    /\ \A c \in Shell : d \notin {cmd[c].found, cmd[c].new}

Spawn(d) ==
    /\ Free(d)
    /\ dst' = [dst EXCEPT ![d] = "starting"]
    /\ UNCHANGED old

\* d ends; KeepAlive = {SuccessfulExit: False} makes launchd look at how.
Exits(d, zero) ==
    /\ dst' = [dst EXCEPT ![d] = "dead"]
    /\ old' = old \ {d}
    /\ agent' = IF agent = d THEN None ELSE agent
    /\ crashed' = (crashed \/ (agent = d /\ ~zero))
    /\ UNCHANGED <<plist, loaded>>

\* MUTANT of ComesUp: the lock is not taken
ComesUpAnyway(d) ==
    /\ dst[d] = "starting"
    /\ dst' = [dst EXCEPT ![d] = "up"]
    /\ UNCHANGED <<old, agentVars, cmd, mischief>>

\* single_instance_lock: the loser exits 0; the winner binds and listens.
ComesUp(d) ==
    /\ dst[d] = "starting"
    /\ IF Locked
       THEN Exits(d, TRUE)
       ELSE /\ dst' = [dst EXCEPT ![d] = "up"]
            /\ UNCHANGED <<old, agentVars>>
    /\ UNCHANGED <<cmd, mischief>>

\* After a SIGTERM, or for a client of another version: the socket goes first.
Closing(d) ==
    /\ Listens(d)
    /\ dst' = [dst EXCEPT ![d] = "closing"]
    /\ UNCHANGED <<old, agentVars, cmd, mischief>>

Leaves(d) ==
    /\ dst[d] = "closing"
    /\ Exits(d, TRUE)
    /\ UNCHANGED <<cmd, mischief>>

Crashes(d) ==
    /\ dst[d] # "dead" /\ Mishap
    /\ Exits(d, FALSE)
    /\ UNCHANGED cmd

\* launchd restarts what exited non-zero, and nothing else.
Restarts(d) ==
    /\ loaded /\ crashed
    /\ Spawn(d)
    /\ agent' = d /\ crashed' = FALSE
    /\ UNCHANGED <<plist, loaded, cmd, mischief>>

\* any other chirp command that finds nobody listening
LazySpawns(d) ==
    /\ ~Accepting /\ \A e \in Daemon : dst[e] # "starting"
    /\ Spawn(d)
    /\ UNCHANGED <<agentVars, cmd, mischief>>

Told(d) == [dst EXCEPT ![d] = IF @ = "up" THEN "told"
                              ELSE IF @ = "starting" THEN "dead" ELSE @]
-----------------------------------------------------------------------------
(* The commands *)

At(c, pc) == cmd[c].pc = pc
Goes(c, to) == cmd' = [cmd EXCEPT ![c].pc = to]
Reports(c, what) == cmd' = [cmd EXCEPT ![c].pc = "done", ![c].report = what]

First(job) ==
    CASE job = "start" -> "probe"
      [] job \in {"stop", "restart"} -> "ask"
      [] job \in {"heal", "status"} -> "health"
      [] OTHER -> "check"

Begins(c) ==
    /\ At(c, "idle")
    /\ \E job \in Jobs :
        cmd' = [cmd EXCEPT ![c].job = job, ![c].pc = First(job)]
    /\ UNCHANGED <<daemonVars, agentVars, mischief>>

\* Ctrl-C: whatever was done so far stays done.
Interrupted(c) ==
    /\ cmd[c].pc \notin {"idle", "done"} /\ Mishap
    /\ Reports(c, "killed")
    /\ UNCHANGED <<daemonVars, agentVars>>

(* health and model.status are two connections: they may reach two daemons. *)

Health(c) ==
    /\ At(c, "health") /\ cmd[c].job = "status"
    /\ \/ \E d \in Daemon :
            /\ Listens(d)
            /\ cmd' = [cmd EXCEPT ![c].pc = "status", ![c].found = d]
       \/ ~Accepting /\ Reports(c, "unreachable")
    /\ UNCHANGED <<daemonVars, agentVars, mischief>>

\* chirp init: a daemon of another version is stopped and started.
SeesStale(c) ==
    /\ At(c, "health") /\ cmd[c].job = "heal"
    /\ \/ \E d \in Daemon :
            /\ Listens(d)
            /\ IF d \in old THEN Goes(c, "ask") ELSE Reports(c, "current")
       \/ ~Accepting /\ Reports(c, "unreachable")
    /\ UNCHANGED <<daemonVars, agentVars, mischief>>

Status(c) ==
    /\ At(c, "status")
    /\ \/ \E d \in Daemon :
            /\ Listens(d)
            /\ cmd' = [cmd EXCEPT ![c].pc = "done", ![c].new = d,
                                  ![c].report = "running"]
       \/ ~Accepting /\ Reports(c, "unreachable")
    /\ UNCHANGED <<daemonVars, agentVars, mischief>>

(* _attempt_stop *)

Down(c) == IF cmd[c].job = "stop" THEN Reports(c, "stopped") ELSE Goes(c, "probe")

Asked(c) ==
    /\ At(c, "ask")
    /\ \/ \E d \in Daemon :
            /\ Listens(d)
            /\ cmd' = [cmd EXCEPT ![c].pc = "term", ![c].found = d]
       \/ /\ ~Accepting
          /\ IF cmd[c].job = "stop" THEN Reports(c, "not_running") ELSE Goes(c, "probe")
    /\ UNCHANGED <<daemonVars, agentVars, mischief>>

\* The pid is trusted: the process may be gone, never be another one.
Terms(c) ==
    /\ At(c, "term")
    /\ dst' = Told(cmd[c].found)
    /\ Goes(c, "vacate")
    /\ UNCHANGED <<old, agentVars, mischief>>

\* MUTANT of Vacated: it does not wait for the socket
VacatedAtOnce(c) ==
    /\ At(c, "vacate")
    /\ Down(c)
    /\ UNCHANGED <<daemonVars, agentVars, mischief>>

Vacated(c) ==
    /\ At(c, "vacate") /\ ~Accepting
    /\ Down(c)
    /\ UNCHANGED <<daemonVars, agentVars, mischief>>

\* Five seconds pass, and somebody still accepts.
StopTimesOut(c) ==
    /\ At(c, "vacate") /\ Accepting
    /\ Goes(c, "overdue")
    /\ UNCHANGED <<daemonVars, agentVars, mischief>>

Kills(c) ==
    /\ At(c, "overdue") /\ dst[cmd[c].found] # "dead"
    /\ Exits(cmd[c].found, FALSE)
    /\ Reports(c, "failed")
    /\ UNCHANGED mischief

\* Nobody to kill: it left just now, or somebody else listens by now.
KillsNobody(c) ==
    /\ At(c, "overdue") /\ dst[cmd[c].found] = "dead"
    /\ IF Accepting THEN Reports(c, "failed") ELSE Down(c)
    /\ UNCHANGED <<daemonVars, agentVars, mischief>>

(* _attempt_start *)

Running(c, d) ==
    cmd' = [cmd EXCEPT ![c].pc = "done", ![c].new = d,
                       ![c].report = IF cmd[c].job = "start" THEN "started" ELSE "restarted"]

Probed(c) ==
    /\ At(c, "probe")
    /\ \/ \E d \in Daemon : Listens(d) /\ Running(c, d)
       \/ ~Accepting /\ Goes(c, "spawn")
    /\ UNCHANGED <<daemonVars, agentVars, mischief>>

Spawns(c) ==
    /\ At(c, "spawn")
    /\ \E d \in Daemon : Spawn(d)
    /\ Goes(c, "await")
    /\ UNCHANGED <<agentVars, mischief>>

\* chirpd is not on PATH, or Popen raises
SpawnFails(c) ==
    /\ At(c, "spawn") /\ Mishap
    /\ Reports(c, "failed")
    /\ UNCHANGED <<daemonVars, agentVars>>

Awaited(c) ==
    /\ At(c, "await")
    /\ IF Accepting THEN Goes(c, "confirm") ELSE Reports(c, "failed")
    /\ UNCHANGED <<daemonVars, agentVars, mischief>>

Confirmed(c) ==
    /\ At(c, "confirm")
    /\ \/ \E d \in Daemon : Listens(d) /\ Running(c, d)
       \/ ~Accepting /\ Reports(c, "failed")
    /\ UNCHANGED <<daemonVars, agentVars, mischief>>

\* The daemon closes under a probe: only an absent one is expected.
ProbeBreaks(c) ==
    /\ cmd[c].pc \in {"ask", "probe", "confirm"}
    /\ \E d \in Daemon : dst[d] = "closing"
    /\ Reports(c, "broken")
    /\ UNCHANGED <<daemonVars, agentVars, mischief>>
-----------------------------------------------------------------------------
(* install_launch_agent, uninstall_launch_agent *)

ChecksToInstall(c) ==
    /\ At(c, "check") /\ cmd[c].job \in {"enable", "force"}
    /\ IF plist /\ cmd[c].job = "enable"
       THEN Reports(c, "already")
       ELSE cmd' = [cmd EXCEPT ![c].pc = "write", ![c].existed = plist]
    /\ UNCHANGED <<daemonVars, agentVars, mischief>>

ChecksToRemove(c) ==
    /\ At(c, "check") /\ cmd[c].job = "disable"
    /\ IF plist THEN Goes(c, "remove") ELSE Reports(c, "absent")
    /\ UNCHANGED <<daemonVars, agentVars, mischief>>

\* chirp init asks unless the agent is loaded; whoever says yes forces it.
Offers(c) ==
    /\ At(c, "check") /\ cmd[c].job = "offer"
    /\ IF plist /\ loaded
       THEN Reports(c, "already")
       ELSE cmd' = [cmd EXCEPT ![c].job = "force"]
    /\ UNCHANGED <<daemonVars, agentVars, mischief>>

\* The temporary file has one name for all: who moves or removes it takes it from
\* every other command that has written it.
Takes(c, what) ==
    cmd' = [e \in Shell |-> IF e = c THEN what
                           ELSE IF At(e, "place") THEN [cmd[e] EXCEPT !.pc = "gone"]
                           ELSE cmd[e]]
Failed(c) == [cmd[c] EXCEPT !.pc = "done", !.report = "failed"]

WritesTemp(c) ==
    /\ At(c, "write")
    /\ Goes(c, "place")
    /\ UNCHANGED <<daemonVars, agentVars, mischief>>

Writes(c) ==
    /\ At(c, "place")
    /\ plist' = TRUE
    /\ Takes(c, [cmd[c] EXCEPT !.pc = IF cmd[c].existed THEN "unload" ELSE "load"])
    /\ UNCHANGED <<daemonVars, loaded, agent, crashed, mischief>>

WriteFails(c) ==
    /\ \/ At(c, "gone") /\ UNCHANGED mischief
       \/ cmd[c].pc \in {"write", "place"} /\ Mishap
    /\ Takes(c, Failed(c))
    /\ UNCHANGED <<daemonVars, agentVars>>

\* launchctl unload: the job's process is told to stop, and not started again.
Unloaded ==
    /\ loaded /\ plist
    /\ loaded' = FALSE /\ agent' = None /\ crashed' = FALSE
    /\ dst' = IF agent = None THEN dst ELSE Told(agent)
    /\ UNCHANGED <<old, plist>>

\* launchctl load: RunAtLoad.
Loaded ==
    /\ plist /\ ~loaded
    /\ loaded' = TRUE /\ crashed' = FALSE
    /\ \E d \in Daemon : Spawn(d) /\ agent' = d
    /\ UNCHANGED plist

\* How it fared is not looked at.
Unloads(c) ==
    /\ At(c, "unload")
    /\ Unloaded \/ (~(loaded /\ plist) /\ UNCHANGED <<daemonVars, agentVars>>)
    /\ Goes(c, "load")
    /\ UNCHANGED mischief

\* Of an agent that is loaded already, launchctl may say so, or fail; and it fails
\* on a plist that another command has not finished.
Loads(c) ==
    /\ At(c, "load")
    /\ \/ Loaded /\ Goes(c, "verify")
       \/ /\ ~plist \/ loaded \/ \E e \in Shell : At(e, "gone")
          /\ (loaded /\ Goes(c, "verify")) \/ Reports(c, "failed")
          /\ UNCHANGED <<daemonVars, agentVars>>
    /\ UNCHANGED mischief

Verifies(c) ==
    /\ At(c, "verify")
    /\ Reports(c, IF loaded THEN "installed" ELSE "failed")
    /\ UNCHANGED <<daemonVars, agentVars, mischief>>

\* launchctl hangs and is killed after ten seconds, its work done or not.
Hangs(c) ==
    /\ cmd[c].pc \in {"unload", "load", "verify", "remove", "absent"} /\ Mishap
    /\ \/ cmd[c].pc \in {"unload", "remove"} /\ Unloaded
       \/ At(c, "load") /\ Loaded
       \/ UNCHANGED <<daemonVars, agentVars>>
    /\ Reports(c, "failed")

\* The plist stays if launchctl fails; it may say it did and the agent stays loaded.
Removes(c) ==
    /\ At(c, "remove")
    /\ \/ Unloaded /\ Goes(c, "unlink") /\ UNCHANGED mischief
       \/ /\ (~(loaded /\ plist) /\ UNCHANGED mischief) \/ Mishap
          /\ Goes(c, "unlink") \/ Reports(c, "failed")
          /\ UNCHANGED <<daemonVars, agentVars>>

\* Another disable was faster: the exception is nobody's.
Unlinks(c) ==
    /\ At(c, "unlink")
    /\ plist' = FALSE
    /\ IF plist THEN Goes(c, "absent") ELSE Reports(c, "broken")
    /\ UNCHANGED <<daemonVars, loaded, agent, crashed, mischief>>

SeesAbsent(c) ==
    /\ At(c, "absent")
    /\ Reports(c, IF loaded THEN "failed" ELSE "removed")
    /\ UNCHANGED <<daemonVars, agentVars, mischief>>

StopStep(c) ==
    \/ Asked(c) \/ Terms(c) \/ Vacated(c) \/ StopTimesOut(c) \/ Kills(c) \/ KillsNobody(c)
StartStep(c) ==
    \/ Probed(c) \/ Spawns(c) \/ SpawnFails(c) \/ Awaited(c) \/ Confirmed(c)
AgentStep(c) ==
    \/ ChecksToInstall(c) \/ ChecksToRemove(c) \/ Offers(c)
    \/ WritesTemp(c) \/ Writes(c) \/ WriteFails(c) \/ Unloads(c) \/ Loads(c) \/ Verifies(c)
    \/ Hangs(c) \/ Removes(c) \/ Unlinks(c) \/ SeesAbsent(c)

ControlNext ==
    \/ \E c \in Shell :
        \/ Begins(c) \/ Interrupted(c) \/ Health(c) \/ Status(c) \/ SeesStale(c)
        \/ StopStep(c) \/ StartStep(c) \/ ProbeBreaks(c) \/ AgentStep(c)
    \/ \E d \in Daemon :
        \/ ComesUp(d) \/ Closing(d) \/ Leaves(d) \/ Crashes(d)
        \/ Restarts(d) \/ LazySpawns(d)
-----------------------------------------------------------------------------
ControlTypeOK ==
    /\ dst \in [Daemon -> {"starting", "up", "told", "closing", "dead"}]
    /\ Cardinality({d \in Daemon : dst[d] \in {"up", "told", "closing"}}) <= 1
    /\ old \subseteq {d \in Daemon : dst[d] # "dead"}
    /\ plist \in BOOLEAN /\ loaded \in BOOLEAN /\ crashed \in BOOLEAN
    /\ agent \in {d \in Daemon : dst[d] # "dead"} \cup {None}
    /\ \A c \in Shell :
        /\ cmd[c].job \in Job \cup {None} /\ cmd[c].existed \in BOOLEAN
        /\ {cmd[c].found, cmd[c].new} \subseteq Daemon \cup {None}
    /\ mischief \in 0 .. Mischief

\* The daemon a stop found never listens again once the stop has reported it
\* stopped, and a restart leaves another one running than it found, whatever
\* spawns, crashes and times out meanwhile (_attempt_stop, _attempt_start).
StopsForGood ==
    \A c \in Shell :
        /\ cmd[c].report \in {"stopped", "restarted"} /\ cmd[c].found # None
            => dst[cmd[c].found] \in {"closing", "dead"}
        /\ cmd[c].report = "restarted" => cmd[c].new # cmd[c].found

\* launchd is left with an agent that has no plist, which no later command finds,
\* only if some command has said that it failed (uninstall_launch_agent).
OrphanIsReported ==
    loaded /\ ~plist /\ (\A c \in Shell : cmd[c].pc \in {"idle", "done"})
        => \E c \in Shell : cmd[c].report \in {"failed", "killed", "broken"}
=============================================================================
