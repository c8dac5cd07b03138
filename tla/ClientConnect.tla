---------------------------- MODULE ClientConnect ----------------------------
(***************************************************************************)
(* LLMClient._request, by which every chirp command talks to chirpd:       *)
(* connect, spawn the daemon if nobody listens, say hello, and start over  *)
(* once if the daemon answers with another protocol version.  Each client  *)
(* is a process of its own that makes one call.                            *)
(*                                                                         *)
(* The clients take the place of the environment of DaemonProcess: every   *)
(* step here is one of DaemonProcess, or leaves its variables alone.       *)
(***************************************************************************)
EXTENDS DaemonProcess

CONSTANTS
    NoSpawn,    \* clients that call with spawn_if_absent=False
    Large,      \* clients whose request may be more than the socket takes at once
    Impatient,  \* deadlines may pass at any moment, not only when waiting is vain
    Mishaps     \* daemons may be killed or fail to start

ASSUME ClientAssumptions ==
    /\ NoSpawn \subseteq Client
    /\ Large \subseteq Client
    /\ Impatient \in BOOLEAN
    /\ Mishaps \in BOOLEAN

VARIABLES
    cpc,        \* what each call waits for, see CallState
    cver,       \* the version of the client's code
    attempted,  \* attempted_respawn
    child,      \* the process it has spawned, while it polls for it
    outcome,    \* how the call ended
    installed   \* the version of the chirpd on PATH

cvars == <<cpc, cver, attempted, child, outcome, installed>>
vars == <<dvars, cvars>>

(* "open": about to connect.  "spawn", "poll", "reopen", "reap": inside       *)
(* _open_connection and _spawn_daemon.  "hello", "request": an event is       *)
(* awaited.  "drain", "close": writer.drain() and wait_closed() wait until    *)
(* the daemon reads more of the request.  "gone": _wait_for_socket_gone.      *)
CallState == {"idle", "open", "spawn", "poll", "reap", "reopen", "hello",
              "gone", "drain", "request", "close", "done"}
Outcome == {"ok", "error", "lost", "timeout", "unreachable", "spawn_failed",
            "version_mismatch"}

\* no process is left that will ever listen
Hopeless == \A d \in Daemon : dpc[d] \in {"dead", "closing", "leaving"}

ClientInit ==
    /\ Init
    /\ cpc = [c \in Client |-> "idle"]
    /\ attempted = [c \in Client |-> FALSE]
    /\ child = [c \in Client |-> None]
    /\ outcome = [c \in Client |-> None]
    /\ installed \in Version /\ \A d \in Daemon : ver[d] <= installed
    /\ cver = [c \in Client |-> installed]

Goes(c, to) ==
    /\ cpc' = [cpc EXCEPT ![c] = to]
    /\ UNCHANGED <<cver, attempted, child, outcome, installed>>

\* MUTANT of Ends: the child is not forgotten
EndsKeepingChild(c, how) ==
    /\ cpc' = [cpc EXCEPT ![c] = "done"]
    /\ outcome' = [outcome EXCEPT ![c] = how]
    /\ UNCHANGED <<cver, attempted, child, installed>>

\* the call returns or raises; a process it spawned is left to itself
Ends(c, how) ==
    /\ cpc' = [cpc EXCEPT ![c] = "done"]
    /\ outcome' = [outcome EXCEPT ![c] = how]
    /\ child' = [child EXCEPT ![c] = None]
    /\ UNCHANGED <<cver, attempted, installed>>

\* a process starts with the installed code
Call(c) ==
    /\ cpc[c] = "idle"
    /\ cpc' = [cpc EXCEPT ![c] = "open"]
    /\ cver' = [cver EXCEPT ![c] = installed]
    /\ UNCHANGED <<dvars, attempted, child, outcome, installed>>

-----------------------------------------------------------------------------
(* _open_connection and _spawn_daemon *)

Opens(c) ==
    /\ cpc[c] \in {"open", "reopen"}
    /\ Connect(c, cver[c])
    /\ Goes(c, "hello")

OpenFails(c) ==
    /\ cpc[c] = "open" /\ ~Reachable
    /\ IF c \in NoSpawn THEN Ends(c, "unreachable") ELSE Goes(c, "spawn")
    /\ UNCHANGED dvars

Spawns(c) ==
    /\ cpc[c] = "spawn"
    /\ \E d \in Daemon :
        /\ \A e \in Client : child[e] # d /\ conn[e].srv # d     \* a name nobody refers to
        /\ Spawn(d, installed)
        /\ child' = [child EXCEPT ![c] = d]
    /\ cpc' = [cpc EXCEPT ![c] = "poll"]
    /\ UNCHANGED <<cver, attempted, outcome, installed>>

\* Popen raises
SpawnFails(c) ==
    /\ cpc[c] = "spawn" /\ Mishaps
    /\ Ends(c, "spawn_failed")
    /\ UNCHANGED dvars

\* the probe connection is closed without a line, which the daemon ignores
PollSees(c) ==
    /\ cpc[c] = "poll" /\ Reachable
    /\ cpc' = [cpc EXCEPT ![c] = "reopen"]
    /\ child' = [child EXCEPT ![c] = None]
    /\ UNCHANGED <<dvars, cver, attempted, outcome, installed>>

\* _reap_failed_spawn: nothing to do if the child has exited, else SIGTERM
Reaps(c) ==
    IF dpc[child[c]] = "dead"
    THEN Ends(c, "spawn_failed") /\ UNCHANGED dvars
    ELSE Goes(c, "reap") /\ Sigterm(child[c])

\* MUTANT of PollTimesOut: the loser of the lock is taken for a failure
PollGivesUp(c) ==
    /\ cpc[c] = "poll" /\ (dpc[child[c]] = "dead" \/ Hopeless)
    /\ Reaps(c)

\* the deadline passes after a probe that failed
PollTimesOut(c) ==
    /\ cpc[c] = "poll" /\ (Impatient \/ Hopeless)
    /\ Reaps(c)

Reaped(c) ==
    /\ cpc[c] = "reap" /\ dpc[child[c]] = "dead"
    /\ Ends(c, "spawn_failed")
    /\ UNCHANGED dvars

\* the child outlives the second it is given, and is killed
ReapKills(c) ==
    /\ cpc[c] = "reap"
    /\ Crash(child[c])
    /\ Ends(c, "spawn_failed")

\* the daemon that answered the probe is gone: the call fails
ReopenFails(c) ==
    /\ cpc[c] = "reopen" /\ ~Reachable
    /\ Ends(c, "unreachable") \/ Ends(c, "spawn_failed")
    /\ UNCHANGED dvars

-----------------------------------------------------------------------------
(* hello, the request and its answer *)

SaysRequest(c) ==
    /\ cpc[c] = "hello"
    /\ Ask(c)
    /\ Goes(c, "request")

\* the socket takes a part of the line: drain() waits, or leaves the rest, if it
\* is short enough, to the transport
SaysPart(c) ==
    /\ cpc[c] = "hello" /\ c \in Large
    /\ conn[c].st = "ready"
    /\ Goes(c, "drain") \/ Goes(c, "request")
    /\ UNCHANGED dvars

\* the rest is with the transport and the line has yet to be complete
Unsent(c) == cpc[c] \in {"drain", "request", "close"} /\ conn[c].st = "ready"

\* the daemon reads on: drain() returns, then the line is complete
Reads(c) ==
    /\ Unsent(c) /\ Handles(c, "ready")
    /\ IF cpc[c] = "drain"
       THEN Goes(c, "request") /\ UNCHANGED dvars
       ELSE Ask(c) /\ UNCHANGED cvars

\* the daemon has another version: once, the call starts over
Mismatched(c) ==
    IF attempted[c]
    THEN Ends(c, "version_mismatch")
    ELSE /\ cpc' = [cpc EXCEPT ![c] = "gone"]
         /\ attempted' = [attempted EXCEPT ![c] = TRUE]
         /\ UNCHANGED <<cver, child, outcome, installed>>

HelloRefused(c) ==
    /\ cpc[c] = "hello" /\ conn[c].st = "mismatch"
    /\ HangUp(c)
    /\ Mismatched(c)

\* MUTANT of GoneSees: the client removes the socket file for the daemon
GoneUnlinks(c) ==
    /\ cpc[c] = "gone" /\ ~Reachable
    /\ sock' = None
    /\ Goes(c, "open")
    /\ UNCHANGED <<dpc, ver, stopping, flock, conn, thread>>

GoneSees(c) ==
    /\ cpc[c] = "gone" /\ ~Reachable
    /\ Goes(c, "open")
    /\ UNCHANGED dvars

\* in vain: the daemon that listens is not about to leave
GoneTimesOut(c) ==
    /\ cpc[c] = "gone" /\ Reachable
    /\ Impatient \/ ~stopping[sock]
    /\ Ends(c, "unreachable")
    /\ UNCHANGED dvars

Answered(c) ==
    /\ cpc[c] = "request" /\ conn[c].st \in {"ok", "error"}
    /\ Ends(c, conn[c].st)
    /\ UNCHANGED dvars

\* MUTANT of Lost: a broken connection is retried as well
LostAgain(c) ==
    /\ cpc[c] \in {"hello", "request"} /\ conn[c].st = "eof"
    /\ Mismatched(c)
    /\ UNCHANGED dvars

Lost(c) ==
    /\ cpc[c] \in {"hello", "drain", "request"} /\ conn[c].st = "eof"
    /\ Ends(c, "lost")
    /\ UNCHANGED dvars

\* MUTANT of TimesOut: an answer is awaited without a deadline
TimesOutInHello(c) ==
    /\ cpc[c] = "hello" /\ conn[c].st \in Open /\ Impatient
    /\ Ends(c, "timeout")
    /\ UNCHANGED dvars

\* every read has a deadline, the first one after a request included; drain()
\* has none, nor has the wait for the writer to close before the call ends
TimesOut(c) ==
    /\ cpc[c] \in {"hello", "request"} /\ conn[c].st \in Open /\ Impatient
    /\ IF Unsent(c) THEN Goes(c, "close") ELSE Ends(c, "timeout")
    /\ UNCHANGED dvars

\* what was unsent has been read, or the connection is lost
Closed(c) ==
    /\ cpc[c] = "close" /\ ~Unsent(c)
    /\ Ends(c, "timeout")
    /\ UNCHANGED dvars

ClientStep(c) ==
    \/ Opens(c) \/ OpenFails(c) \/ Spawns(c) \/ SpawnFails(c)
    \/ PollSees(c) \/ PollTimesOut(c) \/ Reaped(c) \/ ReapKills(c) \/ ReopenFails(c)
    \/ SaysRequest(c) \/ SaysPart(c) \/ HelloRefused(c) \/ GoneSees(c) \/ GoneTimesOut(c)
    \/ Answered(c) \/ Lost(c) \/ TimesOut(c) \/ Closed(c)

\* the connection of a call that ended is closed
Closes(c) ==
    /\ cpc[c] = "done"
    /\ HangUp(c)
    /\ UNCHANGED cvars

\* chirp is upgraded under running daemons and clients
Upgrade ==
    /\ \E v \in Version : v > installed /\ installed' = v
    /\ UNCHANGED <<dvars, cpc, cver, attempted, child, outcome>>

Mishap(d) ==
    /\ Mishaps
    /\ SetupFails(d) \/ Crash(d)
    /\ UNCHANGED cvars

DaemonRuns(d) == Runs(d) /\ UNCHANGED cvars
DaemonHandles(c) == (Handler(c) /\ UNCHANGED cvars) \/ Reads(c)

\* every call has ended and no process is on its way up or down
Quiet ==
    /\ \A c \in Client : cpc[c] = "done" /\ conn[c].st = "none" /\ thread[c] = None
    /\ \A d \in Daemon : dpc[d] \in {"dead", "serving"} /\ (dpc[d] = "serving" => ~stopping[d])
    /\ UNCHANGED vars

Next ==
    \/ \E c \in Client : Call(c) \/ ClientStep(c) \/ Closes(c) \/ DaemonHandles(c)
    \/ \E d \in Daemon : DaemonRuns(d) \/ Mishap(d)
    \/ Upgrade
    \/ Quiet

Spec == ClientInit /\ [][Next]_vars

\* a call's own steps, its deadlines among them, do not depend on the daemon, but
\* for Reads
CallsRun == \A c \in Client : WF_vars(ClientStep(c))

\* the operating system runs the daemons, threads end, closed connections are noticed
DaemonsRun ==
    /\ \A d \in Daemon : WF_vars(DaemonRuns(d))
    /\ \A c \in Client : WF_vars(DaemonHandles(c)) /\ WF_vars(Closes(c))

CallSpec == Spec /\ CallsRun
FairSpec == Spec /\ CallsRun /\ DaemonsRun
-----------------------------------------------------------------------------
(* Properties *)

CallTypeOK ==
    /\ cpc \in [Client -> CallState]
    /\ cver \in [Client -> Version] /\ installed \in Version
    /\ attempted \in [Client -> BOOLEAN]
    /\ child \in [Client -> Daemon \cup {None}]
    /\ outcome \in [Client -> Outcome \cup {None}]
    /\ \A c \in Client : child[c] # None <=> cpc[c] \in {"poll", "reap"}

\* Types; a call has a child exactly while it polls or reaps it.
ClientTypeOK == DaemonTypeOK /\ CallTypeOK

\* The clients are an environment the daemons were proved for: each of their
\* steps is one DaemonProcess allows.
ImplementsDaemon == DaemonSpec

\* A call ends, even if the daemons do nothing at all, unless the daemon never
\* reads the rest of its request: no other wait is unbounded, and the call starts
\* over only once (client.py:394-432, 597-635).
CallEnds ==
    \A c \in Client : \/ cpc[c] = "open" ~> cpc[c] = "done"
                      \/ <>[](Unsent(c) /\ cpc[c] \in {"drain", "close"})

\* tests/llm/test_client.py:484: "A daemon that completes hello then never emits a
\* delta must not hang": the call ends all the same (client.py:428, 609, 683).
NeverHangs == \A c \in Client : cpc[c] = "open" ~> cpc[c] = "done"

\* A request is begun by one daemon at most: once a handler works on it, the
\* call neither connects nor asks again, on whatever path it fails (FR20,
\* client.py:414-432).
AtMostOnce ==
    \A c \in Client :
        [](conn[c].st = "working" => [](conn[c].st \notin {"hello", "ready", "asked"}))

\* Calls that find nobody, or the socket file of a daemon that was killed, may
\* race to spawn one: as long as all the code has one version, each of them is
\* answered by the winner of the lock (FR19, NFR-R3; client.py:493-539,
\* lifecycle.py:36-41).
OneVersion ==
    /\ \A d \in Daemon : ver[d] = installed
    /\ \A c \in Client : cver[c] = installed /\ ~attempted[c]
LazySpawnWorks ==
    OneVersion => \A c \in Client : cpc[c] = "done" => outcome[c] \in {"ok", "error"}

\* A daemon that told a client of a version mismatch is soon gone, lock and all,
\* whatever its other connections do (FR14; server.py:256, 54-70).
MismatchVacates ==
    \A d \in Daemon :
        (\E c \in Client : conn[c].st = "mismatch" /\ conn[c].srv = d) ~> dpc[d] = "dead"

\* FR14 (prd.md:467): "the client's one-shot retry against the respawned daemon
\* succeeds": a retry finds a daemon (client.py:430-432).
RetryFindsDaemon ==
    \A c \in Client : cpc[c] = "done" /\ attempted[c] => outcome[c] # "spawn_failed"

\* FR14 again: the retry reaches the daemon that another client has spawned in
\* the meantime, rather than wait for it to go away (client.py:550-574).
RetryReaches ==
    \A c \in Client : cpc[c] = "done" /\ attempted[c] => outcome[c] # "unreachable"
=============================================================================
