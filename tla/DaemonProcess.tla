---------------------------- MODULE DaemonProcess ----------------------------
(***************************************************************************)
(* chirpd as operating system processes: main() takes the flock, serve()   *)
(* removes a stale socket file, binds, answers hello, hands requests to    *)
(* the dispatcher, and leaves on a version mismatch or a signal.           *)
(*                                                                         *)
(* Whoever starts daemons, connects, and sends signals is not in this      *)
(* module: Environment may do all of it at any moment.  ClientConnect puts *)
(* the LLM client in its place.                                            *)
(*                                                                         *)
(* A connection is named after its client.  Lines of the protocol are in   *)
(* the state of the connection: "hello" and "asked" are lines the daemon   *)
(* has yet to read.                                                        *)
(***************************************************************************)
EXTENDS Naturals, FiniteSets

CONSTANTS
    None,
    Daemon,             \* process names
    Client,
    Version,            \* values of PROTOCOL_VERSION
    WaitsForHandlers    \* asyncio's wait_closed() awaits open connections (Python >= 3.12)

ASSUME DaemonAssumptions ==
    /\ None \notin Daemon
    /\ Version \subseteq Nat
    /\ WaitsForHandlers \in BOOLEAN

VARIABLES
    dpc,        \* where each process is, see DaemonState
    ver,        \* the version of the code it runs
    stopping,   \* its shutdown event is set or its serve task cancelled
    flock,      \* who holds the lock file
    sock,       \* who bound the socket file at the path; None: no file
    conn,       \* the connection of each client
    thread      \* the daemon in which a thread works for a client's request

dvars == <<dpc, ver, stopping, flock, sock, conn, thread>>

(* "boot": before the flock.  "setup": main() under the flock.  "bound":     *)
(* listening, serve() not yet in its wait.  "closing": the listening socket  *)
(* is closed.  "leaving": serve() returned, asyncio.run() winds up.          *)
DaemonState == {"dead", "boot", "setup", "bound", "serving", "closing", "leaving"}
Owning == {"setup", "bound", "serving", "closing", "leaving"}
Bound == {"bound", "serving", "closing"}

ConnState == {"none", "hello", "ready", "mismatch", "asked", "working", "ok", "error", "eof"}
\* states in which a handler of the daemon has the connection open
Open == {"hello", "ready", "asked", "working"}

NoConn == [srv |-> None, st |-> "none", ver |-> 0]

Listening(d) == dpc[d] \in {"bound", "serving"}

\* MUTANT of Reachable: any path will do
ReachableAnyway == TRUE

\* connect() to the path succeeds
Reachable == sock # None /\ Listening(sock)

OpenAt(d) == {c \in Client : conn[c].srv = d /\ conn[c].st \in Open}
Cut(cs) == [c \in Client |-> IF c \in cs THEN [conn[c] EXCEPT !.st = "eof"] ELSE conn[c]]
Freed(d) == IF flock = d THEN None ELSE flock

\* no daemon, a stale socket file left by one that was killed, or one that serves
Init ==
    /\ sock \in Daemon \cup {None}
    /\ \E v \in Version : ver = [d \in Daemon |-> v]
    /\ \/ dpc = [d \in Daemon |-> "dead"] /\ flock = None
       \/ dpc = [d \in Daemon |-> IF d = sock THEN "serving" ELSE "dead"] /\ flock = sock
    /\ stopping = [d \in Daemon |-> FALSE]
    /\ conn = [c \in Client |-> NoConn]
    /\ thread = [c \in Client |-> None]

-----------------------------------------------------------------------------
(* A process comes up *)

\* MUTANT of WinsLock: the lock is taken whoever has it
WinsLockAnyway(d) ==
    /\ dpc[d] = "boot"
    /\ flock' = d
    /\ dpc' = [dpc EXCEPT ![d] = "setup"]
    /\ UNCHANGED <<ver, stopping, sock, conn, thread>>

\* single_instance_lock: non-blocking, the loser exits with 0
WinsLock(d) ==
    /\ dpc[d] = "boot" /\ flock = None
    /\ flock' = d
    /\ dpc' = [dpc EXCEPT ![d] = "setup"]
    /\ UNCHANGED <<ver, stopping, sock, conn, thread>>

LosesLock(d) ==
    /\ dpc[d] = "boot" /\ flock # None
    /\ dpc' = [dpc EXCEPT ![d] = "dead"]
    /\ UNCHANGED <<ver, stopping, flock, sock, conn, thread>>

\* reading the registry or binding raises; a stale socket may be gone by then
SetupFails(d) ==
    /\ dpc[d] = "setup"
    /\ dpc' = [dpc EXCEPT ![d] = "dead"]
    /\ flock' = Freed(d)
    /\ sock' \in {sock, None}
    /\ UNCHANGED <<ver, stopping, conn, thread>>

\* the stale socket is unlinked and the new one bound in one step of the loop
Binds(d) ==
    /\ dpc[d] = "setup"
    /\ dpc' = [dpc EXCEPT ![d] = "bound"]
    /\ sock' = d
    /\ UNCHANGED <<ver, stopping, flock, conn, thread>>

Serves(d) ==
    /\ dpc[d] = "bound"
    /\ dpc' = [dpc EXCEPT ![d] = "serving"]
    /\ UNCHANGED <<ver, stopping, flock, sock, conn, thread>>

-----------------------------------------------------------------------------
(* Connection handlers *)

Handles(c, st) ==
    /\ conn[c].st = st
    /\ conn[c].srv \in Daemon /\ dpc[conn[c].srv] \in {"serving", "closing"}

Moves(c, st) == conn' = [conn EXCEPT ![c].st = st]

\* MUTANT of Hello: a mismatch is reported and the daemon stays
HelloStays(c) ==
    LET d == conn[c].srv IN
    /\ Handles(c, "hello")
    /\ Moves(c, IF conn[c].ver = ver[d] THEN "ready" ELSE "mismatch")
    /\ UNCHANGED <<dpc, ver, stopping, flock, sock, thread>>

Hello(c) ==
    LET d == conn[c].srv IN
    /\ Handles(c, "hello")
    /\ IF conn[c].ver = ver[d]
       THEN Moves(c, "ready") /\ UNCHANGED stopping
       ELSE Moves(c, "mismatch") /\ stopping' = [stopping EXCEPT ![d] = TRUE]
    /\ UNCHANGED <<dpc, ver, flock, sock, thread>>

\* only the ops that load or generate put a thread to work
Dispatch(c) ==
    /\ Handles(c, "asked")
    /\ Moves(c, "working")
    /\ thread' \in {thread, [thread EXCEPT ![c] = conn[c].srv]}
    /\ UNCHANGED <<dpc, ver, stopping, flock, sock>>

\* (a cancelled chat is answered while its thread still runs)
Answer(c) ==
    /\ Handles(c, "working")
    /\ Moves(c, "ok") \/ Moves(c, "error")
    /\ UNCHANGED <<dpc, ver, stopping, flock, sock, thread>>

ThreadEnds(c) ==
    /\ thread[c] # None
    /\ thread' = [thread EXCEPT ![c] = None]
    /\ UNCHANGED <<dpc, ver, stopping, flock, sock, conn>>

-----------------------------------------------------------------------------
(* A process leaves *)

\* MUTANT of Stops: the flock is given back before the socket is removed
StopsUnlocked(d) ==
    /\ dpc[d] = "serving" /\ stopping[d]
    /\ dpc' = [dpc EXCEPT ![d] = "closing"]
    /\ conn' = Cut(OpenAt(d))
    /\ flock' = Freed(d)
    /\ UNCHANGED <<ver, stopping, sock, thread>>

\* serve() wakes and closes the listening socket; the connections in its
\* backlog, some of those that sent a hello, are reset
Stops(d) ==
    /\ dpc[d] = "serving" /\ stopping[d]
    /\ dpc' = [dpc EXCEPT ![d] = "closing"]
    /\ \E cs \in SUBSET {c \in OpenAt(d) : conn[c].st = "hello"} : conn' = Cut(cs)
    /\ UNCHANGED <<ver, stopping, flock, sock, thread>>

\* serve() removes the socket file and returns, asyncio.run() cancels the handlers
Unlinks(d) ==
    /\ dpc[d] = "closing"
    /\ WaitsForHandlers => OpenAt(d) = {}
    /\ dpc' = [dpc EXCEPT ![d] = "leaving"]
    /\ sock' = None
    /\ conn' = Cut(OpenAt(d))
    /\ UNCHANGED <<ver, stopping, flock, thread>>

\* MUTANT of Exits: worker threads are left behind
ExitsAtOnce(d) ==
    /\ dpc[d] = "leaving"
    /\ dpc' = [dpc EXCEPT ![d] = "dead"]
    /\ flock' = Freed(d)
    /\ UNCHANGED <<ver, stopping, sock, conn, thread>>

\* asyncio.run() joins the worker threads before main() gives the flock back
Exits(d) ==
    /\ dpc[d] = "leaving"
    /\ \A c \in Client : thread[c] # d
    /\ dpc' = [dpc EXCEPT ![d] = "dead"]
    /\ flock' = Freed(d)
    /\ UNCHANGED <<ver, stopping, sock, conn, thread>>

\* the socket file stays behind
Crash(d) ==
    /\ dpc[d] # "dead"
    /\ dpc' = [dpc EXCEPT ![d] = "dead"]
    /\ flock' = Freed(d)
    /\ conn' = Cut(OpenAt(d))
    /\ thread' = [c \in Client |-> IF thread[c] = d THEN None ELSE thread[c]]
    /\ UNCHANGED <<ver, stopping, sock>>

Runs(d) ==
    \/ WinsLock(d) \/ LosesLock(d) \/ Binds(d) \/ Serves(d)
    \/ Stops(d) \/ Unlinks(d) \/ Exits(d)

Handler(c) == Hello(c) \/ Dispatch(c) \/ Answer(c) \/ ThreadEnds(c)

-----------------------------------------------------------------------------
(* Signals *)

\* no handler is installed yet: the default action
TermEarly(d) == dpc[d] \in {"boot", "setup"} /\ Crash(d)

\* the serve task is cancelled inside start_unix_server: no teardown
TermBound(d) ==
    /\ dpc[d] = "bound"
    /\ dpc' = [dpc EXCEPT ![d] = "leaving"]
    /\ conn' = Cut(OpenAt(d))
    /\ UNCHANGED <<ver, stopping, flock, sock, thread>>

TermServing(d) ==
    /\ dpc[d] = "serving"
    /\ stopping' = [stopping EXCEPT ![d] = TRUE]
    /\ UNCHANGED <<dpc, ver, flock, sock, conn, thread>>

\* a signal while serve() awaits wait_closed() in _close_server skips the unlink
TermClosing(d) ==
    /\ dpc[d] = "closing" /\ WaitsForHandlers
    /\ dpc' = [dpc EXCEPT ![d] = "leaving"]
    /\ conn' = Cut(OpenAt(d))
    /\ UNCHANGED <<ver, stopping, flock, sock, thread>>

\* the serve task is done, or swallows the cancellation
TermIgnored(d) == dpc[d] \in {"closing", "leaving", "dead"} /\ UNCHANGED dvars

Sigterm(d) ==
    TermEarly(d) \/ TermBound(d) \/ TermServing(d) \/ TermClosing(d) \/ TermIgnored(d)

-----------------------------------------------------------------------------
(* What others do to the daemons *)

Spawn(d, v) ==
    /\ dpc[d] = "dead" /\ sock # d
    /\ dpc' = [dpc EXCEPT ![d] = "boot"]
    /\ ver' = [ver EXCEPT ![d] = v]
    /\ stopping' = [stopping EXCEPT ![d] = FALSE]
    /\ UNCHANGED <<flock, sock, conn, thread>>

\* a client connects and sends its hello
Connect(c, v) ==
    /\ Reachable
    /\ conn[c].st \notin Open /\ thread[c] = None
    /\ conn' = [conn EXCEPT ![c] = [srv |-> sock, st |-> "hello", ver |-> v]]
    /\ UNCHANGED <<dpc, ver, stopping, flock, sock, thread>>

Ask(c) ==
    /\ conn[c].st = "ready"
    /\ Moves(c, "asked")
    /\ UNCHANGED <<dpc, ver, stopping, flock, sock, thread>>

\* the client closed: a handler that waits for a line reads the end of file
HangUp(c) ==
    /\ conn[c].st \in {"ready", "mismatch", "ok", "error", "eof"}
    /\ conn' = [conn EXCEPT ![c] = NoConn]
    /\ UNCHANGED <<dpc, ver, stopping, flock, sock, thread>>

Environment ==
    \/ \E d \in Daemon : (\E v \in Version : Spawn(d, v)) \/ Sigterm(d) \/ Crash(d)
    \/ \E c \in Client : (\E v \in Version : Connect(c, v)) \/ Ask(c) \/ HangUp(c)

DaemonNext ==
    \/ \E d \in Daemon : Runs(d) \/ SetupFails(d)
    \/ \E c \in Client : Handler(c)
    \/ Environment

DaemonSpec == Init /\ [][DaemonNext]_dvars

-----------------------------------------------------------------------------
(* Properties *)

\* Types; a connection has a server.
DaemonTypeOK ==
    /\ dpc \in [Daemon -> DaemonState]
    /\ ver \in [Daemon -> Version]
    /\ stopping \in [Daemon -> BOOLEAN]
    /\ flock \in Daemon \cup {None}
    /\ sock \in Daemon \cup {None}
    /\ conn \in [Client -> [srv : Daemon \cup {None}, st : ConnState, ver : Version \cup {0}]]
    /\ thread \in [Client -> Daemon \cup {None}]
    /\ \A c \in Client : conn[c].st # "none" => conn[c].srv \in Daemon

\* A daemon that listens, or has yet to remove its socket file, is the one the
\* file at the path leads to: no other daemon has unlinked or replaced it, and
\* nobody else's file is removed (FR12; server.py:38, 70 under lifecycle.py:23).
SocketIsOwn == \A d \in Daemon : dpc[d] \in Bound => sock = d

\* Requests and threads belong to the daemon that holds the lock: two daemons
\* never work, and never hold models, at the same time (FR12, __main__.py:55).
WorkUnderLock ==
    \A c \in Client :
        /\ conn[c].st \in Open => flock = conn[c].srv
        /\ thread[c] # None => flock = thread[c]

\* The lock, the requests in hand and the threads implement DaemonService.
Service == INSTANCE DaemonService WITH
    owner <- flock,
    working <- {c \in Client : conn[c].st = "working"},
    busy <- {c \in Client : thread[c] # None}

ImplementsService == Service!Spec
=============================================================================
