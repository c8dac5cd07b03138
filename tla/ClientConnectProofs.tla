------------------------- MODULE ClientConnectProofs -------------------------
(***************************************************************************)
(* For every number of processes and clients and any set of versions:      *)
(* DaemonProcess keeps one owner of lock, socket file, requests and        *)
(* threads, and implements DaemonService.  The calls are an environment it *)
(* was proved for, so what holds of DaemonSpec holds of the system with    *)
(* real clients; no request is begun twice; and calls that race to spawn a *)
(* daemon are all answered by the one that wins.                           *)
(***************************************************************************)
EXTENDS ClientConnect, TLAPS

-----------------------------------------------------------------------------
(* The daemon *)

\* The flock is held exactly by the process inside main()'s with block.
LockOwner == \A d \in Daemon : dpc[d] \in Owning <=> flock = d

\* Handlers live in a daemon that has not returned from serve().
ConnectionsServed ==
    \A c \in Client : conn[c].st \in Open => dpc[conn[c].srv] \in Bound

\* Threads live in a daemon that has served and not yet exited.
ThreadsJoined ==
    \A c \in Client : thread[c] # None => dpc[thread[c]] \in {"serving", "closing", "leaving"}

OwnerInv == DaemonTypeOK /\ LockOwner /\ SocketIsOwn /\ ConnectionsServed /\ ThreadsJoined

USE DaemonAssumptions

LEMMA OwnerInit == Init => OwnerInv
<1> SUFFICES ASSUME Init PROVE OwnerInv
    OBVIOUS
<1>1. DaemonTypeOK
    BY DEF Init, DaemonTypeOK, DaemonState, ConnState, NoConn
<1>2. LockOwner /\ SocketIsOwn
    BY DEF Init, LockOwner, SocketIsOwn, Owning, Bound
<1>3. ConnectionsServed /\ ThreadsJoined
    BY DEF Init, ConnectionsServed, ThreadsJoined, Open, NoConn
<1> QED
    BY <1>1, <1>2, <1>3 DEF OwnerInv

-----------------------------------------------------------------------------
(* What closing connections, and their steps, do to conn *)

LEMMA CutFacts ==
    ASSUME DaemonTypeOK, NEW cs \in SUBSET Client, conn' = Cut(cs)
    PROVE  /\ conn' \in [Client -> [srv : Daemon \cup {None}, st : ConnState, ver : Version \cup {0}]]
           /\ \A c \in Client : /\ conn'[c].srv = conn[c].srv
                                /\ conn'[c].st \in Open => conn'[c].st = conn[c].st /\ c \notin cs
                                /\ conn'[c].st # "none" => conn[c].srv \in Daemon \/ c \in cs
                                /\ c \notin cs => conn'[c] = conn[c]
BY DEF DaemonTypeOK, Cut, ConnState, Open

LEMMA MoveFacts ==
    ASSUME DaemonTypeOK, NEW c \in Client, NEW st \in ConnState, Moves(c, st)
    PROVE  /\ conn' \in [Client -> [srv : Daemon \cup {None}, st : ConnState, ver : Version \cup {0}]]
           /\ conn'[c].srv = conn[c].srv /\ conn'[c].st = st
           /\ \A e \in Client \ {c} : conn'[e] = conn[e]
<1> DEFINE r == [conn[c] EXCEPT !.st = st]
<1>1. conn[c] \in [srv : Daemon \cup {None}, st : ConnState, ver : Version \cup {0}]
    BY DEF DaemonTypeOK
<1>2. /\ r \in [srv : Daemon \cup {None}, st : ConnState, ver : Version \cup {0}]
      /\ r.srv = conn[c].srv /\ r.st = st
    BY <1>1
<1>3. conn' = [conn EXCEPT ![c] = r]
    BY DEF Moves
<1> HIDE DEF r
<1> QED
    BY <1>2, <1>3 DEF DaemonTypeOK

-----------------------------------------------------------------------------
(* Each step keeps OwnerInv *)

LEMMA StartKeeps ==
    ASSUME OwnerInv, NEW d \in Daemon,
           WinsLock(d) \/ LosesLock(d) \/ SetupFails(d) \/ Binds(d) \/ Serves(d)
                \/ \E v \in Version : Spawn(d, v)
    PROVE  OwnerInv'
<1> USE DEF OwnerInv
<1>1. DaemonTypeOK'
    <2>1. UNCHANGED <<conn, thread>>
        BY DEF WinsLock, LosesLock, SetupFails, Binds, Serves, Spawn
    <2>2. flock' \in Daemon \cup {None} /\ sock' \in Daemon \cup {None}
        BY DEF DaemonTypeOK, WinsLock, LosesLock, SetupFails, Binds, Serves, Spawn, Freed
    <2>3. dpc' \in [Daemon -> DaemonState]
        BY DEF DaemonTypeOK, DaemonState, WinsLock, LosesLock, SetupFails, Binds, Serves, Spawn
    <2>4. ver' \in [Daemon -> Version] /\ stopping' \in [Daemon -> BOOLEAN]
        <3>1. CASE UNCHANGED <<ver, stopping>>
            BY <3>1 DEF DaemonTypeOK
        <3>2. CASE \E v \in Version : Spawn(d, v)
            BY <3>2 DEF DaemonTypeOK, Spawn
        <3> QED
            BY <3>1, <3>2 DEF WinsLock, LosesLock, SetupFails, Binds, Serves
    <2> QED
        BY <2>1, <2>2, <2>3, <2>4 DEF DaemonTypeOK
<1>2. LockOwner'
    BY DEF DaemonTypeOK, LockOwner, Owning, WinsLock, LosesLock, SetupFails, Binds, Serves, Spawn, Freed
<1>3. SocketIsOwn'
    BY DEF DaemonTypeOK, LockOwner, SocketIsOwn, Owning, Bound, WinsLock, LosesLock,
           SetupFails, Binds, Serves, Spawn, Freed
<1>4. ConnectionsServed'
    BY DEF DaemonTypeOK, ConnectionsServed, Bound, Open, ConnState,
           WinsLock, LosesLock, SetupFails, Binds, Serves, Spawn
<1>5. ThreadsJoined'
    BY DEF DaemonTypeOK, ThreadsJoined, WinsLock, LosesLock, SetupFails, Binds, Serves, Spawn
<1> QED
    BY <1>1, <1>2, <1>3, <1>4, <1>5

LEMMA HandlerKeeps ==
    ASSUME OwnerInv, NEW c \in Client,
           Handler(c) \/ Ask(c) \/ HangUp(c) \/ \E v \in Version : Connect(c, v)
    PROVE  OwnerInv'
<1> USE DEF OwnerInv
<1>1. CASE Hello(c) \/ Dispatch(c) \/ Answer(c) \/ Ask(c)
    <2>1. PICK st \in {"ready", "mismatch", "working", "ok", "error", "asked"} :
              Moves(c, st) /\ conn[c].st \in Open
        BY <1>1 DEF Hello, Dispatch, Answer, Ask, Handles, Open
    <2>2. DaemonTypeOK'
        BY <1>1, <2>1, MoveFacts
           DEF DaemonTypeOK, ConnState, Hello, Dispatch, Answer, Ask, Handles, Open
    <2>3. LockOwner' /\ SocketIsOwn'
        BY <1>1 DEF LockOwner, SocketIsOwn, Hello, Dispatch, Answer, Ask
    <2>4. ConnectionsServed'
        BY <1>1, <2>1, MoveFacts DEF ConnectionsServed, ConnState, Hello, Dispatch, Answer, Ask
    <2>5. ThreadsJoined'
        BY <1>1 DEF DaemonTypeOK, ThreadsJoined, Hello, Dispatch, Answer, Ask, Handles
    <2> QED
        BY <2>2, <2>3, <2>4, <2>5
<1>2. CASE ThreadEnds(c)
    BY <1>2 DEF DaemonTypeOK, LockOwner, SocketIsOwn, ConnectionsServed, ThreadsJoined, ThreadEnds
<1>3. CASE HangUp(c)
    <2>1. DaemonTypeOK'
        BY <1>3 DEF DaemonTypeOK, HangUp, NoConn, ConnState
    <2> QED
        BY <1>3, <2>1 DEF DaemonTypeOK, LockOwner, SocketIsOwn, ConnectionsServed, ThreadsJoined,
                          HangUp, NoConn, Open
<1>4. ASSUME NEW v \in Version, Connect(c, v) PROVE OwnerInv'
    <2>1. sock \in Daemon /\ dpc[sock] \in Bound
        BY <1>4 DEF DaemonTypeOK, Connect, Reachable, Listening, Bound
    <2>2. DaemonTypeOK'
        BY <1>4, <2>1 DEF DaemonTypeOK, Connect, ConnState
    <2>3. ConnectionsServed'
        BY <1>4, <2>1 DEF DaemonTypeOK, ConnectionsServed, Connect
    <2> QED
        BY <1>4, <2>2, <2>3 DEF LockOwner, SocketIsOwn, ThreadsJoined, Connect
<1> QED
    BY <1>1, <1>2, <1>3, <1>4 DEF Handler

LEMMA LeaveKeeps ==
    ASSUME OwnerInv, NEW d \in Daemon,
           Stops(d) \/ Unlinks(d) \/ Exits(d) \/ Crash(d) \/ Sigterm(d)
    PROVE  OwnerInv'
<1> USE DEF OwnerInv
<1> OpenAt(d) \in SUBSET Client
    BY DEF OpenAt
<1>1. CASE Stops(d)
    <2>1. PICK cs \in SUBSET Client : conn' = Cut(cs)
        BY <1>1 DEF Stops
    <2>2. DaemonTypeOK'
        BY <1>1, <2>1, CutFacts DEF DaemonTypeOK, DaemonState, Stops, Cut
    <2>3. ConnectionsServed'
        BY <1>1, <2>1, CutFacts DEF DaemonTypeOK, ConnectionsServed, Bound, Stops
    <2> QED
        BY <1>1, <2>2, <2>3 DEF DaemonTypeOK, LockOwner, SocketIsOwn, ThreadsJoined, Owning, Bound, Stops
<1>2. CASE Unlinks(d) \/ TermBound(d) \/ TermClosing(d)
    <2>1. conn' = Cut(OpenAt(d))
        BY <1>2 DEF Unlinks, TermBound, TermClosing
    <2>2. DaemonTypeOK'
        <3>1. \A c \in OpenAt(d) : conn[c].srv \in Daemon
            BY DEF OpenAt
        <3>2. /\ dpc' \in [Daemon -> DaemonState]
              /\ sock' \in Daemon \cup {None}
              /\ UNCHANGED <<ver, stopping, flock, thread>>
            BY <1>2 DEF DaemonTypeOK, DaemonState, Unlinks, TermBound, TermClosing
        <3> QED
            BY <2>1, <3>1, <3>2, CutFacts DEF DaemonTypeOK
    <2>3. ConnectionsServed'
        <3>1. \A e \in Daemon \ {d} : dpc'[e] = dpc[e]
            BY <1>2 DEF DaemonTypeOK, Unlinks, TermBound, TermClosing
        <3>2. ASSUME NEW c \in Client, conn'[c].st \in Open PROVE dpc'[conn'[c].srv] \in Bound
            <4>1. /\ conn'[c].srv = conn[c].srv
                  /\ conn[c].st \in Open /\ c \notin OpenAt(d)
                BY <2>1, <3>2, CutFacts
            <4>2. conn[c].srv \in Daemon \ {d}
                BY <4>1 DEF OpenAt, DaemonTypeOK, Open
            <4> QED
                BY <3>1, <4>1, <4>2 DEF ConnectionsServed
        <3> QED
            BY <3>2 DEF ConnectionsServed
    <2>4. LockOwner' /\ ThreadsJoined'
        BY <1>2 DEF DaemonTypeOK, LockOwner, ThreadsJoined, Owning, Unlinks, TermBound, TermClosing
    <2>5. SocketIsOwn'
        BY <1>2 DEF DaemonTypeOK, LockOwner, SocketIsOwn, Owning, Bound, Unlinks, TermBound, TermClosing
    <2> QED
        BY <2>2, <2>3, <2>4, <2>5
<1>3. CASE Exits(d)
    <2>1. DaemonTypeOK'
        BY <1>3 DEF DaemonTypeOK, DaemonState, Exits, Freed
    <2> QED
        BY <1>3, <2>1 DEF DaemonTypeOK, LockOwner, SocketIsOwn, ConnectionsServed, ThreadsJoined,
                          Owning, Bound, Exits, Freed
<1>4. CASE Crash(d)
    <2>1. DaemonTypeOK'
        BY <1>4, CutFacts DEF DaemonTypeOK, DaemonState, Crash, Freed, OpenAt, Open
    <2>2. ConnectionsServed'
        BY <1>4, CutFacts DEF DaemonTypeOK, ConnectionsServed, Crash, OpenAt
    <2>3. ThreadsJoined'
        BY <1>4 DEF DaemonTypeOK, ThreadsJoined, Crash
    <2>4. LockOwner' /\ SocketIsOwn'
        BY <1>4 DEF DaemonTypeOK, LockOwner, SocketIsOwn, Owning, Bound, Crash, Freed
    <2> QED
        BY <2>1, <2>2, <2>3, <2>4
<1>5. CASE TermServing(d) \/ TermIgnored(d)
    BY <1>5 DEF DaemonTypeOK, LockOwner, SocketIsOwn, ConnectionsServed, ThreadsJoined,
                TermServing, TermIgnored, dvars
<1> QED
    BY <1>1, <1>2, <1>3, <1>4, <1>5 DEF Sigterm, TermEarly

LEMMA OwnerStep == OwnerInv /\ [DaemonNext]_dvars => OwnerInv'
<1> SUFFICES ASSUME OwnerInv, [DaemonNext]_dvars PROVE OwnerInv'
    OBVIOUS
<1>1. CASE DaemonNext
    BY <1>1, StartKeeps, HandlerKeeps, LeaveKeeps DEF DaemonNext, Environment, Runs
<1>2. CASE UNCHANGED dvars
    BY <1>2 DEF OwnerInv, DaemonTypeOK, LockOwner, SocketIsOwn, ConnectionsServed, ThreadsJoined, dvars
<1> QED
    BY <1>1, <1>2

LEMMA OwnWork == OwnerInv => WorkUnderLock
BY DEF OwnerInv, DaemonTypeOK, LockOwner, ConnectionsServed, ThreadsJoined, WorkUnderLock,
       Owning, Bound, Open

\* The lock's holder is the process inside main()'s with block; socket file,
\* handlers and threads are its own.
THEOREM OwnerInvariant == DaemonSpec => []OwnerInv
<1> QED
    BY OwnerInit, OwnerStep, PTL DEF DaemonSpec

\* Every daemon process keeps its state among those of DaemonState and every
\* connection has a server.
THEOREM DaemonTypes == DaemonSpec => []DaemonTypeOK
<1>1. OwnerInv => DaemonTypeOK
    BY DEF OwnerInv
<1> QED
    BY <1>1, OwnerInvariant, PTL

\* A daemon's socket file is its own from bind to unlink, whoever else starts,
\* crashes or is signalled (server.py:38, 70; lifecycle.py:23).
THEOREM SocketStaysOwn == DaemonSpec => []SocketIsOwn
<1>1. OwnerInv => SocketIsOwn
    BY DEF OwnerInv
<1> QED
    BY <1>1, OwnerInvariant, PTL

\* Requests and threads are always those of the process that holds the lock, so
\* never of two processes at once (__main__.py:55-78).
THEOREM WorkStaysUnderLock == DaemonSpec => []WorkUnderLock
BY OwnWork, OwnerInvariant, PTL

-----------------------------------------------------------------------------
(* DaemonProcess implements DaemonService *)

Working == {c \in Client : conn[c].st = "working"}
Busy == {c \in Client : thread[c] # None}

\* A process that wins the lock takes over; one that fails to start, or exits,
\* retires with no request in hand and no thread.
LEMMA OwnersMap ==
    ASSUME OwnerInv, NEW d \in Daemon,
           WinsLock(d) \/ SetupFails(d) \/ Exits(d)
    PROVE  Service!TakesOver(d) \/ Service!Retires
<1>1. UNCHANGED <<Working, Busy>>
    BY DEF WinsLock, SetupFails, Exits, Working, Busy
<1>2. CASE WinsLock(d)
    BY <1>1, <1>2 DEF WinsLock, Service!TakesOver, Working, Busy
<1>3. CASE SetupFails(d) \/ Exits(d)
    <2>1. flock = d /\ dpc[d] \notin Bound /\ flock' = None
        BY <1>3 DEF OwnerInv, LockOwner, Owning, Bound, SetupFails, Exits, Freed
    <2>2. Working = {}
        BY <2>1, OwnWork DEF OwnerInv, ConnectionsServed, WorkUnderLock, Working, Open
    <2>3. Busy = {}
        BY <1>3, <2>1, OwnWork DEF OwnerInv, ThreadsJoined, WorkUnderLock, Busy, SetupFails, Exits
    <2> QED
        BY <1>1, <2>1, <2>2, <2>3 DEF Service!Retires, Working, Busy
<1> QED
    BY <1>2, <1>3

\* Dispatch begins a request, an answer ends it, a thread that ends is no longer busy.
LEMMA HandlersMap ==
    ASSUME OwnerInv, NEW c \in Client, Dispatch(c) \/ Answer(c) \/ ThreadEnds(c)
    PROVE  Service!Begins(c) \/ Service!End({c}) \/ Service!ThreadEnds(c)
<1>1. CASE Dispatch(c)
    <2>1. flock # None /\ flock' = flock
        BY <1>1, OwnWork
           DEF OwnerInv, DaemonTypeOK, WorkUnderLock, Dispatch, Handles, Open
    <2>2. Working' = Working \cup {c}
        BY <1>1, MoveFacts DEF OwnerInv, DaemonTypeOK, Dispatch, Working, ConnState
    <2>3. Busy' \in {Busy, Busy \cup {c}}
        BY <1>1 DEF OwnerInv, DaemonTypeOK, Dispatch, Handles, Busy
    <2> QED
        BY <2>1, <2>2, <2>3 DEF Service!Begins, Working, Busy
<1>2. CASE Answer(c)
    <2>1. Working' = Working \ {c}
        BY <1>2, MoveFacts DEF OwnerInv, DaemonTypeOK, Answer, Working, ConnState
    <2>2. UNCHANGED <<flock, Busy>>
        BY <1>2 DEF Answer, Busy
    <2> QED
        BY <2>1, <2>2 DEF Service!End, Working, Busy
<1>3. CASE ThreadEnds(c)
    <2>1. Busy' = Busy \ {c}
        BY <1>3 DEF OwnerInv, DaemonTypeOK, ThreadEnds, Busy
    <2>2. UNCHANGED <<flock, Working>>
        BY <1>3 DEF ThreadEnds, Working
    <2> QED
        BY <2>1, <2>2 DEF Service!ThreadEnds, Working, Busy
<1> QED
    BY <1>1, <1>2, <1>3

\* A daemon that returns from serve() cuts the requests it still had.
LEMMA CutsMap ==
    ASSUME OwnerInv, NEW d \in Daemon, Unlinks(d) \/ TermBound(d) \/ TermClosing(d)
    PROVE  \E cs \in SUBSET Client : Service!End(cs)
<1>1. OpenAt(d) \in SUBSET Client
    BY DEF OpenAt
<1>2. Working' = Working \ OpenAt(d)
    <2>1. conn' = Cut(OpenAt(d))
        BY DEF Unlinks, TermBound, TermClosing
    <2>2. \A c \in OpenAt(d) : conn'[c].st # "working"
        BY <1>1, <2>1, CutFacts DEF OwnerInv, Open
    <2>3. \A c \in Client \ OpenAt(d) : conn'[c] = conn[c]
        BY <1>1, <2>1, CutFacts DEF OwnerInv
    <2> QED
        BY <2>2, <2>3 DEF Working
<1>3. UNCHANGED <<flock, Busy>>
    BY DEF Unlinks, TermBound, TermClosing, Busy
<1>4. PICK cs \in SUBSET Client : cs = OpenAt(d)
    BY <1>1
<1>5. Service!End(cs)
    BY <1>2, <1>3, <1>4 DEF Service!End, Working, Busy
<1> QED
    BY <1>5

\* The death of the owner takes requests and threads along; that of a process
\* that has not won the lock changes nothing.
LEMMA CrashMaps ==
    ASSUME OwnerInv, NEW d \in Daemon, Crash(d)
    PROVE  Service!Dies \/ UNCHANGED <<flock, Working, Busy>>
<1>1. OpenAt(d) \in SUBSET Client /\ conn' = Cut(OpenAt(d))
    BY DEF OpenAt, Crash
<1>2. CASE flock = d
    <2>1. flock # None /\ flock' = None
        BY <1>2 DEF Crash, Freed
    <2>2. Working' = {}
        <3>1. \A c \in Client : conn[c].st \in Open => c \in OpenAt(d)
            BY <1>2, OwnWork DEF WorkUnderLock, OpenAt
        <3>2. \A c \in Client : conn'[c].st \notin Open
            BY <1>1, <3>1, CutFacts DEF OwnerInv
        <3> QED
            BY <3>2 DEF Working, Open
    <2>3. Busy' = {}
        BY <1>2, OwnWork DEF WorkUnderLock, Crash, Busy
    <2> QED
        BY <2>1, <2>2, <2>3 DEF Service!Dies, Working, Busy
<1>3. CASE flock # d
    <2>1. OpenAt(d) = {} /\ \A c \in Client : thread[c] # d
        BY <1>3, OwnWork DEF WorkUnderLock, OpenAt
    <2>2. \A c \in Client : conn'[c] = conn[c]
        BY <1>1, <2>1, CutFacts DEF OwnerInv
    <2>3. Working' = Working
        BY <2>2 DEF Working
    <2>4. Busy' = Busy
        BY <2>1 DEF OwnerInv, DaemonTypeOK, Crash, Busy
    <2> QED
        BY <1>3, <2>3, <2>4 DEF Crash, Freed
<1> QED
    BY <1>2, <1>3

\* Starting, and stopping to listen, is invisible to DaemonService.
LEMMA StopsStutters ==
    ASSUME OwnerInv, NEW d \in Daemon, Stops(d)
    PROVE  UNCHANGED <<flock, Working, Busy>>
<1>1. PICK cs \in SUBSET {e \in OpenAt(d) : conn[e].st = "hello"} : conn' = Cut(cs)
    BY DEF Stops
<1>2. cs \in SUBSET Client
    BY DEF OpenAt
<1>3. \A e \in cs : conn[e].st = "hello" /\ conn'[e].st \notin Open
    BY <1>1, <1>2, CutFacts DEF OwnerInv
<1>4. \A e \in Client \ cs : conn'[e] = conn[e]
    BY <1>1, <1>2, CutFacts DEF OwnerInv
<1>5. Working' = Working
    BY <1>3, <1>4 DEF Working, Open
<1> QED
    BY <1>5 DEF Stops, Busy

\* So is what happens on a connection before a request is in hand, or after.
LEMMA GreetingStutters ==
    ASSUME OwnerInv, NEW c \in Client,
           Hello(c) \/ Ask(c) \/ HangUp(c) \/ \E v \in Version : Connect(c, v)
    PROVE  UNCHANGED <<flock, Working, Busy>>
<1>1. UNCHANGED <<flock, Busy>>
    BY DEF Hello, Ask, HangUp, Connect, Busy
<1>2. CASE Hello(c) \/ Ask(c)
    <2>1. conn[c].st # "working"
        BY <1>2 DEF Hello, Ask, Handles
    <2>2. PICK st \in {"ready", "mismatch", "asked"} : Moves(c, st)
        BY <1>2 DEF Hello, Ask
    <2>3. conn'[c].st # "working" /\ \A e \in Client \ {c} : conn'[e] = conn[e]
        BY <2>2, MoveFacts DEF OwnerInv, ConnState
    <2> QED
        BY <1>1, <2>1, <2>3 DEF Working
<1>3. CASE HangUp(c) \/ \E v \in Version : Connect(c, v)
    <2>1. conn[c].st # "working"
        BY <1>3 DEF HangUp, Connect, Open
    <2>2. conn'[c].st # "working" /\ \A e \in Client \ {c} : conn'[e] = conn[e]
        BY <1>3 DEF OwnerInv, DaemonTypeOK, HangUp, Connect, NoConn
    <2> QED
        BY <1>1, <2>1, <2>2 DEF Working
<1> QED
    BY <1>2, <1>3

LEMMA StepsMap ==
    OwnerInv /\ [DaemonNext]_dvars => [Service!Next]_(Service!vars)
<1> SUFFICES ASSUME OwnerInv, [DaemonNext]_dvars
             PROVE  Service!Next \/ UNCHANGED <<flock, Working, Busy>>
    BY DEF Service!vars, Working, Busy
<1>1. ASSUME NEW d \in Daemon, Runs(d) \/ SetupFails(d) \/ Sigterm(d) \/ Crash(d)
      PROVE  Service!Next \/ UNCHANGED <<flock, Working, Busy>>
    <2>1. CASE WinsLock(d) \/ SetupFails(d) \/ Exits(d)
        BY <2>1, OwnersMap DEF Service!Next
    <2>2. CASE Unlinks(d) \/ TermBound(d) \/ TermClosing(d)
        BY <2>2, CutsMap DEF Service!Next
    <2>3. CASE Crash(d)
        BY <2>3, CrashMaps DEF Service!Next
    <2>4. CASE LosesLock(d) \/ Binds(d) \/ Serves(d) \/ TermServing(d) \/ TermIgnored(d)
        BY <2>4 DEF LosesLock, Binds, Serves, TermServing, TermIgnored, dvars, Working, Busy
    <2>5. CASE Stops(d)
        BY <2>5, StopsStutters
    <2> QED
        BY <1>1, <2>1, <2>2, <2>3, <2>4, <2>5 DEF Runs, Sigterm, TermEarly
<1>2. ASSUME NEW d \in Daemon, NEW v \in Version, Spawn(d, v)
      PROVE  UNCHANGED <<flock, Working, Busy>>
    BY <1>2 DEF Spawn, Working, Busy
<1>3. ASSUME NEW c \in Client, Dispatch(c) \/ Answer(c) \/ ThreadEnds(c)
      PROVE  Service!Next
    <2>1. {c} \in SUBSET Client
        OBVIOUS
    <2> QED
        BY <1>3, <2>1, HandlersMap DEF Service!Next
<1>4. CASE UNCHANGED dvars
    BY <1>4 DEF dvars, Working, Busy
<1> QED
    BY <1>1, <1>2, <1>3, <1>4, GreetingStutters DEF DaemonNext, Environment, Handler

LEMMA InitMaps == Init => Service!Init \/ Service!Running
BY DEF Init, NoConn, Service!Init, Service!Running

\* Whatever processes are started, connected to, signalled or killed, and in
\* whatever order: one daemon at most is in charge, begins requests and holds
\* threads, and hands over with none of its own left (__main__.py:55-78,
\* server.py:38-70, lifecycle.py:23-48).
THEOREM OneDaemonServes == DaemonSpec => ImplementsService
<1>1. Init => Service!Init \/ Service!Running
    BY InitMaps
<1> QED
    BY <1>1, StepsMap, OwnerInvariant, PTL DEF DaemonSpec, ImplementsService, Service!Spec

-----------------------------------------------------------------------------
(* The calls *)

USE ClientAssumptions

-----------------------------------------------------------------------------
(* Each step is one of DaemonProcess *)

LEMMA CallSteps ==
    ASSUME CallTypeOK, NEW c \in Client, ClientStep(c)
    PROVE  [DaemonNext]_dvars
<1>1. cver[c] \in Version /\ installed \in Version
    BY DEF CallTypeOK
<1>2. CASE Opens(c)
    BY <1>1, <1>2 DEF Opens, DaemonNext, Environment
<1>3. CASE Spawns(c)
    BY <1>1, <1>3 DEF Spawns, DaemonNext, Environment
<1>4. CASE PollTimesOut(c)
    <2>1. child[c] \in Daemon
        BY <1>4 DEF CallTypeOK, PollTimesOut
    <2> QED
        BY <1>4, <2>1 DEF PollTimesOut, Reaps, DaemonNext, Environment
<1>5. CASE ReapKills(c)
    <2>1. child[c] \in Daemon
        BY <1>5 DEF CallTypeOK, ReapKills
    <2> QED
        BY <1>5, <2>1 DEF ReapKills, DaemonNext, Environment
<1>6. CASE SaysRequest(c) \/ HelloRefused(c)
    BY <1>6 DEF SaysRequest, HelloRefused, DaemonNext, Environment
<1>7. CASE UNCHANGED dvars
    BY <1>7
<1> QED
    BY <1>2, <1>3, <1>4, <1>5, <1>6, <1>7
       DEF ClientStep, OpenFails, SpawnFails, PollSees, Reaped, ReopenFails, GoneSees,
           GoneTimesOut, SaysPart, Answered, Lost, TimesOut, Closed

LEMMA StepsAllowed == CallTypeOK /\ [Next]_vars => [DaemonNext]_dvars
<1> SUFFICES ASSUME CallTypeOK, [Next]_vars PROVE [DaemonNext]_dvars
    OBVIOUS
<1>1. ASSUME NEW c \in Client, Call(c) \/ Closes(c) \/ DaemonHandles(c)
      PROVE  [DaemonNext]_dvars
    BY <1>1 DEF Call, Closes, DaemonHandles, Reads, DaemonNext, Environment
<1>2. ASSUME NEW d \in Daemon, DaemonRuns(d) \/ Mishap(d) PROVE [DaemonNext]_dvars
    BY <1>2 DEF DaemonRuns, Mishap, DaemonNext, Environment
<1>3. CASE Upgrade \/ Quiet \/ UNCHANGED vars
    BY <1>3 DEF Upgrade, Quiet, vars
<1> QED
    BY <1>1, <1>2, <1>3, CallSteps DEF Next

-----------------------------------------------------------------------------
(* Types *)

LEMMA CallTypeInit == ClientInit => CallTypeOK
BY DEF ClientInit, CallTypeOK, CallState, Outcome

LEMMA CallTypeStep == CallTypeOK /\ [Next]_vars => CallTypeOK'
<1> SUFFICES ASSUME CallTypeOK, [Next]_vars PROVE CallTypeOK'
    OBVIOUS
<1>1. ASSUME NEW c \in Client, NEW to \in CallState, Goes(c, to),
             to \in {"poll", "reap"} <=> cpc[c] \in {"poll", "reap"}
      PROVE  CallTypeOK'
    BY <1>1 DEF CallTypeOK, Goes
<1>2. ASSUME NEW c \in Client, NEW how \in Outcome, Ends(c, how) PROVE CallTypeOK'
    BY <1>2 DEF CallTypeOK, Ends, CallState
<1>3. ASSUME NEW c \in Client, cpc[c] \notin {"poll", "reap"}, Mismatched(c) PROVE CallTypeOK'
    <2>1. CASE Ends(c, "version_mismatch")
        BY <1>2, <2>1 DEF Outcome
    <2> QED
        BY <1>3, <2>1 DEF CallTypeOK, Mismatched, CallState
<1>4. ASSUME NEW c \in Client, Call(c) PROVE CallTypeOK'
    BY <1>4 DEF CallTypeOK, Call, CallState
<1>5. ASSUME NEW c \in Client, Spawns(c) PROVE CallTypeOK'
    BY <1>5 DEF CallTypeOK, Spawns, CallState
<1>6. ASSUME NEW c \in Client, PollSees(c) PROVE CallTypeOK'
    BY <1>6 DEF CallTypeOK, PollSees, CallState
<1>7. ASSUME NEW c \in Client,
             \/ Opens(c) \/ OpenFails(c) \/ SpawnFails(c) \/ ReopenFails(c) \/ SaysRequest(c)
             \/ SaysPart(c) \/ Reads(c)
      PROVE  CallTypeOK'
    <2>1. CASE Reads(c)
        BY <1>1, <2>1 DEF Reads, CallTypeOK, CallState, cvars
    <2> QED
        BY <1>1, <1>2, <1>7, <2>1
           DEF Opens, OpenFails, SpawnFails, ReopenFails, SaysRequest, SaysPart, CallState, Outcome
<1>8. ASSUME NEW c \in Client, PollTimesOut(c) \/ Reaped(c) \/ ReapKills(c)
      PROVE  CallTypeOK'
    BY <1>1, <1>2, <1>8 DEF PollTimesOut, Reaps, Reaped, ReapKills, CallState, Outcome
<1>9. ASSUME NEW c \in Client,
             \/ HelloRefused(c) \/ GoneSees(c) \/ GoneTimesOut(c) \/ Answered(c) \/ Lost(c)
             \/ TimesOut(c) \/ Closed(c)
      PROVE  CallTypeOK'
    BY <1>1, <1>2, <1>3, <1>9
       DEF HelloRefused, GoneSees, GoneTimesOut, Answered, Lost, TimesOut, Closed, CallState,
           Outcome
<1>10. CASE UNCHANGED cvars
    BY <1>10 DEF CallTypeOK, cvars
<1>11. CASE Upgrade
    BY <1>11 DEF CallTypeOK, Upgrade
<1> QED
    BY <1>4, <1>5, <1>6, <1>7, <1>8, <1>9, <1>10, <1>11
       DEF Next, ClientStep, Closes, DaemonHandles, DaemonRuns, Mishap, Quiet, vars

\* A call's variables keep their types, and only a call that polls or reaps has a child.
THEOREM CallTypes == Spec => []CallTypeOK
<1> QED
    BY CallTypeInit, CallTypeStep, PTL DEF Spec

-----------------------------------------------------------------------------

\* With clients that spawn, greet, time out, reap and kill as client.py does, the
\* daemons see nothing they were not proved for (client.py:394-703).
THEOREM ClientsAreEnvironment == Spec => ImplementsDaemon
<1>1. ClientInit => Init
    BY DEF ClientInit
<1> QED
    BY <1>1, StepsAllowed, CallTypes, PTL DEF Spec, ImplementsDaemon, DaemonSpec

\* A call has a child exactly while it polls or reaps it.
THEOREM ClientTypes == Spec => []ClientTypeOK
<1>1. ImplementsDaemon => []DaemonTypeOK
    BY DaemonTypes DEF ImplementsDaemon
<1>2. DaemonTypeOK /\ CallTypeOK => ClientTypeOK
    BY DEF ClientTypeOK
<1> QED
    BY <1>1, <1>2, ClientsAreEnvironment, CallTypes, PTL

\* However clients race to spawn, and whatever they kill: requests and threads
\* are those of the one daemon that holds the lock.
THEOREM CallsWorkUnderLock == Spec => []WorkUnderLock
<1>1. ImplementsDaemon => []WorkUnderLock
    BY WorkStaysUnderLock DEF ImplementsDaemon
<1> QED
    BY <1>1, ClientsAreEnvironment, PTL

-----------------------------------------------------------------------------
(* A request is begun at most once *)

\* Only a call that waits for its answer, or has given up on it, has a request
\* with the daemon.
RequestKnown ==
    \A c \in Client : conn[c].st \in {"asked", "working"} => cpc[c] \in {"request", "close", "done"}

\* The request of c is beyond recall: neither greeted for nor asked again.
Past(c) == cpc[c] \in {"request", "close", "done"} /\ conn[c].st \notin {"hello", "ready", "asked"}

\* A process that starts, stops or dies only closes connections.
LEMMA ProcessOnConn ==
    ASSUME DaemonTypeOK, NEW c \in Client,
           NEW d \in Daemon, Runs(d) \/ SetupFails(d) \/ Crash(d) \/ Sigterm(d)
    PROVE  conn'[c].st = conn[c].st \/ conn'[c].st \notin Open
<1>1. UNCHANGED conn \/ \E cs \in SUBSET Client : conn' = Cut(cs)
    <2>1. OpenAt(d) \in SUBSET Client
        BY DEF OpenAt
    <2>2. CASE Unlinks(d) \/ Crash(d) \/ TermBound(d) \/ TermClosing(d)
        BY <2>1, <2>2 DEF Unlinks, Crash, TermBound, TermClosing
    <2>3. CASE Stops(d)
        BY <2>1, <2>3 DEF Stops
    <2> QED
        BY <2>2, <2>3
           DEF Runs, SetupFails, WinsLock, LosesLock, Binds, Serves, Exits,
               Sigterm, TermEarly, TermServing, TermIgnored, dvars
<1> QED
    BY <1>1, CutFacts

\* What the steps of the daemons and of the other calls may do to a connection.
LEMMA OthersOnConn ==
    ASSUME DaemonTypeOK, CallTypeOK, [Next]_vars, NEW c \in Client, ~ClientStep(c)
    PROVE  \/ conn'[c].st = conn[c].st
           \/ conn'[c].st \notin {"hello", "ready", "asked", "working"}
           \/ conn[c].st = "hello" /\ conn'[c].st = "ready"
           \/ conn[c].st = "asked" /\ conn'[c].st = "working"
           \/ conn[c].st = "ready" /\ cpc[c] \in {"request", "close"}
<1> DEFINE Goal == \/ conn'[c].st = conn[c].st
                   \/ conn'[c].st \notin {"hello", "ready", "asked", "working"}
                   \/ conn[c].st = "hello" /\ conn'[c].st = "ready"
                   \/ conn[c].st = "asked" /\ conn'[c].st = "working"
                   \/ conn[c].st = "ready" /\ cpc[c] \in {"request", "close"}
<1> SUFFICES Goal
    OBVIOUS
<1>2. ASSUME NEW e \in Client, Handler(e) PROVE Goal
    <2>1. CASE ThreadEnds(e)
        BY <2>1 DEF ThreadEnds
    <2>2. CASE Hello(e)
        <3>1. PICK st \in {"ready", "mismatch"} : Moves(e, st) /\ conn[e].st = "hello"
            BY <2>2 DEF Hello, Handles
        <3> QED
            BY <3>1, MoveFacts DEF ConnState
    <2>3. CASE Dispatch(e)
        <3>1. Moves(e, "working") /\ conn[e].st = "asked"
            BY <2>3 DEF Dispatch, Handles
        <3> QED
            BY <3>1, MoveFacts DEF ConnState
    <2>4. CASE Answer(e)
        <3>1. PICK st \in {"ok", "error"} : Moves(e, st)
            BY <2>4 DEF Answer
        <3> QED
            BY <3>1, MoveFacts DEF ConnState
    <2> QED
        BY <1>2, <2>1, <2>2, <2>3, <2>4 DEF Handler
<1>3. ASSUME NEW d \in Daemon, Runs(d) \/ SetupFails(d) \/ Crash(d) \/ Sigterm(d) PROVE Goal
    BY <1>3, ProcessOnConn DEF Open
<1>4. ASSUME NEW e \in Client, HangUp(e) PROVE Goal
    BY <1>4 DEF DaemonTypeOK, HangUp, NoConn
<1>5. ASSUME NEW e \in Client \ {c}, ClientStep(e) PROVE Goal
    <2>1. CASE Opens(e)
        BY <2>1 DEF DaemonTypeOK, Opens, Connect
    <2>2. CASE SaysRequest(e)
        BY <2>2, MoveFacts DEF SaysRequest, Ask, ConnState
    <2>3. CASE HelloRefused(e)
        BY <1>4, <2>3 DEF HelloRefused
    <2>4. CASE PollTimesOut(e) \/ ReapKills(e)
        <3>1. child[e] \in Daemon
            BY <2>4 DEF CallTypeOK, PollTimesOut, ReapKills
        <3> QED
            BY <1>3, <2>4, <3>1 DEF PollTimesOut, ReapKills, Reaps, dvars
    <2> QED
        BY <1>5, <2>1, <2>2, <2>3, <2>4
           DEF ClientStep, OpenFails, Spawns, Spawn, SpawnFails, PollSees, Reaped, ReopenFails,
               GoneSees, GoneTimesOut, SaysPart, Answered, Lost, TimesOut, Closed, dvars
<1>6. CASE UNCHANGED conn
    BY <1>6
<1>7. ASSUME NEW e \in Client, Reads(e) PROVE Goal
    <2>1. UNCHANGED conn \/ (Moves(e, "asked") /\ conn[e].st = "ready" /\ cpc[e] \in {"request", "close"})
        BY <1>7 DEF Reads, Unsent, Ask, dvars
    <2> QED
        BY <2>1, MoveFacts DEF ConnState
<1> HIDE DEF Goal
<1> QED
    BY <1>2, <1>3, <1>4, <1>5, <1>6, <1>7
       DEF Next, Call, Closes, DaemonHandles, DaemonRuns, Mishap, Upgrade, Quiet, vars, dvars

\* Another's step leaves a call where it is, but for a drain() that returns.
LEMMA OthersOnCall ==
    ASSUME CallTypeOK, [Next]_vars, NEW c \in Client, ~ClientStep(c), cpc[c] # "idle"
    PROVE  cpc'[c] = cpc[c] \/ (cpc[c] = "drain" /\ cpc'[c] = "request")
<1>1. ASSUME NEW e \in Client \ {c}, Call(e) \/ ClientStep(e) PROVE cpc'[c] = cpc[c]
    BY <1>1 DEF CallTypeOK, Call, ClientStep, Opens, OpenFails, Spawns, SpawnFails, PollSees,
           PollTimesOut, Reaps, Reaped, ReapKills, ReopenFails, SaysRequest, SaysPart,
           HelloRefused, Mismatched, GoneSees, GoneTimesOut, Answered, Lost, TimesOut, Closed,
           Goes, Ends
<1>2. CASE UNCHANGED cpc
    BY <1>2
<1>3. ASSUME NEW e \in Client, Reads(e) PROVE cpc'[c] = cpc[c] \/ (cpc[c] = "drain" /\ cpc'[c] = "request")
    BY <1>3 DEF CallTypeOK, Reads, Goes, cvars
<1> QED
    BY <1>1, <1>2, <1>3
       DEF Next, Call, Closes, DaemonHandles, DaemonRuns, Mishap, Upgrade, Quiet, vars, cvars

\* A call's own step asks only from "hello", and moves on from "request" by ending.
LEMMA OwnStep ==
    ASSUME DaemonTypeOK, CallTypeOK, RequestKnown, NEW c \in Client, ClientStep(c)
    PROVE  /\ cpc[c] # "done"
           /\ conn'[c].st \in {"asked", "working"} => cpc'[c] \in {"request", "close", "done"}
           /\ cpc[c] \in {"request", "close"} =>
                  cpc'[c] \in {"close", "done"} /\ conn'[c] = conn[c]
<1>1. CASE Opens(c)
    BY <1>1 DEF DaemonTypeOK, CallTypeOK, Opens, Connect, Goes
<1>2. CASE SaysRequest(c)
    BY <1>2 DEF CallTypeOK, SaysRequest, Goes
<1>3. CASE HelloRefused(c)
    BY <1>3 DEF DaemonTypeOK, HelloRefused, HangUp, NoConn
<1>4. CASE PollTimesOut(c) \/ ReapKills(c)
    <2>1. child[c] \in Daemon /\ cpc[c] \in {"poll", "reap"}
        BY <1>4 DEF CallTypeOK, PollTimesOut, ReapKills
    <2>2. conn[c].st \notin {"asked", "working"}
        BY <2>1 DEF RequestKnown
    <2>3. conn'[c].st = conn[c].st \/ conn'[c].st \notin Open
        BY <1>4, <2>1, ProcessOnConn DEF PollTimesOut, ReapKills, Reaps, dvars
    <2> QED
        BY <2>1, <2>2, <2>3 DEF Open
<1>5. CASE \/ Spawns(c) \/ OpenFails(c) \/ SpawnFails(c) \/ PollSees(c) \/ Reaped(c)
            \/ ReopenFails(c) \/ GoneSees(c) \/ GoneTimesOut(c)
    <2>1. /\ cpc[c] \in {"open", "spawn", "poll", "reap", "reopen", "gone"}
          /\ UNCHANGED conn
        BY <1>5 DEF Spawns, Spawn, OpenFails, SpawnFails, PollSees, Reaped, ReopenFails,
                    GoneSees, GoneTimesOut, dvars
    <2> QED
        BY <2>1 DEF RequestKnown
<1>6. CASE Answered(c) \/ Lost(c) \/ TimesOut(c) \/ Closed(c) \/ SaysPart(c)
    BY <1>6 DEF CallTypeOK, Answered, Lost, TimesOut, Closed, SaysPart, Goes, Ends, dvars
<1> QED
    BY <1>1, <1>2, <1>3, <1>4, <1>5, <1>6 DEF ClientStep

LEMMA RequestKnownStep ==
    DaemonTypeOK /\ CallTypeOK /\ RequestKnown /\ [Next]_vars => RequestKnown'
<1> SUFFICES ASSUME DaemonTypeOK, CallTypeOK, RequestKnown, [Next]_vars,
                    NEW c \in Client, conn'[c].st \in {"asked", "working"}
             PROVE  cpc'[c] \in {"request", "close", "done"}
    BY DEF RequestKnown
<1>1. CASE ClientStep(c)
    BY <1>1, OwnStep
<1>2. CASE ~ClientStep(c)
    <2>1. conn[c].st \in {"asked", "working"} \/ cpc[c] \in {"request", "close"}
        BY <1>2, OthersOnConn
    <2>2. cpc[c] \in {"request", "close", "done"}
        BY <2>1 DEF RequestKnown
    <2> QED
        BY <1>2, <2>2, OthersOnCall
<1> QED
    BY <1>1, <1>2

LEMMA PastStays ==
    ASSUME NEW c \in Client, DaemonTypeOK, CallTypeOK, RequestKnown, Past(c), [Next]_vars
    PROVE  cpc'[c] \in {"request", "close", "done"} /\ conn'[c].st \notin {"hello", "ready", "asked"}
<1>1. CASE ClientStep(c)
    BY <1>1, OwnStep DEF Past
<1>2. CASE ~ClientStep(c)
    BY <1>2, OthersOnConn, OthersOnCall DEF Past
<1> QED
    BY <1>1, <1>2

\* Once a daemon has begun a request the call never greets or asks again,
\* whatever fails afterwards (client.py:414-432).
THEOREM BegunOnce == Spec => AtMostOnce
<1>1. ClientInit => RequestKnown
    BY DEF ClientInit, Init, NoConn, RequestKnown
<1>2. Spec => []RequestKnown
    BY <1>1, RequestKnownStep, ClientTypes, PTL DEF Spec, ClientTypeOK
<1>3. ASSUME NEW c \in Client
      PROVE  Spec => [](conn[c].st = "working" =>
                            [](conn[c].st \notin {"hello", "ready", "asked"}))
    <2> DEFINE P == Past(c)
    <2>1. P /\ DaemonTypeOK /\ CallTypeOK /\ RequestKnown /\ [Next]_vars => P'
        BY PastStays DEF Past
    <2>2. RequestKnown /\ conn[c].st = "working" => P
        BY DEF RequestKnown, Past
    <2>3. P => conn[c].st \notin {"hello", "ready", "asked"}
        BY DEF Past
    <2> HIDE DEF P
    <2> QED
        BY <1>2, <2>1, <2>2, <2>3, ClientTypes, PTL DEF Spec, ClientTypeOK
<1> QED
    BY <1>3 DEF AtMostOnce

-----------------------------------------------------------------------------
(* Whoever spawns is answered *)

\* A client runs code that has been replaced, or met a daemon that does.
Mixed == \E c \in Client :
    \/ cpc[c] # "idle" /\ cver[c] # installed
    \/ attempted[c]
    \/ conn[c].st = "mismatch"

\* Greetings carry the version of the client's code, of which there is no newer
\* one than the installed; a mismatch is one; only who met one waits it out.
Greetings == \A c \in Client :
    /\ cver[c] <= installed
    /\ conn[c].st \in {"hello", "ready", "mismatch"} => conn[c].ver = cver[c]
    /\ conn[c].st \in {"hello", "mismatch"} => cpc[c] = "hello"
    /\ conn[c].st = "ready" => cpc[c] \in {"hello", "drain", "request"}
    /\ conn[c].st = "mismatch" => ver[conn[c].srv] # conn[c].ver
    /\ cpc[c] = "gone" => attempted[c]

\* Until then no daemon leaves before another holds the lock, and who listens
\* goes on listening; so no call waits in vain or is cut.
ComingUp(d) == dpc[d] \in {"boot", "setup", "bound", "serving"}
Underway ==
    /\ \A d \in Daemon : dpc[d] # "dead" => ComingUp(d) /\ ~stopping[d]
    /\ \A c \in Client :
        /\ conn[c].st # "eof"
        /\ cpc[c] # "reap"
        /\ cpc[c] = "poll" => \E d \in Daemon : ComingUp(d)
        /\ cpc[c] = "reopen" => Reachable
        /\ cpc[c] # "close"
        /\ cpc[c] = "done" => outcome[c] \in {"ok", "error"}

LazyInv == Greetings /\ (Mixed \/ Underway)

\* A process that starts, stops or dies only cuts connections its handlers have open.
LEMMA ProcessCuts ==
    ASSUME DaemonTypeOK, NEW c \in Client,
           NEW d \in Daemon, Runs(d) \/ SetupFails(d) \/ Crash(d) \/ Sigterm(d)
    PROVE  /\ UNCHANGED ver
           /\ conn'[c] = conn[c] \/ (conn[c].st \in Open /\ conn'[c].st = "eof")
<1>1. UNCHANGED ver
    BY DEF Runs, SetupFails, WinsLock, LosesLock, Binds, Serves, Stops, Unlinks, Exits, Crash,
           Sigterm, TermEarly, TermBound, TermServing, TermClosing, TermIgnored, dvars
<1>2. UNCHANGED conn \/ \E cs \in SUBSET OpenAt(d) : conn' = Cut(cs)
    <2>1. CASE Unlinks(d) \/ Crash(d) \/ TermBound(d) \/ TermClosing(d)
        BY <2>1 DEF Unlinks, Crash, TermBound, TermClosing
    <2>2. CASE Stops(d)
        BY <2>2 DEF Stops
    <2> QED
        BY <2>1, <2>2
           DEF Runs, SetupFails, WinsLock, LosesLock, Binds, Serves, Exits,
               Sigterm, TermEarly, TermServing, TermIgnored, dvars
<1>3. ASSUME NEW cs \in SUBSET OpenAt(d), conn' = Cut(cs)
      PROVE  conn'[c] = conn[c] \/ (conn[c].st \in Open /\ conn'[c].st = "eof")
    <2>1. conn[c] \in [srv : Daemon \cup {None}, st : ConnState, ver : Version \cup {0}]
        BY DEF DaemonTypeOK
    <2>2. c \in cs => conn[c].st \in Open
        BY DEF OpenAt
    <2>3. conn'[c] = IF c \in cs THEN [conn[c] EXCEPT !.st = "eof"] ELSE conn[c]
        BY <1>3 DEF Cut
    <2> QED
        BY <2>1, <2>2, <2>3
<1> QED
    BY <1>1, <1>2, <1>3

\* What a daemon's handler does to the connections.
LEMMA HandlerMoves ==
    ASSUME DaemonTypeOK, NEW e \in Client, Handler(e)
    PROVE  /\ UNCHANGED <<dpc, ver, sock>>
           /\ \A c \in Client \ {e} : conn'[c] = conn[c]
           /\ \/ conn'[e] = conn[e] /\ UNCHANGED stopping
              \/ /\ conn[e].st = "hello"
                 /\ conn'[e].srv = conn[e].srv /\ conn'[e].ver = conn[e].ver
                 /\ \/ conn'[e].st = "ready" /\ UNCHANGED stopping
                    \/ conn'[e].st = "mismatch" /\ ver[conn[e].srv] # conn[e].ver
              \/ conn'[e].st \in {"working", "ok", "error"} /\ UNCHANGED stopping
<1>1. \A st \in ConnState : Moves(e, st) =>
          /\ conn'[e].srv = conn[e].srv /\ conn'[e].ver = conn[e].ver /\ conn'[e].st = st
          /\ \A c \in Client \ {e} : conn'[c] = conn[c]
    <2> SUFFICES ASSUME NEW st \in ConnState, Moves(e, st)
                 PROVE  /\ conn'[e].srv = conn[e].srv /\ conn'[e].ver = conn[e].ver
                        /\ conn'[e].st = st
                        /\ \A c \in Client \ {e} : conn'[c] = conn[c]
        OBVIOUS
    <2>1. conn[e] \in [srv : Daemon \cup {None}, st : ConnState, ver : Version \cup {0}]
        BY DEF DaemonTypeOK
    <2>2. conn'[e] = [conn[e] EXCEPT !.st = st]
        BY DEF DaemonTypeOK, Moves
    <2> QED
        BY <2>1, <2>2, MoveFacts
<1>2. CASE Hello(e)
    BY <1>1, <1>2 DEF Hello, Handles, ConnState
<1>3. CASE Dispatch(e)
    BY <1>1, <1>3 DEF Dispatch, ConnState
<1>4. CASE Answer(e)
    BY <1>1, <1>4 DEF Answer, ConnState
<1>5. CASE ThreadEnds(e)
    BY <1>5 DEF ThreadEnds
<1> QED
    BY <1>2, <1>3, <1>4, <1>5 DEF Handler

\* The other steps of a call leave the daemons alone; greetings, they come to.
Aside(c) ==
    \/ OpenFails(c) \/ SpawnFails(c) \/ PollSees(c) \/ Reaped(c) \/ ReopenFails(c)
    \/ GoneSees(c) \/ GoneTimesOut(c) \/ Answered(c) \/ Lost(c) \/ TimesOut(c) \/ Closed(c)
LEMMA AsideFacts ==
    ASSUME CallTypeOK, Greetings, ~Impatient, NEW e \in Client, Aside(e)
    PROVE  /\ UNCHANGED <<dvars, cver, attempted, installed>>
           /\ conn[e].st \notin {"hello", "ready", "mismatch"}
           /\ cpc[e] # "idle" /\ cpc'[e] \notin {"idle", "gone"}
           /\ \A c \in Client \ {e} : cpc'[c] = cpc[c]
BY DEF CallTypeOK, Greetings, Aside, OpenFails, SpawnFails, PollSees, Reaped, ReopenFails,
       GoneSees, GoneTimesOut, Answered, Lost, TimesOut, Closed, Unsent, Goes, Ends

\* A call that gives up on its child signals or kills it.
LEMMA ReapFacts ==
    ASSUME CallTypeOK, NEW e \in Client, PollTimesOut(e) \/ ReapKills(e)
    PROVE  /\ cpc[e] \in {"poll", "reap"} /\ cpc'[e] \in {"reap", "done"}
           /\ \A c \in Client \ {e} : cpc'[c] = cpc[c]
           /\ UNCHANGED <<cver, attempted, installed>>
           /\ UNCHANGED dvars \/ \E d \in Daemon : Sigterm(d) \/ Crash(d)
<1>1. child[e] \in Daemon
    BY DEF CallTypeOK, PollTimesOut, ReapKills
<1> QED
    BY <1>1 DEF CallTypeOK, PollTimesOut, Reaps, ReapKills, Goes, Ends


\* What each kind of step does to the processes and connections, and to the calls.
LEMMA GreetingsStep ==
    ASSUME DaemonTypeOK, CallTypeOK, Greetings, ~Impatient, [Next]_vars
    PROVE  Greetings'
<1>1. /\ installed' \in Version /\ installed <= installed'
      /\ \A c \in Client : cver'[c] = cver[c] \/ cver'[c] = installed'
    <2>1. installed \in Nat
        BY DEF CallTypeOK
    <2>2. CASE Upgrade
        BY <2>1, <2>2 DEF Upgrade
    <2>3. CASE UNCHANGED <<cver, installed>>
        BY <2>1, <2>3 DEF CallTypeOK
    <2>4. ASSUME NEW e \in Client, Call(e)
          PROVE  /\ UNCHANGED installed
                 /\ \A c \in Client : cver'[c] = cver[c] \/ cver'[c] = installed'
        BY <2>4 DEF CallTypeOK, Call
    <2>5. ASSUME NEW e \in Client, ClientStep(e) PROVE UNCHANGED <<cver, installed>>
        BY <2>5 DEF ClientStep, Opens, OpenFails, Spawns, SpawnFails, PollSees, PollTimesOut,
               Reaps, Reaped, ReapKills, ReopenFails, SaysRequest, SaysPart, HelloRefused,
               Mismatched, GoneSees, GoneTimesOut, Answered, Lost, TimesOut, Closed, Goes, Ends
    <2>6. Upgrade \/ UNCHANGED <<cver, installed>> \/ \E e \in Client : Call(e)
        BY <2>5 DEF Next, Closes, DaemonHandles, Reads, Goes, DaemonRuns, Mishap, Quiet, vars, cvars
    <2> QED
        BY <2>1, <2>2, <2>3, <2>4, <2>6 DEF CallTypeOK
<1>2. ASSUME NEW c \in Client PROVE cver'[c] <= installed'
    <2>1. cver[c] \in Nat /\ installed \in Nat /\ installed' \in Nat /\ cver[c] <= installed
        BY <1>1 DEF Greetings, CallTypeOK
    <2> QED
        BY <1>1, <2>1
<1> DEFINE Greets(c) ==
        /\ conn[c].st \in {"hello", "ready", "mismatch"} => conn[c].ver = cver[c]
        /\ conn[c].st \in {"hello", "mismatch"} => cpc[c] = "hello"
        /\ conn[c].st = "ready" => cpc[c] \in {"hello", "drain", "request"}
        /\ conn[c].st = "mismatch" => ver[conn[c].srv] # conn[c].ver
        /\ cpc[c] = "gone" => attempted[c]
<1>3. ASSUME NEW d \in Daemon, Runs(d) \/ SetupFails(d) \/ Crash(d) \/ Sigterm(d),
             NEW c \in Client, UNCHANGED <<cver, attempted>>,
             \/ cpc'[c] = cpc[c]
             \/ cpc[c] \in {"poll", "reap"} /\ cpc'[c] \in {"reap", "done"}
      PROVE  Greets(c)'
    BY <1>3, ProcessCuts DEF Greetings
<1>4. ASSUME NEW e \in Client, Handler(e), UNCHANGED cvars, NEW c \in Client
      PROVE  Greets(c)'
    BY <1>4, HandlerMoves DEF Greetings, cvars
<1>5. ASSUME NEW e \in Client, Closes(e) \/ Call(e), NEW c \in Client PROVE Greets(c)'
    BY <1>5 DEF Greetings, DaemonTypeOK, CallTypeOK, Closes, HangUp, NoConn, Call, cvars, dvars
<1>6. ASSUME NEW e \in Client, NEW c \in Client,
             Opens(e) \/ SaysRequest(e) \/ SaysPart(e) \/ Reads(e) \/ HelloRefused(e)
      PROVE  Greets(c)'
    <2>1. CASE Opens(e)
        BY <2>1 DEF Greetings, DaemonTypeOK, CallTypeOK, Opens, Connect, Goes
    <2>2. CASE SaysRequest(e)
        <3>1. Moves(e, "asked") /\ UNCHANGED ver
            BY <2>2 DEF SaysRequest, Ask
        <3>2. conn'[e].st = "asked" /\ (c # e => conn'[c] = conn[c])
            BY <3>1, MoveFacts DEF ConnState
        <3> QED
            BY <2>2, <3>1, <3>2 DEF Greetings, CallTypeOK, SaysRequest, Goes
    <2>3. CASE HelloRefused(e)
        BY <2>3 DEF Greetings, DaemonTypeOK, CallTypeOK, HelloRefused, HangUp, NoConn, Mismatched, Ends
    <2>4. CASE SaysPart(e) \/ (Reads(e) /\ UNCHANGED dvars)
        BY <2>4 DEF Greetings, CallTypeOK, SaysPart, Reads, Unsent, Goes, cvars, dvars
    <2>5. CASE Ask(e) /\ UNCHANGED cvars
        <3>1. Moves(e, "asked") /\ UNCHANGED ver
            BY <2>5 DEF Ask
        <3>2. conn'[e].st = "asked" /\ (c # e => conn'[c] = conn[c])
            BY <3>1, MoveFacts DEF ConnState
        <3> QED
            BY <2>5, <3>1, <3>2 DEF Greetings, cvars
    <2> QED
        BY <1>6, <2>1, <2>2, <2>3, <2>4, <2>5 DEF Reads
<1>7. ASSUME NEW e \in Client, Spawns(e), NEW c \in Client PROVE Greets(c)'
    BY <1>7 DEF Greetings, DaemonTypeOK, CallTypeOK, Spawns, Spawn
<1>8. ASSUME NEW e \in Client, Aside(e), NEW c \in Client PROVE Greets(c)'
    BY <1>8, AsideFacts DEF Greetings, dvars
<1>9. ASSUME NEW e \in Client, PollTimesOut(e) \/ ReapKills(e), NEW c \in Client PROVE Greets(c)'
    <2>1. /\ UNCHANGED <<cver, attempted>>
          /\ cpc'[c] = cpc[c] \/ (cpc[c] \in {"poll", "reap"} /\ cpc'[c] \in {"reap", "done"})
        BY <1>9, ReapFacts
    <2>2. CASE UNCHANGED dvars
        BY <2>1, <2>2 DEF Greetings, dvars
    <2> QED
        BY <1>3, <1>9, <2>1, <2>2, ReapFacts
<1>10. ASSUME UNCHANGED <<dvars, cver, attempted, cpc>>, NEW c \in Client PROVE Greets(c)'
    BY <1>10 DEF Greetings, dvars
<1>11. ASSUME NEW c \in Client PROVE Greets(c)'
    <2> HIDE DEF Greets
    <2>1. ASSUME NEW d \in Daemon, DaemonRuns(d) \/ Mishap(d) PROVE Greets(c)'
        BY <1>3, <2>1 DEF DaemonRuns, Mishap, cvars
    <2>2. ASSUME NEW e \in Client, ClientStep(e) PROVE Greets(c)'
        BY <1>6, <1>7, <1>8, <1>9, <2>2 DEF ClientStep, Aside
    <2>3. ASSUME NEW e \in Client, Call(e) \/ Closes(e) \/ DaemonHandles(e) PROVE Greets(c)'
        BY <1>4, <1>5, <1>6, <2>3 DEF DaemonHandles
    <2>4. CASE Upgrade \/ Quiet \/ UNCHANGED vars
        BY <1>10, <2>4 DEF Upgrade, Quiet, vars, cvars
    <2> QED
        BY <2>1, <2>2, <2>3, <2>4 DEF Next
<1> QED
    BY <1>2, <1>11 DEF Greetings


\* Where versions are mixed they stay mixed.
LEMMA MixedStays ==
    ASSUME DaemonTypeOK, CallTypeOK, Greetings, ~Impatient, [Next]_vars, Mixed
    PROVE  Mixed'
<1>1. PICK c \in Client :
          (cpc[c] # "idle" /\ cver[c] # installed) \/ attempted[c] \/ conn[c].st = "mismatch"
    BY DEF Mixed
<1> DEFINE Old == (cpc[c] # "idle" /\ cver[c] # installed) \/ attempted[c] \/ conn[c].st = "mismatch"
<1> SUFFICES Old'
    BY DEF Mixed
<1>2. installed \in Nat /\ cver[c] \in Nat /\ cver[c] <= installed /\ Old
    BY <1>1 DEF Greetings, CallTypeOK
<1>3. ASSUME NEW d \in Daemon, Runs(d) \/ SetupFails(d) \/ Crash(d) \/ Sigterm(d),
             UNCHANGED <<cver, attempted, installed>>, cpc'[c] = cpc[c] \/ cpc'[c] # "idle"
      PROVE  Old'
    BY <1>2, <1>3, ProcessCuts DEF Open
<1>4. ASSUME NEW e \in Client, Handler(e), UNCHANGED cvars PROVE Old'
    <2>1. conn[c].st = "mismatch" => conn'[c].st = "mismatch"
        <3>1. CASE Hello(e) \/ Dispatch(e) \/ Answer(e)
            <4>1. PICK st \in ConnState : Moves(e, st) /\ conn[e].st # "mismatch"
                BY <3>1 DEF Hello, Dispatch, Answer, Handles, ConnState
            <4> QED
                BY <4>1, MoveFacts
        <3> QED
            BY <1>4, <3>1 DEF Handler, ThreadEnds
    <2> QED
        BY <1>2, <1>4, <2>1 DEF cvars
<1>5. ASSUME NEW e \in Client, Closes(e) \/ Call(e) PROVE Old'
    <2>1. conn[c].st = "mismatch" => conn'[c].st = "mismatch"
        BY <1>5 DEF Greetings, DaemonTypeOK, Closes, HangUp, Call, dvars
    <2>2. UNCHANGED <<attempted, installed>> /\ (cpc[c] # "idle" => cpc'[c] # "idle" /\ cver'[c] = cver[c])
        BY <1>5 DEF CallTypeOK, Closes, Call, cvars
    <2> QED
        BY <1>2, <2>1, <2>2
<1>6. ASSUME NEW e \in Client,
             Opens(e) \/ SaysRequest(e) \/ SaysPart(e) \/ Reads(e) \/ HelloRefused(e)
      PROVE  Old'
    <2>1. CASE Opens(e)
        BY <1>2, <2>1 DEF Greetings, DaemonTypeOK, CallTypeOK, Opens, Connect, Goes
    <2>2. CASE SaysRequest(e)
        <3>1. Moves(e, "asked") /\ conn[e].st # "mismatch"
            BY <2>2 DEF SaysRequest, Ask
        <3>2. conn[c].st = "mismatch" => conn'[c] = conn[c]
            BY <3>1, MoveFacts DEF ConnState
        <3> QED
            BY <1>2, <2>2, <3>2 DEF CallTypeOK, SaysRequest, Goes
    <2>3. CASE HelloRefused(e)
        <3>1. c # e => conn'[c] = conn[c] /\ cpc'[c] = cpc[c]
            BY <2>3 DEF DaemonTypeOK, CallTypeOK, HelloRefused, HangUp, Mismatched, Ends
        <3>2. UNCHANGED <<cver, installed>> /\ attempted'[e] /\ (attempted[c] => attempted'[c])
            BY <2>3 DEF CallTypeOK, HelloRefused, Mismatched, Ends
        <3> QED
            BY <1>2, <3>1, <3>2
    <2>4. CASE SaysPart(e) \/ (Reads(e) /\ UNCHANGED dvars)
        BY <1>2, <2>4 DEF CallTypeOK, SaysPart, Reads, Goes, Ask, cvars, dvars
    <2>5. CASE Ask(e) /\ UNCHANGED cvars
        <3>1. Moves(e, "asked") /\ conn[e].st # "mismatch"
            BY <2>5 DEF Ask
        <3>2. conn[c].st = "mismatch" => conn'[c] = conn[c]
            BY <3>1, MoveFacts DEF ConnState
        <3> QED
            BY <1>2, <2>5, <3>2 DEF cvars
    <2> QED
        BY <1>6, <2>1, <2>2, <2>3, <2>4, <2>5 DEF Reads
<1>7. ASSUME NEW e \in Client, Spawns(e) PROVE Old'
    BY <1>2, <1>7 DEF CallTypeOK, Spawns, Spawn
<1>8. ASSUME NEW e \in Client, Aside(e) PROVE Old'
    BY <1>2, <1>8, AsideFacts DEF dvars
<1>9. ASSUME NEW e \in Client, PollTimesOut(e) \/ ReapKills(e) PROVE Old'
    <2>1. UNCHANGED <<cver, attempted, installed>> /\ (cpc'[c] = cpc[c] \/ cpc'[c] # "idle")
        BY <1>9, ReapFacts
    <2>2. CASE UNCHANGED dvars
        BY <1>2, <2>1, <2>2 DEF dvars
    <2> QED
        BY <1>3, <1>9, <2>1, <2>2, ReapFacts
<1>10. CASE Upgrade
    <2>1. PICK v \in Version : v > installed /\ installed' = v
        BY <1>10 DEF Upgrade
    <2>2. v \in Nat /\ (cver[c] <= installed => cver[c] # v)
        BY <1>2, <2>1
    <2> QED
        BY <1>2, <1>10, <2>1, <2>2 DEF Upgrade, dvars
<1> HIDE DEF Old
<1>11. ASSUME NEW e \in Client, ClientStep(e) PROVE Old'
    BY <1>6, <1>7, <1>8, <1>9, <1>11 DEF ClientStep, Aside
<1>12. ASSUME NEW d \in Daemon, DaemonRuns(d) \/ Mishap(d) PROVE Old'
    BY <1>3, <1>12 DEF DaemonRuns, Mishap, cvars
<1>13. CASE UNCHANGED vars
    BY <1>2, <1>13 DEF Old, vars, dvars, cvars
<1> QED
    BY <1>4, <1>5, <1>6, <1>10, <1>11, <1>12, <1>13 DEF Next, DaemonHandles, Quiet


\* As long as they are not, and nobody loses patience or is killed, whoever
\* listens or comes up goes on.
LEMMA UnderwayStep ==
    ASSUME OwnerInv, CallTypeOK, Greetings, Underway, ~Mixed, [Next]_vars, ~Mixed',
           ~Impatient, ~Mishaps, NoSpawn = {}
    PROVE  Underway'
<1> USE DEF OwnerInv
<1>1. ASSUME NEW d \in Daemon, DaemonRuns(d) PROVE Underway'
    <2>1. UNCHANGED <<conn, stopping, cvars>> /\ (WinsLock(d) \/ LosesLock(d) \/ Binds(d) \/ Serves(d))
        BY <1>1 DEF DaemonRuns, Runs, WinsLock, LosesLock, Binds, Serves, Stops, Unlinks, Exits,
                    Underway, ComingUp
    <2>2. \A e \in Daemon : dpc'[e] # "dead" => ComingUp(e)' /\ dpc[e] # "dead"
        BY <2>1 DEF DaemonTypeOK, WinsLock, LosesLock, Binds, Serves, Underway, ComingUp
    <2>3. (\E e \in Daemon : ComingUp(e)) => \E e \in Daemon : ComingUp(e)'
        <3>1. CASE LosesLock(d)
            <4>1. flock \in Daemon \ {d} /\ dpc[flock] \in Owning
                BY <3>1 DEF LosesLock, DaemonTypeOK, LockOwner, Owning
            <4>2. dpc'[flock] = dpc[flock] /\ ComingUp(flock)
                BY <3>1, <4>1 DEF LosesLock, DaemonTypeOK, Underway, ComingUp, Owning
            <4> QED
                BY <4>1, <4>2 DEF ComingUp
        <3>2. CASE WinsLock(d) \/ Binds(d) \/ Serves(d)
            BY <3>2 DEF DaemonTypeOK, WinsLock, Binds, Serves, ComingUp
        <3> QED
            BY <2>1, <3>1, <3>2
    <2>4. Reachable => Reachable'
        <3>1. CASE Binds(d)
            BY <3>1 DEF Binds, LockOwner, Owning, Reachable, Listening, DaemonTypeOK
        <3>2. CASE WinsLock(d) \/ LosesLock(d) \/ Serves(d)
            BY <3>2 DEF WinsLock, LosesLock, Serves, Reachable, Listening, DaemonTypeOK
        <3> QED
            BY <2>1, <3>1, <3>2
    <2> QED
        BY <2>1, <2>2, <2>3, <2>4 DEF Underway, cvars
<1>2. ASSUME NEW e \in Client, Handler(e), UNCHANGED cvars PROVE Underway'
    <2>1. UNCHANGED <<dpc, stopping, sock>> /\ \A c \in Client : conn'[c].st # "eof"
        BY <1>2, HandlerMoves DEF Mixed, Underway
    <2> QED
        BY <1>2, <2>1 DEF cvars, Underway, ComingUp, Reachable, Listening
<1>3. ASSUME NEW e \in Client, Closes(e) \/ Call(e) \/ Opens(e) PROVE Underway'
    <2>1. /\ UNCHANGED <<dpc, stopping, sock, outcome>>
          /\ \A c \in Client : /\ conn'[c].st # "eof"
                               /\ cpc'[c] = cpc[c] \/ cpc'[c] \in {"open", "hello"}
        BY <1>3 DEF Closes, HangUp, NoConn, Call, Opens, Connect, Goes, cvars, dvars, Underway,
                    DaemonTypeOK, CallTypeOK
    <2> QED
        BY <2>1 DEF Underway, ComingUp, Reachable, Listening
<1>4. ASSUME NEW e \in Client, SaysRequest(e) \/ SaysPart(e) \/ Reads(e) PROVE Underway'
    <2>1. (Moves(e, "asked") \/ UNCHANGED conn) /\ UNCHANGED <<dpc, stopping, sock>>
        BY <1>4 DEF SaysRequest, SaysPart, Reads, Ask, dvars
    <2>2. \A c \in Client : conn'[c].st # "eof"
        BY <2>1, MoveFacts DEF ConnState, Underway
    <2>3. /\ UNCHANGED outcome
          /\ \A c \in Client : cpc'[c] = cpc[c] \/ cpc'[c] \in {"drain", "request"}
        BY <1>4 DEF SaysRequest, SaysPart, Reads, Goes, CallTypeOK, cvars
    <2> QED
        BY <2>1, <2>2, <2>3 DEF Underway, ComingUp, Reachable, Listening
<1>5. ASSUME NEW e \in Client, Spawns(e) PROVE Underway'
    <2>1. PICK d \in Daemon : Spawn(d, installed)
        BY <1>5 DEF Spawns
    <2>2. ComingUp(d)' /\ ~stopping'[d] /\ sock # d
        BY <2>1 DEF Spawn, DaemonTypeOK, ComingUp
    <2>3. \A x \in Daemon \ {d} : dpc'[x] = dpc[x] /\ stopping'[x] = stopping[x]
        BY <2>1 DEF Spawn, DaemonTypeOK
    <2>4. UNCHANGED <<conn, sock, outcome>>
        BY <1>5, <2>1 DEF Spawns, Spawn
    <2>5. \A c \in Client : cpc'[c] = cpc[c] \/ cpc'[c] = "poll"
        BY <1>5 DEF Spawns, CallTypeOK
    <2>6. Reachable => Reachable'
        BY <2>2, <2>3, <2>4 DEF Reachable, Listening, DaemonTypeOK
    <2> QED
        BY <2>2, <2>3, <2>4, <2>5, <2>6 DEF Underway, ComingUp
<1>6. ASSUME NEW e \in Client, OpenFails(e) \/ PollSees(e) \/ Answered(e) PROVE Underway'
    <2>1. /\ UNCHANGED dvars
          /\ \A c \in Client :
                \/ cpc'[c] = cpc[c] /\ outcome'[c] = outcome[c]
                \/ cpc'[c] = "spawn"
                \/ cpc'[c] = "reopen" /\ Reachable
                \/ cpc'[c] = "done" /\ outcome'[c] \in {"ok", "error"}
        BY <1>6 DEF OpenFails, PollSees, Answered, Goes, Ends, CallTypeOK
    <2> QED
        BY <2>1 DEF dvars, Underway, ComingUp, Reachable, Listening
<1>7. ASSUME NEW e \in Client,
             \/ SpawnFails(e) \/ PollTimesOut(e) \/ Reaped(e) \/ ReapKills(e) \/ ReopenFails(e)
             \/ HelloRefused(e) \/ GoneSees(e) \/ GoneTimesOut(e) \/ Lost(e) \/ TimesOut(e)
             \/ Closed(e)
      PROVE  FALSE
    <2>1. cpc[e] = "poll" => ~Hopeless
        BY DEF Underway, ComingUp, Hopeless
    <2>2. cpc[e] # "gone" /\ conn[e].st # "mismatch"
        BY DEF Mixed, Greetings
    <2> QED
        BY <1>7, <2>1, <2>2
           DEF SpawnFails, PollTimesOut, Reaped, ReapKills, ReopenFails, HelloRefused, GoneSees,
               GoneTimesOut, Lost, TimesOut, Closed, Underway
<1>8. CASE UNCHANGED <<dvars, cpc, outcome>>
    BY <1>8 DEF dvars, Underway, ComingUp, Reachable, Listening
<1> QED
    BY <1>1, <1>2, <1>3, <1>4, <1>5, <1>6, <1>7, <1>8
       DEF Next, ClientStep, DaemonHandles, Mishap, Upgrade, Quiet, vars, cvars

LEMMA LazyInit == ClientInit => LazyInv
<1> SUFFICES ASSUME ClientInit PROVE LazyInv
    OBVIOUS
<1>1. Greetings
    BY DEF ClientInit, Init, NoConn, Greetings
<1>2. Underway
    BY DEF ClientInit, Init, NoConn, Underway, ComingUp
<1> QED
    BY <1>1, <1>2 DEF LazyInv

LEMMA LazyWorks ==
    ASSUME DaemonTypeOK, CallTypeOK, LazyInv
    PROVE  LazySpawnWorks
<1> SUFFICES ASSUME OneVersion, NEW c \in Client, cpc[c] = "done"
             PROVE  outcome[c] \in {"ok", "error"}
    BY DEF LazySpawnWorks
<1>1. \A e \in Client : conn[e].st # "mismatch"
    BY DEF LazyInv, Greetings, OneVersion, DaemonTypeOK, ConnState
<1>2. ~Mixed
    BY <1>1 DEF OneVersion, Mixed
<1> QED
    BY <1>2 DEF LazyInv, Underway

\* Calls that race to spawn a daemon, among stale files and losers of the lock:
\* all are answered by the one that wins, if nobody is killed, runs out of time
\* or calls without spawning (client.py:493-539, lifecycle.py:36-41).
THEOREM LazySpawnAnswers ==
    ASSUME ~Impatient, ~Mishaps, NoSpawn = {}
    PROVE  Spec => []LazySpawnWorks
<1>1. OwnerInv /\ CallTypeOK /\ LazyInv /\ [Next]_vars => LazyInv'
    BY GreetingsStep, MixedStays, UnderwayStep DEF OwnerInv, LazyInv
<1>2. OwnerInv /\ CallTypeOK /\ LazyInv => LazySpawnWorks
    BY LazyWorks DEF OwnerInv
<1>3. ImplementsDaemon => []OwnerInv
    BY OwnerInvariant DEF ImplementsDaemon
<1> QED
    BY <1>1, <1>2, <1>3, LazyInit, ClientsAreEnvironment, CallTypes, PTL DEF Spec
=============================================================================
