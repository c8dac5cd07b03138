\* Three processes, two clients of two versions, in an environment that starts,
\* signals and kills daemons and connects at any moment.
CONSTANTS
    None = None
    Daemon = {d1, d2, d3}
    Client = {c1, c2}
    Version = {1, 2}
    WaitsForHandlers = TRUE

SPECIFICATION DaemonSpec
SYMMETRY Symmetry

INVARIANTS
    DaemonTypeOK
    SocketIsOwn
    WorkUnderLock

PROPERTIES
    ImplementsService
