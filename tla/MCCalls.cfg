\* Two impatient clients, one that never spawns, two versions, daemons that are
\* killed and fail to start.  Only the clients are fair.
CONSTANTS
    None = None
    Daemon = {d1, d2, d3}
    Client = {c1, c2}
    Version = {1, 2}
    WaitsForHandlers = FALSE
    NoSpawn = {c2}
    Large = {c1}
    Impatient = TRUE
    Mishaps = TRUE

SPECIFICATION CallSpec

INVARIANTS
    ClientTypeOK

PROPERTIES
    CallEnds
    AtMostOnce
    ImplementsDaemon
