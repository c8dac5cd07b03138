\* Two patient clients race to spawn a daemon, before or after an upgrade.  A
\* daemon of the wrong version waits for its open connections before it leaves.
CONSTANTS
    None = None
    Daemon = {d1, d2, d3}
    Client = {c1, c2}
    Version = {1, 2}
    WaitsForHandlers = TRUE
    NoSpawn = {}
    Large = {c1}
    Impatient = FALSE
    Mishaps = FALSE

SPECIFICATION FairSpec

INVARIANTS
    LazySpawnWorks

PROPERTIES
    MismatchVacates
