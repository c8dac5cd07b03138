SPECIFICATION Spec
CONSTANTS
    Daemon = {d1, d2, d3}
    Jobs = {"start", "stop", "restart", "heal", "status", "enable", "force", "offer", "disable"}
    Mischief = 1
    Alias = {a1, a2}
    Trouble = 1
    Torn = Torn
    Inode = {1, 2, 3, 4, 5}
    Clerk = {p1, p2}
    None = None
SYMMETRY Alike
INVARIANTS
    TypeOK
    ReportsAreTrue
    RegistryIsWhole
    RotationIsNoticed
CHECK_DEADLOCK FALSE
