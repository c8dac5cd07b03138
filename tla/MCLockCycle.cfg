\* Violated: an eviction that waits for its victim closes a cycle of locks.
CONSTANTS
    None = None
    Request = {r1, r2, r3, r4}
    Timer = {u1, u2, u3, u4, u5}
    Alias = {m1, m2}
    Id = {id1}
    RolesOf <- AllEmbed
    Cap <- CapOne
    KeepAlive = {"delay"}
    Ops = {"embed", "unload"}
    Disconnects = FALSE

SPECIFICATION Spec
SYMMETRY Symmetry
CHECK_DEADLOCK FALSE

INVARIANTS
    NoLockCycle
