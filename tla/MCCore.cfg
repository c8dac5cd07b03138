\* Three clients, with two ids, of two chat models with room for one: chats,
\* immediate unloads, unload requests, cancels, dropped connections.
CONSTANTS
    None = None
    Request = {r1, r2, r3}
    Timer = {u1, u2, u3, u4, u5}
    Alias = {m1, m2}
    Id = {id1, id2}
    RolesOf <- AllChat
    Cap <- CapOne
    KeepAlive = {"delay", "now"}
    Ops = {"chat", "unload", "cancel"}
    Disconnects = TRUE

SPECIFICATION Spec
SYMMETRY Symmetry

INVARIANTS
    TypeOK
    LockDiscipline
    GenerationExclusive
    CancelReaches
    OneCountdown
    CountdownRuns

