\* Without a cap there is no eviction: every request is answered and idle chat
\* models leave memory.
CONSTANTS
    None = None
    Request = {r1, r2, r3}
    Timer = {u1, u2, u3, u4, u5}
    Alias = {m1, m2}
    Id = {id1}
    RolesOf <- OneChat
    Cap <- Uncapped
    KeepAlive = {"delay"}
    Ops = {"chat", "embed", "unload"}
    Disconnects = FALSE

SPECIFICATION FairSpec

PROPERTIES
    Answered
    IdleModelsUnload
