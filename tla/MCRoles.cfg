\* A chat model beside two embed models, each role with room for one: chats,
\* embeds, unloads, and model.load requests that name the wrong role.
CONSTANTS
    None = None
    Request = {r1, r2, r3}
    Timer = {u1, u2, u3, u4, u5}
    Alias = {m1, m2, m3}
    Id = {id1}
    RolesOf <- OneChat
    Cap <- CapOne
    KeepAlive = {"delay", "pin"}
    Ops = {"chat", "embed", "load", "unload"}
    Disconnects = FALSE

SPECIFICATION Spec
SYMMETRY RequestSymmetry

INVARIANTS
    ResidentCap
    OneLoadAtATime

PROPERTIES
    ImplementsResidency
