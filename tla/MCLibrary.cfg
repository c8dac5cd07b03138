SPECIFICATION Spec
CONSTANTS
    Notes = {n1}
    Procs = {p, q}
    MaxStamp = 2
    Mishaps = 1
    Aliases = {e1, e2}
    Dirs = {1, 2}
    Writers = {p, q}
    Commands = 2
    Setbacks = 1
    Sessions = {p, q}
    Questions = {"first", "second"}
    Models = {m1, m2}
    MaxEdits = 1
    CacheMax = 1
SYMMETRY Alike
INVARIANTS
    TypeOK
    ReportIsTrue
    CompleteIsWhole
    WishesKept
    ContextIsFresh
    UpToDateIsIndexed
    
PROPERTIES
    PriorSurvives
CHECK_DEADLOCK FALSE
