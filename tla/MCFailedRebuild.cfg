SPECIFICATION Spec
CONSTANTS
    Notes = {n1, n2}
    Procs = {p}
    MaxStamp = 2
    Mishaps = 1
    Aliases = {e1, e2}
    Dirs = {}
    Writers = {}
    Commands = 0
    Setbacks = 0
    Sessions = {}
    Questions = {"first", "second"}
    Models = {m1, m2}
    MaxEdits = 0
    CacheMax = 1
SYMMETRY Alike
PROPERTIES
    FailureKeepsPrior
CHECK_DEADLOCK FALSE
