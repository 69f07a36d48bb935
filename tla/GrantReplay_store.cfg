SPECIFICATION Spec
CONSTANTS
    c1 = c1
    c2 = c2
    c3 = c3
    p1 = p1
    p2 = p2
    j1 = j1
    j2 = j2
    Calls = {c1, c2, c3}
    Jtis = {j1, j2}
    Procs = {p1, p2}
    Host <- ThreadsAndProcess
    FileStore = TRUE
    Isolated = TRUE
    Serialized = TRUE
    Skew = 1
    MaxTtl = 1
    MaxClock = 4
    MaxKills = 1
    NoCall = NoCall
    NoJti = NoJti
INVARIANTS
    TypeOK
    SingleUse
PROPERTY KeepsPromise
