SPECIFICATION Spec
CONSTANTS
    c1 = c1
    c2 = c2
    c3 = c3
    p1 = p1
    p2 = p2
    j1 = j1
    j2 = j2
    Calls = {c1, c2}
    Jtis = {j1}
    Procs = {p1, p2}
    Host <- OwnProcess
    FileStore = TRUE
    Isolated = TRUE
    Serialized = FALSE
    Skew = 1
    MaxTtl = 1
    MaxClock = 2
    MaxKills = 0
    NoCall = NoCall
    NoJti = NoJti
INVARIANT SingleUse
