SPECIFICATION Spec
CONSTANTS
    None = None
    Empty = Empty
    Torn = Torn
    i1 = i1
    i2 = i2
    g1 = g1
    ssl = ssl
    Sync = Sync
    Issuers = {i1, i2}
    Guarded = {g1}
    Flags = {ssl, Sync}
    Default = {ssl, Sync}
    Requests = {0, 3}
    MinTtl = 1
    MaxTtl = 2
    Skew = 1
    Settings <- Deployments
    MaxClock = 4
    MaxIssues = 2
    MaxFaults = 1
    MaxKills = 1
INVARIANTS
    TypeOK
    StaysClosed
    LeaseIsLastGranted
