SPECIFICATION Spec
CONSTANTS
    NoBlock = NoBlock
    c1 = c1
    c2 = c2
    s1 = s1
    s2 = s2
    u1 = u1
    u2 = u2
    Calls = {c1}
    Hosts = {s1}
    Upstreams = {u1, u2}
    Admits = "one"
    MaxRuns = 1
    MaxFaults = 0
    MaxBreaks = 1
    MaxKills = 0
    MaxEdits = 0
PROPERTY UnmanagedPreserved
