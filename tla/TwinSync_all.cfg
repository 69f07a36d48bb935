SPECIFICATION FairSpec
CONSTANTS
    c1 = c1
    c2 = c2
    v1 = v1
    v2 = v2
    o1 = o1
    Absent = Absent
    Torn = Torn
    None = None
    Calls = {c1, c2}
    Observers = {o1}
    Files = {1, 2}
    Entries = {1, 2}
    Versions = {v1, v2}
    Trees <- SourceTrees
    Settings <- Deployments
INVARIANTS TypeOK LiveIsPlanned
PROPERTIES VerifiedIsWhole FreshMatches Converges
