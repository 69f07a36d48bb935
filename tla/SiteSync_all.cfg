SPECIFICATION FairSpec
CONSTANTS
    c1 = c1
    v1 = v1
    v2 = v2
    r1 = r1
    r2 = r2
    Absent = Absent
    Torn = Torn
    None = None
    Made = Made
    Calls = {c1}
    Files = {1, 2}
    Versions = {v1, v2}
    Releases = {r1, r2}
    Settings <- Deployments
    MaxEdits = 2
    MaxActivations = 1
    MaxKills = 1
INVARIANTS TypeOK PartialReported EndsByItself
PROPERTIES
    CountedAsApproved
    Converges
