SPECIFICATION FairSpec
CONSTANTS
    c1 = c1
    c2 = c2
    NoSecret = NoSecret
    Calls = {c1, c2}
    MaxGrants = 7
    MaxFaults = 1
    MaxLost = 1
    MaxKills = 1
    MaxDuds = 1
INVARIANTS TypeOK RuntimeKeyKept
PROPERTIES Provisioned Converges
