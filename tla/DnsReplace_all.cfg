SPECIFICATION FairSpec
CONSTANTS
    c1 = c1
    c2 = c2
    v1 = v1
    v2 = v2
    Calls = {c1, c2}
    Values = {v1, v2}
    Want <- Contrary
    Settings <- All
INVARIANTS
    TypeOK
    RollbackRestores
PROPERTIES
    OnlyApprovedRemoved
    Converges
