SPECIFICATION FairEnsureSpec
CONSTANTS
    None = None
    Unlimited = Unlimited
    Unknown = Unknown
    c1 = c1
    c2 = c2
    n1 = n1
    n2 = n2
    s1 = s1
    s2 = s2
    Callers = {c1, c2}
    Names = {n1, n2}
    Subscriptions = {s1}
    Limits = {1, Unlimited, Unknown}
    Settings <- All
INVARIANTS
    EnsureTypeOK
PROPERTIES
    AddedWithRoom
    EnsureConverges
