SPECIFICATION VerifySpec
CONSTANTS
    None = None
    h1 = h1
    h2 = h2
    r1 = r1
    r2 = r2
    v1 = v1
    Calls = {h1, h2}
    Releases = {r1, r2}
    Settings <- Deployments
    Verifiers = {v1}
    Asks <- Requests
    Observed <- Watched
    Fresh <- New
INVARIANTS
    VerifyTypeOK
    EffectiveActivation
    OldStillNamed
    NotLeftUnpublished
    VerifiedIsServed
