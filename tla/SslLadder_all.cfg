SPECIFICATION FairLadderSpec
CONSTANTS
    c1 = c1
    c2 = c2
    NoCert = NoCert
    SslCalls = {c1, c2}
    Repositories <- SmallRepositories
    Deployments <- SmallDeployments
INVARIANTS LadderTypeOK EnsuredCovers
PROPERTIES CoveringKept LadderConverges
