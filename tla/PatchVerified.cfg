CONSTANTS
    p1 = p1
    p2 = p2
    source = source
    test = test
    Routes <- AllRoutes
    Chain <- StaticChain
    Policies <- Drafts
    MaxVersions = 3
    Files = {source, test}
    Processes = {p1, p2}
    MaxAttempts = 4
    Adapters <- Lists
    MaxFaults = 1
SPECIFICATION Spec
INVARIANTS CommittedIsVerified
CONSTRAINT Apart
ACTION_CONSTRAINT OwnerActsBetween
SYMMETRY Symmetry
CHECK_DEADLOCK FALSE
