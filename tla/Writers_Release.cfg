SPECIFICATION Spec
CONSTANTS
    a1 = a1
    a2 = a2
    k1 = k1
    NoRun = NoRun
    Orphan = Orphan
    Applies = {a1, a2}
    Rollbacks = {}
    Recoveries = {}
    Claims = {k1}
    ClaimsOf <- SameClaims
    Overlaps <- DistinctClaims
PROPERTIES
    ReleaseNeedsOwnToken
CHECK_DEADLOCK FALSE
