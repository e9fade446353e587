SPECIFICATION FairSpec
CONSTANTS
    a1 = a1
    a2 = a2
    k1 = k1
    NoRun = NoRun
    Orphan = Orphan
    Applies = {a1}
    Rollbacks = {}
    Recoveries = {r1}
    Claims = {k1}
    ClaimsOf <- SameClaims
    Overlaps <- DistinctClaims
PROPERTIES
    AttemptsResolvedOnce
    InterruptedWorkCleared
CHECK_DEADLOCK FALSE
