SPECIFICATION ClaimSpec
CONSTANTS
    a1 = a1
    a2 = a2
    NoRun = NoRun
    Orphan = Orphan
    NoOwner = NoOwner
    Applies = {a1, a2}
    Rollbacks = {}
    Recoveries = {r1}
    Claims <- ParentAndChild
    ClaimsOf <- ParentApart
    Overlaps <- ScopesOverlap
    Owners <- SpecOwners
    OwnerOf <- SpecPerApply
    Order <- KeyOrder
INVARIANTS
    DisjointOwners
    ReservationsDisjoint
PROPERTIES
    WriterSpec
    TransfersAreAgreed
VIEW WithoutLate
ACTION_CONSTRAINT SecondApplyReturns
CHECK_DEADLOCK FALSE
