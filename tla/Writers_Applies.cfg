SPECIFICATION Spec
CONSTANTS
    a1 = a1
    a2 = a2
    k1 = k1
    NoRun = NoRun
    Orphan = Orphan
    Applies = {a1, a2}
    Rollbacks = {b1}
    Recoveries = {}
    Claims = {k1}
    ClaimsOf <- SameClaims
    Overlaps <- DistinctClaims
INVARIANTS
    TypeOK
    ReservationsRecoverable
    NoRowLeftBehind
    LateWriteIsTheLast
PROPERTIES
    SlotSpec
SYMMETRY SymmetryApplies
CHECK_DEADLOCK FALSE
