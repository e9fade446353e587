SPECIFICATION Spec
CONSTANTS
    k = k
    u = u
    v1 = v1
    v2 = v2
    Absent = Absent
    Null = Null
    NoFile = NoFile
    None = None
    Keys <- TwoKeys
    ManagedKeys <- OneManagedKey
    Values = {v1, v2}
    Unrecorded = Null
    Specs <- MappingSpecs
    ForcedKeys <- SomeForced
    MaxBatches = 3
    MaxEdits = 1
    MaxCrashes = 1
INVARIANTS
    TypeOK
    LedgerMatchesWrites
PROPERTIES
    FirstRollbackRestores
    PlannedForThisContent
    OverwrittenWasCopied
SYMMETRY SymmetryValues
CHECK_DEADLOCK FALSE
