SPECIFICATION Spec
CONSTANTS
    k = k
    u = u
    v1 = v1
    v2 = v2
    Absent = Absent
    Null = Null
    NoFile = NoFile
    None = None
    Keys <- TwoKeys
    ManagedKeys <- OneManagedKey
    Values = {v1, v2}
    Unrecorded = Null
    Specs <- MappingSpecs
    ForcedKeys <- NoneForced
    MaxBatches = 3
    MaxEdits = 0
    MaxCrashes = 0
PROPERTIES
    OriginalRestoresBaseline
SYMMETRY SymmetryValues
CHECK_DEADLOCK FALSE
