SPECIFICATION Spec
CONSTANTS
    k = k
    u = u
    v1 = v1
    v2 = v2
    Absent = Absent
    Null = Null
    NoFile = NoFile
    None = None
    Keys <- TwoKeys
    ManagedKeys <- OneManagedKey
    Values = {v1, v2}
    Unrecorded = Absent
    Specs <- LineSpecs
    ForcedKeys <- SomeForced
    MaxBatches = 4
    MaxEdits = 1
    MaxCrashes = 0
PROPERTIES
    NewBlocksGoAway
SYMMETRY SymmetryValues
CHECK_DEADLOCK FALSE
