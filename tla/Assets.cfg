SPECIFICATION Spec
CONSTANTS
    a = a
    b = b
    s1 = s1
    s2 = s2
    u = u
    NoFile = NoFile
    None = None
    Paths = {a, b}
    Order <- TwoFiles
    Contents = {s1, s2, u}
    UserContents = {u}
    Sources <- Trees
    MaxApplies = 2
    MaxRollbacks = 2
    MaxEdits = 1
    MaxCrashes = 1
INVARIANTS
    BackupRowsTrue
PROPERTIES
    TakenIsKept
    UserContentKept
    RestoreBringsLatest
    RollbackRestoresOrigin
CHECK_DEADLOCK FALSE
