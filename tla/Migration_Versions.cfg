SPECIFICATION Spec
CONSTANTS
    older = older
    newer = newer
    newer2 = newer2
    strict = strict
    Programs = {older, newer, newer2, strict}
    Models <- Versions
    Tables = {"runs", "events"}
    Order <- RunsFirst
    UniqueNames = {"uq_events"}
    Null = Null
    MaxMigrations = 4
    MaxRecords = 2
INVARIANTS
    RowsKept
PROPERTIES
    RebuiltOnlyWhenDifferent
    ColumnsReconciled
CHECK_DEADLOCK FALSE
