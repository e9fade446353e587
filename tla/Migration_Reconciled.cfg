SPECIFICATION Spec
CONSTANTS
    older = older
    newer = newer
    newer2 = newer2
    strict = strict
    Programs = {older, newer, newer2, strict}
    Models <- Versions
    Tables = {"runs", "events"}
    Order <- RunsFirst
    UniqueNames = {"uq_events"}
    Null = Null
    MaxMigrations = 2
    MaxRecords = 2

PROPERTIES
    SchemaReconciled
CHECK_DEADLOCK FALSE
