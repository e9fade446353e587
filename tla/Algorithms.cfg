SPECIFICATION AllSpec
CONSTANTS
    a = a
    b = b
    l = l
    m = m
    p = p
    q = q
    x = x
    y = y
    shell = shell
    other = other
    m1 = m1
    m2 = m2
    c = c
    d = d
    note = note
    Scalars = {x, y}
    Comma = Comma
    Missing = Missing
    Failed = Failed
    All = All
    Unresolved = Unresolved
    Unreadable = Unreadable
    NoBlock = NoBlock
    Separator = Separator
    Path = Path
    NoValue = NoValue
    NoEdits = NoEdits
    AnyShell = AnyShell
    PathParts = {a, b, x}
    KeyWords = {"a", "b"}
    Scopes <- MCScopes
    ScopePaths <- MCScopePaths
    ScopeKeys <- MCScopeKeys
    ScopeBlocks <- MCScopeBlocks
    Bodies <- MCBodies
    BlockIds <- MCBlockIds
    Texts <- MCTexts
    DesiredBlocks <- MCDesiredBlocks
    Names <- MCNames
    Parts <- MCParts
    Shells = {shell, other}
    EntryLists <- MCEntryLists
    Environs <- MCEnvirons
    OtherPaths <- MCOtherPaths
    Machines <- MCMachines
    FileTargets <- MCFileTargets
    Here <- MCHere
    Locations <- MCLocations
    Candidates <- MCCandidates
    Appendices <- MCAppendices
    FileSystems <- MCFileSystems
    NewPaths <- MCNewPaths
INVARIANTS
    OverlapIsSharedPlace
    BlocksAreUndone
    EnvBlockSettles
    EnvBlockIsResolved
    AlternativesAreExclusive
    LocationsAreStable
    DocumentsSettle
    AppliesAreUndone
    EditsSurviveRollback
    JsoncIsRewritten
CHECK_DEADLOCK FALSE
