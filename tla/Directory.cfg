CONSTANTS
    Count = 2
    f = f
    k = k
    l = l
    c = c
    Files = {f}
    Keys = {k, l}
    Commands = {c}
    SpecContents <- MCSpecContents
    Nobody = Nobody
    Foreign = Foreign
    MaxChanges = 2
SPECIFICATION Spec
INVARIANTS WinnersWrite AllOrNothing LastWriterOwns
PROPERTIES OnlyClaimedWritten
