SPECIFICATION FairSpec
CONSTANTS
    j1 = j1
    j2 = j2
    e1 = e1
    Jobs = {j1, j2}
    Events = {e1}
    MaxIndex = 2
    MaxFaults = 1
INVARIANT WriterStays
INVARIANT VisibleKept
PROPERTY EditsSurvive
PROPERTY AliasComesBack
