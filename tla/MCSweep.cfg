CONSTANTS
    MaxSize = 7
    MaxOwn = 4
    Size <- MCSize
    Layouts <- MCLayouts
SPECIFICATION Spec
INVARIANTS
    SweepTypeOK
    MissExplained
    ForeignExplained
CHECK_DEADLOCK FALSE
