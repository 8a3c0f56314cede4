CONSTANTS
    Hole = Hole
    Nul = Nul
    MaxSignature = 4
    MaxText = 4
    MaxRegisters = 4
    Chars <- MCChars
    Checks <- MCChecks
SPECIFICATION Spec
INVARIANTS
    SigTypeOK
    ClassifiedSmall
    ListsDecide
PROPERTY Answers
CHECK_DEADLOCK FALSE
