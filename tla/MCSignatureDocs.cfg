CONSTANTS
    Hole = Hole
    Nul = Nul
    MaxSignature = 3
    MaxText = 3
    MaxRegisters = 2
    Chars <- MCChars
    Checks <- MCChecks
SPECIFICATION Spec
INVARIANT SignaturesAsDocumented
CHECK_DEADLOCK FALSE
