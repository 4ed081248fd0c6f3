CONSTANTS
    Params <- MCParams
    Type <- MCType
    Default <- MCDefault
    Beside <- MCBeside
    Numerals <- MCNumerals
    Quoted <- MCQuoted
    Files <- MCFiles
    MaxLines = 3
SPECIFICATION Spec
INVARIANTS
    ReadAsWritten
    RefusedIfUnreadable
CHECK_DEADLOCK FALSE
