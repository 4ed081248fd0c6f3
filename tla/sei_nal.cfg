CONSTANT Cases <- MCCases
SPECIFICATION SeiSpec
INVARIANTS
    NoStartCodeInside
    ReadsBack
    UnitsKept
    DelimiterFirst
CHECK_DEADLOCK FALSE
