CONSTANTS
    Values = {1, 2, 3, 124, 125, 126}
    BufferSize = 2
    MaxForeign = 3
SPECIFICATION Spec
INVARIANTS
    ReadsAhead
    RoundTrip
    OneFramePerMessage
CHECK_DEADLOCK FALSE
