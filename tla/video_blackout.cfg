SPECIFICATION Spec
CONSTANTS
    MaxMap = 4
    Capacity = 2
    AllocFails = FALSE
    MaxFrames = 3
    MaxBins = 2
INVARIANTS LivePipelineIsFed
