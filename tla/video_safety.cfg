SPECIFICATION FairSpec
CONSTANTS
    MaxMap = 4
    Capacity = 2
    AllocFails = TRUE
    MaxFrames = 5
    MaxBins = 2
INVARIANTS AppsrcAlive SeiBelongsToFrame StampsWait
PROPERTIES NumbersGrow LostToStalePushOnly ImplementsFrameStream StuckOnlyUnplayed
