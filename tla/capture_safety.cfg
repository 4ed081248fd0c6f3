SPECIFICATION FairSpec
CONSTANTS
    Cameras = {d435i, d435, d455}
    D435i = {d435i}
    HasImu = {d435i, d455}
    NoSource = NoSource
    Bag = Bag
    MaxQueue = 2
    MaxFaults = 1
INVARIANTS QueueOfThisRun
PROPERTIES StreamsOncePlugged
