CONSTANTS
    NumFrames = 2
    Content = {x, y}
    FileBlocks = {0}
    AnonStart = 4
    NoBlock = NoBlock
    NoFrame = NoFrame
    NoData = NoData
    Policies = {"LRU"}
    FirstPolicies = {"CLOCK"}
    OverwritePinned = TRUE
    MaxAnon = 2
    MaxRun = 2
    MaxLru = 1
    MaxFree = 4
    MaxPins = 1
SPECIFICATION Spec
CHECK_DEADLOCK FALSE
INVARIANTS CacheCoherent NoSharedBlock
SYMMETRY ContentSymmetry
