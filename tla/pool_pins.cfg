CONSTANTS
    NumFrames = 2
    Content = {x, y}
    FileBlocks = {0, 1}
    AnonStart = 4
    NoBlock = NoBlock
    NoFrame = NoFrame
    NoData = NoData
    Policies = {"CLOCK"}
    FirstPolicies = {"LRU", "MRU", "CLOCK"}
    OverwritePinned = FALSE
    MaxAnon = 1
    MaxRun = 1
    MaxLru = 4
    MaxFree = 0
    MaxPins = 2
SPECIFICATION FairSpec
CHECK_DEADLOCK FALSE
INVARIANTS PageTableExact PinsMatch NotExhausted
PROPERTIES PinProtects ScanFinds
