CONSTANTS
    Lines = {"a", "b"}
    PipeSize = 1
    OutSize = 1
    Chunks = 2
    MayFail = {"database", "disk"}
    MaxAnswer = 2
    MaxRequests = 2
    MaxPadding = 1
SPECIFICATION FairSpec
CHECK_DEADLOCK FALSE
INVARIANTS NoFalseSuccess FailsForCause InStep
PROPERTIES EndsUnlessLost DiskFollows
