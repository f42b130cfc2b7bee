CONSTANTS
    Keys = {1, 2, 3, 4}
    Equal <- SameNumber
    Hash <- HashOf
    Positions <- BitsOf
    NumPartitions = 2
    ChunkSize = 2
    Limit = 3
    LeftBytes = 1
    RightBytes = 1
    MaxRows = 3
SPECIFICATION Spec
CHECK_DEADLOCK FALSE
INVARIANTS FreedAfterRead ProbeRowKept
PROPERTY JoinsAll
