CONSTANTS
    Limit = 5
    RightBytes = 2
    ChunkRows = 2
    MaxRows = 5
SPECIFICATION Spec
CHECK_DEADLOCK FALSE
PROPERTY CrossesAll
