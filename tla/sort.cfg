CONSTANTS
    Keys = {1, 2}
    RowBytes = {2, 5}
    Budget = 4
    MaxRows = 5
SPECIFICATION Spec
CHECK_DEADLOCK FALSE
INVARIANTS FreedOnce BufferBounded
PROPERTY SortsInput
