CONSTANTS
    Usable = 3
    CountMod = 65536
    RowSizes = {1, 2, 3}
    Prefetch = 2
    MaxRows = 6
    MaxGap = 1
SPECIFICATION Spec
INVARIANTS ReadsOwnBlocks
PROPERTIES ReadsBack ReadsOnce
