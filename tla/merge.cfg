CONSTANTS
    Keys = {1, 2, 3}
    MaxRows = 4
SPECIFICATION FairSpec
INVARIANTS GroupIsWhole
PROPERTIES MergesAll Ends
