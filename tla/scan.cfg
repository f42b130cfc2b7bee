CONSTANTS
    Columns = {"a", "b"}
    Ranged = {"a"}
    Value <- Places
    Number <- Numbers
    NaNs = {6}
    RowSet <- SomeRows
    find_row_size <- SizeOf
    Usable = 2
    MaxRows = 4
    Table = t
    Others = {f}
    OtherBlocks = {1}
    MinGap = 2
    PredLists <- Lists
    Filters <- SomeFilters
    BatchBlocks = 2
SPECIFICATION FairSpec
CHECK_DEADLOCK FALSE
INVARIANTS BlocksCoverRows StatsTrue FilesApart ReadsOwnFile
PROPERTIES ScansAll Ends
