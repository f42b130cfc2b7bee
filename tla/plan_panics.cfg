CONSTANTS
    Catalog <- Columns3
    Base <- BaseOf
    Dense = {"a", "c", "d", "e"}
    QuerySet <- FilteredSort
    DataSet <- SomeData
SPECIFICATION Spec
CHECK_DEADLOCK FALSE
INVARIANT NoPanic
