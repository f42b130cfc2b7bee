CONSTANTS
    Catalog <- Columns3
    Base <- BaseOf
    Dense = {"a", "c", "d", "e"}
    QuerySet <- Queries1
    DataSet <- SomeData
SPECIFICATION Spec
CHECK_DEADLOCK FALSE
INVARIANTS TypeOK NoPanic AnswersQuery SortedAsAsked OrderingTrue
