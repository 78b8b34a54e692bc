SPECIFICATION FairSpec
CONSTANTS
    Key = {"k"}
    Kind = {"s", "t"}
    Source = "s"
    Target = "t"
    Texts = {TRUE}
    Written = {"s"}
    Old = {2}
    MaxRows = 2
    Indexer = {}
    Processor = {"p1", "p2"}
    PageSize = 1
    MaxFaults = 1
INVARIANTS ActiveHasTask CountIsExact NoRowLeftBehind
PROPERTIES MigrationEnds
CHECK_DEADLOCK FALSE
