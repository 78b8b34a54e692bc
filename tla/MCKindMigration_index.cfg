SPECIFICATION Spec
CONSTANTS
    Key = {"k"}
    Kind = {"s", "t"}
    Source = "s"
    Target = "t"
    Texts = {TRUE, FALSE}
    Written = {"s", "t"}
    Old = {}
    MaxRows = 2
    Indexer = {i1, i2}
    Processor = {}
    PageSize = 2
    MaxFaults = 1
INVARIANTS TypeOK SearchFindsCurrent
CHECK_DEADLOCK FALSE
SYMMETRY IndexersAlike
