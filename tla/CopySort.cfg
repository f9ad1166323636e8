\* Lists, nested lists and references; memory may run out at any time.
SPECIFICATION CopySortSpec
CONSTANTS
    Item = {1, 2, 3, 4, 5, 6, 7, 8, 9, 10, 11, 12}
    NULL = NULL
    Key <- Letters
    Lower <- Folding
    Faults = {"strdup"}
    Sources <- SmallSources
    Count = {0, 1, 3}
INVARIANTS MadeRight FailureKeepsNothing SortedRight
PROPERTIES SourceKept Returns
CHECK_DEADLOCK FALSE
