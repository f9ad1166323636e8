\* A realloc that fails.
SPECIFICATION Spec
CONSTANTS
    None = None
    Roots <- AllTrees
    Items <- AllItems
    Sizes = {1, 8}
    FirstSize = 8
    IntMax = 18
    ReallocKnown = {TRUE, FALSE}
INVARIANT NoWildWrite
CHECK_DEADLOCK FALSE
