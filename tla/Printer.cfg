\* Every tree, buffers of any size, texts beyond INT_MAX; memory may run out at
\* any time.  The call returns, and then nothing happens any more.
SPECIFICATION Spec
CONSTANTS
    None = None
    Roots <- AllTrees
    Items <- AllItems
    Sizes = {0, 1, 5, 6, 7, 8, 9, 10, 11, 12, 13, 14}
    FirstSize = 8
    IntMax = 18
    ReallocKnown = {TRUE, FALSE}
INVARIANTS
    TypeOK StaysInside BufferSound NothingLeft FitsInt ResultIsText Enough
CHECK_DEADLOCK FALSE
