\* Pairs of small documents, and some documents with every single patch.
\* The list of patches ends.
SPECIFICATION Spec
CONSTANTS
    NULL = NULL
    Unset = 63
    Pairs <- SomePairs
    PatchLists <- SomePatchLists
INVARIANTS
    AppliesAsRFC FailureKeepsRest PatchesReachTarget MergesAsRFC MergeReachesTarget
    PointersLead ComparesRight
CHECK_DEADLOCK FALSE
