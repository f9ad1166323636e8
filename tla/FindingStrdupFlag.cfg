SPECIFICATION Spec
CONSTANTS
    Item = {i1, i2, i3}
    NULL = NULL
    Key = {"a", "A"}
    Lower <- TwoCases
    Faults = {"strdup"}
SYMMETRY Addresses
INVARIANT NameFlagsAgree
CHECK_DEADLOCK FALSE
