SPECIFICATION Spec
CONSTANTS
    Item = {i1, i2, i3}
    NULL = NULL
    Key = {"a", "A"}
    Lower <- TwoCases
    Faults = {"null"}
SYMMETRY Addresses
INVARIANT NoNullDereference
CHECK_DEADLOCK FALSE
