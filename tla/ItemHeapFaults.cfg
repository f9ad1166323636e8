\* Names that cannot be copied, unnamed members: the structure stays sound.
\* The program may crash, and then stops.
SPECIFICATION Spec
CONSTANTS
    Item = {i1, i2, i3}
    NULL = NULL
    Key = {"a", "A"}
    Lower <- TwoCases
    Faults = {"strdup", "null", "arrayop"}
SYMMETRY Addresses
INVARIANTS TypeOK DoublyLinked OwnedOnce NoDangling Acyclic
PROPERTY KeepsHold
CHECK_DEADLOCK FALSE
