\* Every name, flag and reference with three items; with four, copies of one
\* name and no reference.
SPECIFICATION Spec
CONSTANTS
    Item = {i1, i2, i3, i4}
    NULL = NULL
    Key = {"a", "A"}
    Lower <- TwoCases
    Faults = {}
SYMMETRY Addresses
CONSTRAINT FewerChoices
INVARIANTS NoLeak NameFlagsAgree MembersNamed
PROPERTY ImplementsForest
