\* Any client: nodes in several lists or twice in one, rings, SetParent.
CONSTANTS
    Nodes = {n1, n2, n3}
    Names = {a}
    Null = Null
    CarefulClient = FALSE
    MaxChildren = 2
SPECIFICATION Spec
SYMMETRY AddressSymmetry
PROPERTIES ChildrenDieFirst
\* After undefined behaviour nothing is claimed and nothing is enabled.
CHECK_DEADLOCK FALSE
