\* AddChild of a node that already has a parent.
CONSTANTS
    Nodes = {n1, n2, n3}
    Names = {a, b}
    Null = Null
    CarefulClient = FALSE
    MaxChildren = 2
SPECIFICATION Spec
INVARIANT AtOnePlaceOnly
CHECK_DEADLOCK FALSE
