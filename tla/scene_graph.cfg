\* A client as careful as the applications of the repository: the detailed
\* graph, and the abstract forest it implements.  No symmetry, since the
\* refinement and the liveness property are temporal.
CONSTANTS
    Nodes = {n1, n2, n3, n4}
    Names = {a, b}
    Null = Null
    CarefulClient = TRUE
    MaxChildren = 3
SPECIFICATION FairSpec
INVARIANTS TypeOK NoUndefinedBehaviour LinksConsistent LookupFindsTheFirst
PROPERTIES ImplementsForest OnlyTheNamedGoes DeletionEnds
